------------------------------ MODULE Catalog ------------------------------
(* The part of the PostgreSQL schema the crawler and the indexer share:     *)
(* tenders, their attachments and their chunks (models.py).  A tender's     *)
(* content is its canonical hash, a member of Versions: two records hash    *)
(* alike exactly when hashing.py's canonical payload is the same.           *)
EXTENDS Naturals, FiniteSets

CONSTANTS
    Tenders,      \* (source, external_id) pairs
    Versions,     \* content hashes
    Attachments,  \* attachment URLs
    Listed,       \* the attachment URLs a version of a record names
    None          \* SQL NULL

ASSUME CatalogAssumption ==
    /\ Listed \in [Versions -> SUBSET Attachments]
    /\ None \notin Versions

VARIABLES
    row,         \* tenders: content_hash, indexed_hash, index_status
    attachment,  \* attachments: download_status per tender and URL
    chunks       \* chunks: the text version and the attachments they came from

catalogVars == <<row, attachment, chunks>>

Hash == Versions \cup {None}
IndexStatus == {"pending", "processing", "ready", "failed"}
DownloadStatus == {"pending", "ready", "failed", "skipped"}

\* "absent" stands for a row that was never inserted.
Row == [hash : Hash, indexed : Hash, status : IndexStatus \cup {"absent"}]
AbsentRow == [hash |-> None, indexed |-> None, status |-> "absent"]

\* content_hash is NOT NULL in every stored row.
CatalogTypeOK ==
    /\ row \in [Tenders -> Row]
    /\ \A t \in Tenders : row[t].status # "absent" => row[t].hash \in Versions
    /\ attachment \in [Tenders -> [Attachments -> DownloadStatus \cup {"absent"}]]
    /\ chunks \in [Tenders -> [version : Hash, files : SUBSET Attachments]]

CatalogInit ==
    /\ row = [t \in Tenders |-> AbsentRow]
    /\ attachment = [t \in Tenders |-> [a \in Attachments |-> "absent"]]
    /\ chunks = [t \in Tenders |-> [version |-> None, files |-> {}]]

\* The attachments whose file extract_attachment can read.
ReadyFiles(t) == {a \in Attachments : attachment[t][a] = "ready"}
=============================================================================
