----------------------------- MODULE IndexBuild -----------------------------
(* What one attempt of IndexerService.process does between its two          *)
(* transactions: text units from the tender and its files                   *)
(* (indexer/extract.py), drafts (Chunking), and embeddings, one request per *)
(* batch (ai.py).  An embedding is represented by the text it was computed  *)
(* from.                                                                    *)
EXTENDS Chunking

CONSTANTS
    Indexers,
    Versions,     \* contents of the tender, with the texts
    Title, Description, Metadata,
    Attachments,
    Format,       \* what extract_attachment takes a file for
    Pages,        \* the texts in a file: of its pages, or one
    BatchSize,    \* embedding_batch_size
    None

Formats == {"pdf", "xml", "html", "json", "text", "other"}

ASSUME IndexBuildAssumption ==
    /\ Versions = DOMAIN Title
    /\ DOMAIN Title = DOMAIN Description /\ DOMAIN Title = DOMAIN Metadata
    /\ Format \in [Attachments -> Formats]
    /\ BatchSize \in Nat \ {0}
    /\ None \notin Versions \cup Attachments

VARIABLES
    pc,    \* what each indexer does next
    job    \* what it has read and computed for its event

buildVars == <<pc, job>>

Goto(w, label) == pc' = [pc EXCEPT ![w] = label]
----------------------------------------------------------------------------
(* Extraction *)

Words(text) == FlattenSeq([i \in DOMAIN text |-> text[i].words])
Unit(attachment, section, text) ==
    [attachment |-> attachment, section |-> section, text |-> text]

\* title_text, description_text if there is one, metadata_text.
TenderUnits(version) ==
    <<Unit(None, "title", Title[version])>>
    \o (IF Words(Description[version]) = <<>> THEN <<>>
        ELSE <<Unit(None, "description", Description[version])>>)
    \o <<Unit(None, "metadata", Metadata[version])>>

\* The states of a file that make extract_attachment raise ExtractionError:
\* PDF, XML and JSON can be malformed, text and HTML are decoded as they are,
\* and a PDF is not held against the size limit.
Unreadable(format, disk) ==
    \/ disk = "missing"
    \/ disk = "malformed" /\ format \in {"pdf", "xml", "json"}
    \/ disk = "too_large" /\ format \notin {"pdf"}

\* A file of an unknown format has no units, and neither has an empty page.
FileUnits(attachment) ==
    IF Format[attachment] = "other" THEN <<>>
    ELSE SelectSeq([page \in DOMAIN Pages[attachment] |->
                       Unit(attachment, page, Pages[attachment][page])],
                   LAMBDA unit : Words(unit.text) # <<>>)

Warnings(files, disk) == {a \in files : Unreadable(Format[a], disk[a])}

\* Wrong variant of Readable: an unreadable file ends the extraction.
NothingIfOneFails(files, disk) == IF Warnings(files, disk) = {} THEN files ELSE {}
\* The loop over the attachments: an unreadable one becomes a warning.
Readable(files, disk) == files \ Warnings(files, disk)

\* tender.attachments, which has no order_by: some order of those in files.
InOrder(files) == SetToSeq(files)

\* The drafts of a version with the files that can be read.
Drafts == [version \in Versions |-> [files \in SUBSET Attachments |->
    LET order == InOrder(files)
    IN  ChunkUnits(TenderUnits(version)
                   \o FlattenSeq([i \in DOMAIN order |-> FileUnits(order[i])]))]]

\* Extraction and chunking, without an await in between.
Extract(w) ==
    /\ pc[w] = "extract"
    /\ \E disk \in [job[w].files -> {"good", "missing", "malformed", "too_large"}] :
         job' = [job EXCEPT
            ![w].drafts = Drafts[job[w].version][Readable(job[w].files, disk)],
            ![w].warnings = Warnings(job[w].files, disk)]
    /\ Goto(w, "embed")
----------------------------------------------------------------------------
(* Embeddings *)

\* The texts of the next batch: drafts[start : start + batch_size].
Batch(w) ==
    LET from == job[w].start
        to   == Min({from + BatchSize, Len(job[w].drafts)})
    IN  [i \in 1..(to - from) |-> job[w].drafts[from + i].content]

\* A vector of another dimension, which is no text's.
WrongSize == <<>>

\* Wrong variant of Accepted: any number of vectors will do.
AnyCount(texts, answer) == WrongSize \notin Range(answer)
\* The checks of OllamaAIProvider.embed, which process repeats.
Accepted(texts, answer) ==
    Len(answer) = Len(texts) /\ WrongSize \notin Range(answer)

\* Answers of the service: the embeddings, or fewer, more, or unusable ones.
Answers(texts) ==
    {texts, Tail(texts), Append(texts, Last(texts)),
     [texts EXCEPT ![Len(texts)] = WrongSize]}

\* One request per batch.
EmbedBatch(w, answer) ==
    /\ pc[w] = "embed" /\ job[w].start < Len(job[w].drafts)
    /\ Accepted(Batch(w), answer)
    /\ job' = [job EXCEPT ![w].vectors = @ \o answer, ![w].start = @ + BatchSize]
    /\ UNCHANGED pc

\* zip(drafts, embeddings): the chunk rows.
NewChunks(drafts, vectors) ==
    {[attachment |-> drafts[i].attachment, section |-> drafts[i].section,
      position |-> drafts[i].position, content |-> drafts[i].content,
      embedding |-> vectors[i]] : i \in DOMAIN drafts}

\* build_chunk_key, for one tender and one model.
ChunkKey(chunk) == <<chunk.attachment, chunk.position, chunk.content>>
=============================================================================
