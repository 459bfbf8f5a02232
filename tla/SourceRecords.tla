--------------------------- MODULE SourceRecords ---------------------------
(* The loop of the crawler over one source (CrawlSource) with what the      *)
(* records say (Records) and the rows persist_record makes of them.  The    *)
(* source may write a record in another way, or change it, between two      *)
(* cycles.                                                                  *)
EXTENDS CrawlSource, Integers, Sequences

CONSTANTS
    Sources,     \* sources, each with the offers for its records
    Tenders,     \* external_ids
    Urls, Bare, Upper, Largest  \* see Records

R == INSTANCE Records

VARIABLES
    source,   \* the source at hand
    tenders,  \* the rows of its tenders with their attachments
    told      \* what the last stored record of a tender was meant to say

sourceVars == <<source, tenders, told>>
allVars == <<vars, sourceVars>>

\* An offer is the JSON of a record and, for the properties, its meaning.
Mapped(offer) ==
    IF source.code = "ted" THEN R!MapNotice(offer.json) ELSE R!MapRelease(offer.json)

NoTender == [hash |-> None, columns |-> None, files |-> << >>]

\* Wrong records are those CrawlSource takes for wrong.
OffersFit ==
    \A i \in 1..Size : \A offer \in source.offers[i] :
        LET record == Mapped(offer)
        IN  /\ record = None <=> i \in Malformed
            /\ record # None =>
                 IF i \in refused THEN ~R!Storable(record, {}) ELSE R!Storable(record, {})

SourceInit ==
    /\ Init
    /\ source \in Sources
    /\ refused = source.refused
    /\ tenders = [t \in Tenders |-> NoTender]
    /\ told = [t \in Tenders |-> None]
    /\ OffersFit

Columns(record) ==
    [title |-> record.title, description |-> record.description, buyer |-> record.buyer,
     amount |-> R!Column(record.amount), currency |-> record.currency,
     published |-> record.published, deadline |-> record.deadline, url |-> record.url]

\* An attachment of the row's transaction: inserted, updated or skipped; a
\* content type that is known is not forgotten.
Files(record, existing) ==
    LET offered == {record.files[i].url : i \in DOMAIN record.files}
        OfUrl(u) == R!Last(SelectSeq(record.files, LAMBDA f : f.url = u))
        KnownType(u) == IF u \in DOMAIN existing THEN existing[u].type ELSE None
    IN  [u \in offered \cup DOMAIN existing |->
            IF u \notin offered THEN [existing[u] EXCEPT !.skipped = TRUE]
            ELSE [external |-> OfUrl(u).external, title |-> OfUrl(u).title,
                  filename |-> OfUrl(u).filename, skipped |-> FALSE,
                  type |-> IF OfUrl(u).type = None THEN KnownType(u) ELSE OfUrl(u).type]]

\* persist_record, as far as the record's text goes.
Persist(record) ==
    tenders' = [tenders EXCEPT ![record.external] =
        [hash |-> R!ContentHash(record), columns |-> Columns(record),
         files |-> Files(record, @.files)]]

StoreRecord ==
    /\ PersistRecord
    /\ \E offer \in source.offers[page'.at] :
         /\ Persist(Mapped(offer))
         /\ told' = [told EXCEPT ![Mapped(offer).external] = offer.meaning]
    /\ UNCHANGED source

Paging ==
    /\ \/ Begin \/ AnotherPage \/ NoFurtherPage \/ FetchPage
       \/ PersistFails \/ StoreCursor \/ Interrupted
    /\ UNCHANGED sourceVars

SourceWork == StoreRecord \/ Paging
\* The crawler comes back to the source again and again.
SourceSpec == SourceInit /\ [][SourceWork]_allVars /\ WF_vars(Work)
----------------------------------------------------------------------------
\* An amount in cents is right if it is off by half a cent at most.
Near(cents, amount) ==
    IF None \in {cents, amount} THEN cents = amount
    ELSE 10 * cents - amount \in -5..5

\* The row says what the record means, and has its files.
Says(row, meaning) ==
    /\ \A field \in {"title", "description", "buyer", "currency", "published", "deadline"} :
         row.columns[field] = meaning[field]
    /\ Near(row.columns.amount, meaning.amount)
    /\ {u \in DOMAIN row.files : ~row.files[u].skipped} = DOMAIN meaning.files
    /\ \A u \in DOMAIN meaning.files : row.files[u].title = meaning.files[u]

\* A difference that search or a reader of the tender would notice.
Differ(a, b) ==
    \/ [a EXCEPT !.amount = 0] # [b EXCEPT !.amount = 0]
    \/ (a.amount = None) # (b.amount = None)
    \/ a.amount # None /\ b.amount # None /\ a.amount - b.amount \notin -10..10

\* However the source writes a record, the row says what it means, and the
\* content hash changes when the meaning does and not when only the spelling
\* does: order of the attachments, spaces, case of the currency, time zone,
\* translations, number format.  Up to rounding to cents.
HashFollowsMeaning ==
    [][\A t \in Tenders :
         LET row == tenders[t]
             new == tenders'[t]
         IN  /\ new # row => Says(new, told'[t])
             /\ row.hash # None =>
                  /\ new.hash # row.hash => told'[t] # told[t]
                  /\ Differ(told'[t], told[t]) => new.hash # row.hash]_allVars
=============================================================================
