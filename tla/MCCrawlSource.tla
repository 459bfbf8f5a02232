--------------------------- MODULE MCCrawlSource ---------------------------
(* A small instance of a source for TLC: seven records of three tenders.    *)
(* The first record is offered with many meanings, each in two spellings.   *)
EXTENDS SourceRecords, TLC

MCMalformed == {3}
MCRefusals == {{}, {6}}
MCUrls == {"u", "v", "w"}
MCUpper == "EUR" :> "EUR" @@ "eur" :> "EUR" @@ "USD" :> "USD"

\* Meanings: a tender, and others that differ from it in one field.
Base == [title |-> "t", description |-> "d", buyer |-> "b", amount |-> 120,
         currency |-> "EUR", published |-> 5, deadline |-> 10, url |-> "w",
         files |-> "u" :> "Published notice pdf" @@ "v" :> "Published notice xml"]
Variations ==
    {Base,
     [Base EXCEPT !.title = "t2"], [Base EXCEPT !.description = None],
     [Base EXCEPT !.buyer = None], [Base EXCEPT !.currency = "USD"],
     [Base EXCEPT !.published = None], [Base EXCEPT !.deadline = 11],
     [Base EXCEPT !.url = None],
     [Base EXCEPT !.files = "v" :> "Published notice xml"]}
    \cup {[Base EXCEPT !.amount = n] : n \in {None, 125, 126, 135, 140}}
Second == [Base EXCEPT !.title = "t2", !.amount = 150, !.files = "u" :> "Published notice pdf"]

T(v, odd) == IF v = None THEN None ELSE R!Text(v, odd)
D(v, odd) == IF v = None THEN None
             ELSE IF odd THEN R!Date(v + 2, 2) ELSE R!Date(v, None)
N(v, written) == IF v = None THEN None ELSE R!Number(v, written)
C(v, odd) == IF v = "EUR" /\ odd THEN T("eur", FALSE) ELSE T(v, FALSE)
Link(m, url) == IF url \in DOMAIN m.files THEN T(url, FALSE) ELSE None

\* A notice of TED, in one of two spellings.
Notice(id, m, odd) ==
    [json |->
        (IF odd THEN "publicationNumber" ELSE "publication-number") :> T(id, odd)
        @@ "notice-title" :> (IF odd THEN R!Dict(<< <<"fra", T("", FALSE)>>,
                                                   <<"eng", R!List(<<T(m.title, TRUE)>>)>> >>)
                              ELSE T(m.title, FALSE))
        @@ "description-proc" :> (IF odd THEN R!Dict(<< <<"fra", T("", FALSE)>>,
                                                       <<"deu", T(m.description, TRUE)>> >>)
                                  ELSE T(m.description, FALSE))
        @@ "buyer-name" :> (IF odd THEN R!List(<<T(m.buyer, TRUE)>>) ELSE T(m.buyer, FALSE))
        @@ (IF odd THEN "total-value" ELSE "estimated-value-proc")
             :> N(m.amount, IF odd THEN "grouped" ELSE "number")
        @@ (IF odd THEN "total-value-cur" ELSE "estimated-value-cur-proc") :> C(m.currency, odd)
        @@ "publication-date" :> D(m.published, odd)
        @@ "deadline-receipt-request" :> (IF odd THEN R!List(<<D(m.deadline, odd)>>)
                                          ELSE D(m.deadline, odd))
        @@ "links" :> ("pdf" :> Link(m, "u") @@ "xml" :> Link(m, "v")
                       @@ "html" :> T(m.url, odd)),
     meaning |-> m]

Document(m, url) == "url" :> T(url, FALSE) @@ "id" :> T(url, FALSE) @@ "title" :> T(m.files[url], FALSE)

\* A release of Contracts Finder, in one of two spellings.
Release(id, m, odd) ==
    LET order == IF odd THEN <<"v", "u">> ELSE <<"u", "v">>
        documents == [i \in 1..2 |-> IF order[i] \in DOMAIN m.files THEN Document(m, order[i])
                                     ELSE "id" :> T("no url", FALSE)]
        tender == "id" :> T(id, odd)
            @@ "title" :> T(m.title, odd)
            @@ "description" :> T(m.description, odd)
            @@ "value" :> ("amount" :> N(m.amount, IF odd THEN "string" ELSE "number")
                           @@ "currency" :> C(m.currency, odd))
            @@ "tenderPeriod" :> ("startDate" :> D(m.published, odd)
                                  @@ "endDate" :> D(m.deadline, odd))
            @@ "documents" :> R!List(documents)
    IN  [json |-> "tender" :> tender
             @@ "buyer" :> (IF m.buyer = None THEN None ELSE "name" :> T(m.buyer, odd))
             @@ "date" :> (IF odd THEN D(m.published, FALSE) ELSE None)
             @@ (IF odd THEN "url" :> T(m.url, TRUE) ELSE "links" :> ("self" :> T(m.url, FALSE))),
         meaning |-> m]

\* One document listed twice.
Twice(offer) == [offer EXCEPT !.json.tender.documents.list = <<@[1], @[1]>>]
Negative(m) == [m EXCEPT !.amount = 0 - 120]

Offers(Spelled(_, _, _), sixth) ==
    1 :> {Spelled("A", m, odd) : m \in Variations, odd \in BOOLEAN}
    @@ 2 :> {Spelled("B", Base, FALSE)}
    @@ 3 :> {Spelled("B", Negative(Base), FALSE)}
    @@ 4 :> {Spelled("A", Second, FALSE)}
    @@ 5 :> {Spelled("B", Base, TRUE)}
    @@ 6 :> {sixth}
    @@ 7 :> {Spelled("B", Base, FALSE)}

Source(code, offers, unstorable) == [code |-> code, offers |-> offers, refused |-> unstorable]
MCSources ==
    {Source("ted", Offers(Notice, Notice("C", Base, TRUE)), {}),
     Source("contracts_finder", Offers(Release, Release("C", Base, TRUE)), {}),
     Source("contracts_finder", Offers(Release, Twice(Release("C", Base, FALSE))), {6})}
=============================================================================
