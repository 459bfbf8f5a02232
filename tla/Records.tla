------------------------------ MODULE Records ------------------------------
(* From the JSON of the two sources to a stored tender: map_notice          *)
(* (crawler/ted.py) and map_release (crawler/contracts_finder.py), the      *)
(* validation of TenderRecordV1 (schemas.py) and its content hash           *)
(* (hashing.py).  A notice or release is a function on its keys; SHA-256 is *)
(* taken as injective, so that a hash is the payload it is computed from.   *)
EXTENDS Integers, Sequences, SequencesExt

CONSTANTS
    Urls,     \* what AnyHttpUrl accepts
    Bare,     \* those without a file name in their path
    Upper,    \* currencies as they may be written, to capital letters
    Largest,  \* what Numeric(20, 2) holds, in thousandths
    None      \* null, or a missing key

(* JSON values: a text, a number in thousandths, a point in time that may   *)
(* be unreadable, a list, a dictionary of translations in its order.        *)
Text(core, padded) == [text |-> core, padded |-> padded]
Number(n, written) == [number |-> n, written |-> written]
Date(local, zone) == [local |-> local, zone |-> zone]
List(items) == [list |-> items]
Dict(items) == [dict |-> items]  \* items: <<key, value>>

Is(v, kind) == v # None /\ kind \in DOMAIN v
Get(object, key) == IF key \in DOMAIN object THEN object[key] ELSE None
Truthy(v) ==
    /\ v # None
    /\ v \notin {List(<<>>), Dict(<<>>)}
    /\ Is(v, "text") => v.text # "" \/ v.padded
    /\ Is(v, "number") => v.number # 0 \/ v.written # "number"

\* object.get(key) or object.get(next key) or ...
Or(object, keys) ==
    LET found == SelectSeq(keys, LAMBDA key : Truthy(Get(object, key)))
    IN  Get(object, IF found = <<>> THEN Last(keys) ELSE Head(found))

\* str.strip() or None
Strip(v) == IF Is(v, "text") /\ v.text # "" THEN v.text ELSE None

\* fromisoformat, in UTC; a time without a zone is one of UTC.
Instant(v) ==
    IF ~Is(v, "zone") THEN None
    ELSE IF v.zone = None THEN v.local ELSE v.local - v.zone
----------------------------------------------------------------------------
(* TED *)

Preferred == <<"value", "text", "eng", "en">>

RECURSIVE First(_)
\* _first: the value in lists and translations, however deep.
First(v) ==
    IF Is(v, "list") THEN IF v.list = <<>> THEN None ELSE First(Head(v.list))
    ELSE IF Is(v, "dict") THEN
        LET named == SelectSeq(Preferred, LAMBDA key : \E i \in DOMAIN v.dict : v.dict[i][1] = key)
            given == SelectSeq([i \in DOMAIN v.dict |-> First(v.dict[i][2])],
                               LAMBDA value : value \notin {None, Text("", FALSE)})
        IN  IF named # <<>>
            THEN First((CHOOSE item \in Range(v.dict) : item[1] = Head(named))[2])
            ELSE IF given = <<>> THEN None ELSE Head(given)
    ELSE v

\* _string, _datetime and _decimal.
TedString(v) == Strip(First(v))
TedDate(v) == Instant(First(v))
TedDecimal(v) == LET value == First(v) IN IF Is(value, "number") THEN value.number ELSE None
----------------------------------------------------------------------------
(* Validation, common to both sources *)

DetailPage(external) == external \o " page"

\* normalize_currency and the constraints on the fields; a ValidationError
\* is a ValueError, with which the adapters skip the item.
Validated(r) ==
    IF /\ r.external # None /\ r.title # None
       /\ r.amount = None \/ r.amount >= 0
       /\ r.currency \in DOMAIN Upper \cup {None}
       /\ r.url \in Urls \cup {DetailPage(r.external)}
       /\ \A i \in DOMAIN r.files : r.files[i].url \in Urls
    THEN [r EXCEPT !.currency = IF @ = None THEN None ELSE Upper[@]]
    ELSE None

MapNotice(notice) ==
    LET external == TedString(Or(notice, <<"publication-number", "publicationNumber">>))
        links == IF Get(notice, "links") = None THEN << >> ELSE notice["links"]
        page == TedString(Get(links, "html"))
        File(kind) == [external |-> kind, title |-> "Published notice " \o kind,
                       filename |-> external \o "." \o kind,
                       url |-> TedString(Get(links, kind)), type |-> kind]
        kinds == SelectSeq(<<"pdf", "xml">>, LAMBDA kind : TedString(Get(links, kind)) # None)
        title == TedString(Or(notice, <<"notice-title", "title">>))
    IN  IF external = None \/ title = None THEN None
        ELSE Validated([
            source      |-> "ted",
            external    |-> external,
            title       |-> title,
            description |-> TedString(Or(notice,
                <<"description-proc", "description-procurement", "description">>)),
            buyer       |-> TedString(Or(notice, <<"buyer-name", "buyer">>)),
            amount      |-> TedDecimal(Or(notice,
                <<"estimated-value-proc", "total-value", "estimated-value", "estimatedValue">>)),
            currency    |-> TedString(Or(notice,
                <<"estimated-value-cur-proc", "total-value-cur",
                  "estimated-value-currency", "currency">>)),
            published   |-> TedDate(Or(notice, <<"publication-date", "notice-publication-date">>)),
            deadline    |-> TedDate(Or(notice,
                <<"deadline", "deadline-receipt-request", "deadline-receipt-tender-date-lot",
                  "deadline-receipt-tender-date">>)),
            url         |-> IF page = None THEN DetailPage(external) ELSE page,
            files       |-> [i \in DOMAIN kinds |-> File(kinds[i])]])
----------------------------------------------------------------------------
(* Contracts Finder *)

\* _object
Object(v) == IF v = None THEN << >> ELSE v
\* _money takes what Decimal takes: no spaces, no decimal comma.
Money(v) == IF Is(v, "number") /\ v.written # "grouped" THEN v.number ELSE None

MapDocument(document) ==
    LET url == Strip(document["url"])
    IN  [external |-> Strip(Get(document, "id")), title |-> Strip(Get(document, "title")),
         filename |-> IF url \in Bare THEN Strip(Get(document, "id")) ELSE url,
         url |-> url, type |-> Strip(Get(document, "format"))]

MapRelease(release) ==
    LET tender == Object(Get(release, "tender"))
        value  == Object(Get(tender, "value"))
        period == Object(Get(tender, "tenderPeriod"))
        id     == Strip(IF Truthy(Get(tender, "id")) THEN tender["id"]
                        ELSE Or(release, <<"ocid", "id">>))
        title  == Strip(IF Truthy(Get(tender, "title")) THEN tender["title"]
                        ELSE Get(release, "title"))
        self   == Strip(Get(Object(Get(release, "links")), "self"))
        documents == IF Is(Get(tender, "documents"), "list") THEN tender["documents"].list
                     ELSE <<>>
        linked == SelectSeq(documents, LAMBDA document : Truthy(Get(document, "url")))
    IN  IF id = None \/ title = None THEN None
        ELSE Validated([
            source      |-> "contracts_finder",
            external    |-> id,
            title       |-> title,
            description |-> Strip(Get(tender, "description")),
            buyer       |-> Strip(Get(Object(Get(release, "buyer")), "name")),
            amount      |-> Money(Get(value, "amount")),
            currency    |-> Strip(Get(value, "currency")),
            published   |-> Instant(IF Truthy(Get(release, "date")) THEN release["date"]
                                    ELSE Get(period, "startDate")),
            deadline    |-> Instant(Get(period, "endDate")),
            url         |-> IF self # None THEN self
                            ELSE IF Truthy(Get(release, "url")) THEN Strip(release["url"])
                            ELSE DetailPage(id),
            files       |-> [i \in DOMAIN linked |-> MapDocument(linked[i])]])
----------------------------------------------------------------------------
(* The hash and the columns *)

\* quantize(Decimal("0.01")) rounds a half to the even cent.
Quantized(amount) ==
    IF amount = None THEN None
    ELSE LET cents == amount \div 10
             rest  == amount % 10
         IN  IF rest > 5 \/ (rest = 5 /\ cents % 2 = 1) THEN cents + 1 ELSE cents

\* PostgreSQL rounds a half up on the way into the column.
Column(amount) == IF amount = None THEN None ELSE (amount + 5) \div 10

\* Wrong variant of SortedByUrl: the order of the source.
AsOffered(files) == files
\* The attachments sorted by URL, as the sequence of those of each URL.
SortedByUrl(files) ==
    [url \in {files[i].url : i \in DOMAIN files} |->
        SelectSeq(files, LAMBDA file : file.url = url)]

\* canonical_tender_payload, and with it tender_content_hash.
ContentHash(r) ==
    [r EXCEPT !.amount = Quantized(@), !.files = SortedByUrl(@)]

\* What the transaction of persist_record does not raise on: an amount
\* within the precision, and no second INSERT of a URL of the tender.
Storable(r, existing) ==
    /\ r.amount = None \/ r.amount <= Largest
    /\ \A i, j \in DOMAIN r.files :
         i # j /\ r.files[i].url = r.files[j].url => r.files[i].url \in existing
=============================================================================
