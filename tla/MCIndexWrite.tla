---------------------------- MODULE MCIndexWrite ----------------------------
(* A small instance of the index writes for TLC.  Most histories store one  *)
(* record without attachments, with one of many titles; a few store and     *)
(* change a record with two attachments.                                    *)
EXTENDS IndexWrite

\* A text from the lengths of its words: the letters are numbered through.
Numbered(lines) ==
    LET WithWord(acc, length) ==
            Append(acc, [i \in 1..length |-> Len(FlattenSeq(acc)) + i])
        lengths == FlattenSeq([l \in DOMAIN lines |-> lines[l].lengths])
        words == FoldLeft(WithWord, <<>>, lengths)
        before(l) == Len(FlattenSeq([k \in 1..(l - 1) |-> lines[k].lengths]))
    IN  [l \in DOMAIN lines |->
            [words |-> SubSeq(words, before(l) + 1, before(l) + Len(lines[l].lengths)),
             stop |-> lines[l].stop]]

Line(lengths, stop) == [lengths |-> lengths, stop |-> stop]
Lengths == {1, 4, 9}
Lines == {Line(ls, s) : ls \in UNION {[1..n -> Lengths] : n \in 1..2}, s \in BOOLEAN}
         \cup {Line(<<>>, FALSE)}
Blank == <<>>
Short == <<Line(<<3>>, FALSE)>>
Long == <<Line(<<5, 9>>, TRUE), Line(<<2>>, FALSE)>>
\* The full stop of the last line makes no difference.
Shapes == {text \in [1..2 -> Lines] :
              ~Last(text).stop /\ Len(text[2].lengths) <= 1 /\ \E i \in DOMAIN text : text[i].lengths # <<>>}

\* A version stands for the shape of its title, or is one of two with
\* attachments.
CONSTANTS a1, a2, First, Second
MCVersions == Shapes \cup {First, Second}
MCTitle == [v \in MCVersions |->
    Numbered(CASE v = First -> Short [] v = Second -> Long [] OTHER -> v)]
MCDescription == [v \in MCVersions |-> Numbered(IF v = First THEN Short ELSE Blank)]
MCMetadata == [v \in MCVersions |-> Numbered(Short)]
MCListed == [v \in MCVersions |->
    CASE v = First -> {a1, a2} [] v = Second -> {a2} [] OTHER -> {}]

By(by, version) == [by |-> by, version |-> version]
MCHistories ==
    {<<By("crawler", v)>> : v \in MCVersions}
    \cup {
          <<By("crawler", First), By("crawler", Second), By("crawler", First)>>,
          <<By("demo", First), By("crawler", First)>>}
MCFormat == a1 :> "pdf" @@ a2 :> "text"
MCPages == a1 :> <<Numbered(Short), Blank, Numbered(Long)>> @@ a2 :> <<Numbered(Short)>>
MCTexts == UNION {Range(MCTitle), Range(MCDescription), Range(MCMetadata)}
           \cup Range(MCPages[a1]) \cup Range(MCPages[a2])

\* What the theorems about the stored index take from chunk_units.
ASSUME InstanceDrafts == DraftsAreLists
=============================================================================
