------------------------------ MODULE MCFrames ------------------------------
(* The messages a run sends: for each layout a plain one, and those that    *)
(* differ from it in one field (or in the field another depends on).        *)
EXTENDS Frames

CONSTANTS Heard, Told           \* HeardTable and ToldTable

Word == <<97, 98>>
Odd == <<97, 47, 66, 46, 70, Bad>>                                 \* a/B.F?
Long(n) == [i \in 1..n + 1 |-> 97]
None == [code \in Known |-> <<>>]
Music == [name |-> <<97, 46, 66>>, size |-> 258, extension |-> <<>>, attributes |-> None]
Tagged == [name |-> <<97>>, size |-> 0, extension |-> <<70>>,
           attributes |-> [code \in Known |-> IF code = 1 THEN <<>> ELSE <<code>>]]
(* Other clients send attributes twice, or such as are not known.           *)
Strange == <<0, Odd, 1, <<>>, <<<<3, 1>>, <<2, 1>>, <<2, 0>>>>>>
Crowded == <<1, Word, 1, Word, [i \in 1..Limit.attributes + 1 |-> <<0, i>>]>>

RECURSIVE Samples(_, _), Plainest(_)
Consistent(layout, v) ==
  [i \in DOMAIN v |->
    IF layout[i].is = "optional" /\ \E j \in 1..i - 1 : layout[j].is = "optional" /\ v[j] = <<>>
    THEN <<>>
    ELSE IF layout[i].is # "given" THEN v[i]
    ELSE LET g == layout[i]
         IN  IF (v[g.at] = g.value) # g.holds THEN <<>>
             ELSE IF v[i] # <<>> THEN v[i] ELSE <<Plainest(g.of)>>]
Plainest(f) ==
  CASE f.is = "number"   -> IF f.width = 1 THEN 1 ELSE 258
    [] f.is = "constant" -> f.value
    [] f.is = "flag"     -> TRUE
    [] f.is = "level"    -> 1
    [] f.is = "end"      -> "end"
    [] f.is = "text"     -> Word
    [] f.is = "file"     -> FileFields(Music)
    [] f.is = "list"     -> <<Plainest(f.of)>>
    [] f.is \in {"optional", "always"} -> <<Plainest(f.of)>>
    [] f.is = "given"    -> <<>>
    [] f.is = "group"    ->
         Consistent(f.of, [i \in DOMAIN f.of |-> Plainest(f.of[i])])
Layouts(layout, own) ==
  LET plain == Plainest(Group(layout))
      switches == {layout[i].at : i \in {j \in DOMAIN layout : layout[j].is = "given"}}
      vary(v, places) ==
        UNION {{Consistent(layout, [v EXCEPT ![i] = x]) : x \in Samples(layout[i], own)}
                 : i \in places}
      bases == {plain} \cup vary(plain, switches)
  IN  bases \cup UNION {vary(v, DOMAIN layout) : v \in bases}
Samples(f, own) ==
  CASE f.is = "number"   -> {0, IF f.width = 1 THEN 2 ELSE 258}
    [] f.is = "constant" -> {f.value}
    [] f.is = "flag"     -> BOOLEAN
    [] f.is = "level"    -> {0, -1}
    [] f.is = "end"      -> {"end"}
    [] f.is = "text"     ->
         (IF f.as \in {"path", "country", "exact"} THEN {<<>>, Odd} ELSE {<<>>, <<97, Bad>>})
         \cup (IF f.as = "country" THEN {<<32, 115, 101>>} ELSE {})
         \cup (IF f.as = "room" THEN {<<32, 97>>} ELSE {})
         \cup (IF f.most < Huge THEN {Long(f.most)} ELSE {})
    [] f.is = "file"     ->
         {FileFields(Tagged)} \cup (IF own THEN {} ELSE {Strange, Crowded})
    [] f.is = "list"     ->
         {<<>>, <<Plainest(f.of), Plainest(f.of)>>}
         \cup {<<x>> : x \in Samples(f.of, own)}
         \cup (IF f.most < Huge THEN {[i \in 1..f.most + 1 |-> Plainest(f.of)]} ELSE {})
    [] f.is = "optional" -> {<<>>} \cup {<<x>> : x \in Samples(f.of, own)}
    [] f.is = "always"   -> {<<x>> : x \in Samples(f.of, own)}
    [] f.is = "given"    -> {<<x>> : x \in Samples(f.of, own)}
    [] f.is = "group"    -> Layouts(f.of, own)

Letters(table, own) ==
  [k \in DOMAIN table |->
     IF table[k].layout = <<>> THEN {<<>>} ELSE Layouts(table[k].layout, own)]
OwnLetters == Letters(Told, TRUE)
OtherLetters == Letters(Heard, FALSE)
=============================================================================
