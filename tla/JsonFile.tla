------------------------------ MODULE JsonFile ------------------------------
(***************************************************************************)
(* A map that the process keeps in memory and saves whole to one JSON      *)
(* file, as src/src/auth/user_store.ts and src/src/api/contract_registry.ts *)
(* do: fs.writeFile() opens and truncates the file in one step and writes  *)
(* it in a later one, nothing keeps two saves apart, and a process that    *)
(* starts takes what the file holds, or nothing when it cannot be parsed.  *)
(*                                                                         *)
(* A map is a function from its keys.  The operators take such a store and *)
(* return the next one.                                                    *)
(***************************************************************************)
EXTENDS Naturals, FiniteSets

Whole(map) == [text |-> "whole", map |-> map]
Empty      == [text |-> "empty", map |-> <<>>]
Torn       == [text |-> "torn", map |-> <<>>]

\* The store of a process that finds no file.
NoFile == [memory |-> <<>>, file |-> Empty, writes |-> {}, dirty |-> FALSE,
           harmed |-> FALSE]

\* A save under way: what it writes, whether it has truncated the file, and
\* whether no other save was ever under way together with it.
Write(by, data, alone) == [by |-> by, data |-> data, opened |-> FALSE, alone |-> alone]

Stores(Maps, Writers) ==
  [memory : Maps, file : [text : {"whole", "empty", "torn"}, map : Maps],
   dirty : BOOLEAN, harmed : BOOLEAN,
   writes : SUBSET [by : Writers, data : Maps, opened : BOOLEAN, alone : BOOLEAN]]

NotAlone(writes) == {[w EXCEPT !.alone = FALSE] : w \in writes}

\* map.set(key, value).
WithEntry(map, key, value) ==
  [k \in {key} \cup DOMAIN map |-> IF k = key THEN value ELSE map[k]]

\* The save takes the map before the entry is in it (mutation of Put).
Put_SavesFirst(s, key, value, by) ==
  [s EXCEPT !.memory = WithEntry(@, key, value),
            !.writes = NotAlone(@) \cup {Write(by, s.memory, @ = {})}]

\* The entry goes into the map, and the save takes the map, in one turn of the
\* event loop.
Put(s, key, value, by) ==
  LET map == WithEntry(s.memory, key, value)
  IN  [s EXCEPT !.memory = map,
                !.writes = NotAlone(@) \cup {Write(by, map, @ = {})}]

Opens(s, w) ==
  [s EXCEPT !.file = Empty, !.writes = (@ \ {w}) \cup {[w EXCEPT !.opened = TRUE]}]

\* A file that another save has written meanwhile is overwritten from its start:
\* what is longer than the new text stays behind it.
Contents(file, data) ==
  {Whole(data)} \cup
    (IF \/ file.text = "torn"
        \/ file.text = "whole" /\ Cardinality(DOMAIN data) <= Cardinality(DOMAIN file.map)
     THEN {Torn} ELSE {})

Written(s, w) ==
  {[s EXCEPT !.file = f, !.writes = @ \ {w}, !.dirty = ~ w.alone] :
    f \in Contents(s.file, w.data)}

\* The disk refuses to open, or stops in the middle of the text.
Failed(s, w) ==
  {[s EXCEPT !.file = f, !.writes = @ \ {w}, !.dirty = TRUE] :
    f \in {s.file} \cup (IF w.opened THEN {Torn} ELSE {})}

Loaded(file) == IF file.text = "whole" THEN file.map ELSE <<>>

\* The process ends at any moment and starts again with what the file holds.
Restarted(s) ==
  [memory |-> Loaded(s.file), file |-> s.file, writes |-> {}, dirty |-> FALSE,
   harmed |-> s.harmed \/ s.dirty \/ s.writes # {}]

\* A store with no save under way has its map on file, when its last save was
\* alone and did not fail.
Saved(s) == s.writes = {} /\ ~ s.dirty => Loaded(s.file) = s.memory

=============================================================================
