--------------------------- MODULE SystemctlParser ---------------------------
(***************************************************************************)
(* What systemctl prints of the units, and what parseListUnits             *)
(* (internal/systemd/parser.go) makes of it.                               *)
(*                                                                         *)
(* The units go through the states UnitsAt[0], UnitsAt[1], ... in order; a *)
(* unit is [name, load, active, sub, description], its description a       *)
(* sequence of words.  A line of output is its words: the first one cut    *)
(* before its last dot, its suffix, and the others.                        *)
(***************************************************************************)
EXTENDS Naturals, Sequences

CONSTANTS
  UnitsAt,
  LoadWords  \* words that begin with "LOAD"

Line(first, suffix, words) == [first |-> first, suffix |-> suffix, words |-> words]
Empty == Line("", "", <<>>)

UnitLine(u) == Line(u.name, "service", <<u.load, u.active, u.sub>> \o u.description)

\* list-units --type=service --all --no-pager --plain: a header, a line for each
\* unit, and a legend that ends in a count.
Output(units) ==
  <<Line("UNIT", "", <<"LOAD", "ACTIVE", "SUB", "DESCRIPTION">>)>>
    \o [i \in DOMAIN units |-> UnitLine(units[i])]
    \o <<Empty,
         Line("LOAD", "", <<"=", "Reflects", "whether", "the", "unit">>),
         Line("ACTIVE", "", <<"=", "The", "high-level", "unit">>),
         Line("SUB", "", <<"=", "The", "low-level", "unit">>),
         Line("2", "", <<"loaded", "units", "listed.">>),
         Line("To", "", <<"show", "all", "installed", "unit", "files">>)>>

-----------------------------------------------------------------------------
(* parseListUnits                                                          *)

\* What is taken for the legend: a line that begins as its lines do, in the middle of
\* a word or not, or has its count anywhere.
Footer(l) ==
  \/ l.first \in LoadWords
  \/ l.first = "To" /\ l.suffix = "" /\ l.words[1] = "show"
  \/ \E i \in 1..(Len(l.words) - 1) : SubSeq(l.words, i, i + 1) = <<"units", "listed.">>
  \/ \E i \in 1..(Len(l.words) - 2) : SubSeq(l.words, i, i + 2) = <<"unit", "files", "listed.">>

\* Variant for the mutation runs: the suffix is not looked at.
IsUnitOfAnyKind(l) == l # Empty /\ ~Footer(l) /\ Len(l.words) >= 3

IsUnit(l) ==
  /\ l # Empty
  /\ ~Footer(l)
  /\ Len(l.words) >= 3
  /\ l.suffix = "service"

MapServiceHealth(active) ==
  CASE active \in {"active", "reloading", "activating"} -> "active"
    [] active = "failed" -> "failed"
    [] OTHER -> "inactive"

ServiceInfo(u) ==
  [name |-> u.name, load |-> u.load, active |-> u.active, sub |-> u.sub,
   description |-> u.description, health |-> MapServiceHealth(u.active)]

\* What is kept of a line.
UnitOf(l) ==
  ServiceInfo([name |-> l.first, load |-> l.words[1], active |-> l.words[2],
               sub |-> l.words[3], description |-> SubSeq(l.words, 4, Len(l.words))])

ParseListUnits(lines) ==
  LET kept[n \in 0..Len(lines)] ==
        IF n = 0 THEN <<>>
        ELSE IF IsUnit(lines[n]) THEN Append(kept[n - 1], UnitOf(lines[n])) ELSE kept[n - 1]
  IN kept[Len(lines)]

\* What the parser makes of each state of the units.
Parsed == [v \in DOMAIN UnitsAt |-> ParseListUnits(Output(UnitsAt[v]))]

\* What there is to say of it.
Truth == [v \in DOMAIN UnitsAt |-> [i \in DOMAIN UnitsAt[v] |-> ServiceInfo(UnitsAt[v][i])]]

Unit ==
  [name : STRING, load : STRING, active : STRING, sub : STRING, description : Seq(STRING)]

ASSUME UnitsAssumption ==
  /\ "LOAD" \in LoadWords
  /\ 0 \in DOMAIN UnitsAt /\ DOMAIN UnitsAt \subseteq Nat
  /\ \A v \in DOMAIN UnitsAt : UnitsAt[v] \in Seq(Unit)
  \* No unit is named or described in the words of the legend: the parser would take it
  \* for one, and lose it.
  /\ \A v \in DOMAIN UnitsAt : \A i \in DOMAIN UnitsAt[v] : ~Footer(UnitLine(UnitsAt[v][i]))
  \* A listing tells which state it is of, and that there has been one.
  /\ \A v \in DOMAIN UnitsAt : UnitsAt[v] # <<>>
  /\ \A v, w \in DOMAIN UnitsAt : Truth[v] = Truth[w] => v = w
=============================================================================
