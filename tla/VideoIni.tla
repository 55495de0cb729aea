------------------------------- MODULE VideoIni -------------------------------
(***************************************************************************)
(* The rewriting of Assetto Corsa's video.ini: line by line, section by    *)
(* section (sled/launcher.py, _ensure_pure_video_ini, for the rigs;        *)
(* orchestrator/services/spectator.py, _write_low_quality_video_ini, for   *)
(* the admin PC), and what the rewriting promises.                         *)
(*                                                                         *)
(* A line is <<"[", s>> for the header of section s, and <<k, v>> for      *)
(* k=v; a comment or a blank line is a line whose key nobody forces.       *)
(***************************************************************************)
EXTENDS Integers, Sequences, SequencesExt

Header == "["
IsHeader(line) == line[1] = Header

\* The values each section must have: two of Pure's eight and two of the
\* spectator's thirteen.
PurePP == <<<<"FILTER", "pureHDR">>, <<"ENABLED", "1">>>>
NoSection == "none"
RigForced ==
  [POST_PROCESS |-> PurePP, VIDEO |-> <<<<"DISABLE_LEGACY_HDR", "1">>>>]
SpectatorForced ==
  [POST_PROCESS |-> PurePP,
   VIDEO |-> <<<<"FULLSCREEN", "0">>, <<"DISABLE_LEGACY_HDR", "1">>>>]
ForcedLines ==
  Range(PurePP) \cup Range(SpectatorForced.VIDEO) \cup Range(RigForced.VIDEO)
ForcedIn(table, s) == IF s \in DOMAIN table THEN table[s] ELSE <<>>

Keys(forced) == {forced[i][1] : i \in DOMAIN forced}
IndexOf(forced, k) == CHOOSE i \in DOMAIN forced : forced[i][1] = k

\* Faulty variant: every key is appended, written or not.
MissingOrNot(forced, written) == forced
\* Those of the first keys of the section that have not been written yet.
MissingUpTo(forced, written) ==
  LET missing[i \in 0..Len(forced)] ==
        IF i = 0 THEN <<>>
        ELSE IF forced[i][1] \in written THEN missing[i - 1]
        ELSE Append(missing[i - 1], forced[i])
  IN missing
Missing(forced, written) == MissingUpTo(forced, written)[Len(forced)]

\* The loop over the lines.  written[s] are the keys of s written so far, in
\* whichever of the sections of that name; only the rig's loop notes that it
\* appended DISABLE_LEGACY_HDR.
Start == [section |-> NoSection, out |-> <<>>,
          written |-> [s \in {"VIDEO", "POST_PROCESS"} |-> {}]]

Written(st) ==
  IF st.section \in DOMAIN st.written THEN st.written[st.section] ELSE {}

Flush(st, forced, notes) ==
  [st EXCEPT
     !.out = @ \o Missing(forced, Written(st)),
     !.written = [s \in DOMAIN @ |->
                    IF s = st.section /\ s \in notes
                      THEN Keys(forced) ELSE @[s]]]

\* Faulty variant: the other lines of a section with forced keys get lost.
LineForcedOnly(st, line, forced) ==
  IF line[1] \in Keys(forced)
    THEN [st EXCEPT !.out = Append(@, forced[IndexOf(forced, line[1])]),
                    !.written[st.section] = @ \cup {line[1]}]
    ELSE IF forced # <<>> THEN st ELSE [st EXCEPT !.out = Append(@, line)]
Line(st, line, forced) ==
  IF line[1] \in Keys(forced)
    THEN [st EXCEPT !.out = Append(@, forced[IndexOf(forced, line[1])]),
                    !.written[st.section] = @ \cup {line[1]}]
    ELSE [st EXCEPT !.out = Append(@, line)]

MergeLine(st, line, table, notes) ==
  IF IsHeader(line)
    THEN LET left == Flush(st, ForcedIn(table, st.section), notes)
         IN [left EXCEPT !.section = line[2], !.out = Append(@, line)]
    ELSE Line(st, line, ForcedIn(table, st.section))

\* The state of the loop after each line.
AfterLine(lines, table, notes) ==
  LET after[n \in 0..Len(lines)] ==
        IF n = 0 THEN Start ELSE MergeLine(after[n - 1], lines[n], table, notes)
  IN after

Merge(lines, table, notes) ==
  LET last == AfterLine(lines, table, notes)[Len(lines)]
  IN Flush(last, ForcedIn(table, last.section), notes).out

EnsurePure(lines) == Merge(lines, RigForced, {"VIDEO"})
LowQuality(lines) == Merge(lines, SpectatorForced, {})
------------------------------------------------------------------------------
(***************************************************************************)
(* The promise, stated without the loop.                                   *)
(***************************************************************************)

\* The section line i is in.
SectionAt(lines, i) ==
  LET before == {j \in 1..(i - 1) : IsHeader(lines[j])}
  IN IF before = {} THEN NoSection
     ELSE lines[CHOOSE j \in before : \A k \in before : k <= j][2]

\* The lines nobody forces.
KeptAt(lines, table) ==
  {i \in DOMAIN lines :
     \/ IsHeader(lines[i])
     \/ lines[i][1] \notin Keys(ForcedIn(table, SectionAt(lines, i)))}

\* They are the same, in the same order.
KeepsLines(new, old, table) ==
  \E at \in Bijection(KeptAt(old, table), KeptAt(new, table)) :
    \A i \in KeptAt(old, table) :
      /\ new[at[i]] = old[i]
      /\ \A k \in KeptAt(old, table) : i < k => at[i] < at[k]

Sections(lines) == {lines[i][2] : i \in {j \in DOMAIN lines : IsHeader(lines[j])}}

\* The lines of a key in the sections of a name.
LinesOf(lines, s, k) ==
  {i \in DOMAIN lines : ~IsHeader(lines[i]) /\ SectionAt(lines, i) = s /\ lines[i][1] = k}

\* The owner's file with the forced values: every other line is there, in
\* order; every section that was there has every forced key, each time with
\* the forced value, and at most once more per section than the owner wrote.
MergedFrom(new, old, table) ==
  /\ KeepsLines(new, old, table)
  /\ \A s \in Sections(old) : \A n \in DOMAIN ForcedIn(table, s) :
       LET ls == LinesOf(new, s, ForcedIn(table, s)[n][1])
           owned == LinesOf(old, s, ForcedIn(table, s)[n][1])
           headers == {i \in DOMAIN old : IsHeader(old[i]) /\ old[i][2] = s}
       IN /\ ls # {} /\ \A i \in ls : new[i] = ForcedIn(table, s)[n]
          /\ Cardinality(ls) <= Cardinality(owned) + Cardinality(headers)
==============================================================================
