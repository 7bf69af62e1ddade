------------------------- MODULE MeasuredRunProofs -------------------------
(***************************************************************************)
(* Proofs about MeasuredRun, for every set of launches, every list of      *)
(* units and any number of processes: the rows of a results directory are  *)
(* of the provenance its metadata.json names, a metadata.json torn by a    *)
(* kill freezes the directory (ProvenanceInv), a summary is of whole units, *)
(* a process that reaches it has measured what was missing, and no step    *)
(* loses a unit that is whole on disk (UnitInv).                           *)
(***************************************************************************)
EXTENDS MeasuredRun, NaturalLemmas, SequenceTheorems, FiniteSetTheorems, TLAPS

Texts(S) == [lines : Seq(S), open : BOOLEAN]

(* The row r is of the provenance p. *)
Agrees(r, p) ==
  /\ r.commit = p.commit /\ r.models = p.models
  /\ part = 2 => r.changes = p.changes

(* The process that runs was launched from Launches. *)
Launched ==
  \E l \in Launches : \E n, failed :
    session = [id |-> n, commit |-> l.commit, models |-> l.models,
               changes |-> l.changes, dirty |-> l.dirty, failed |-> failed]

(* Where the process is says what there is: metadata that does not parse stops every start, a      *)
(* process past "describing" has written its metadata, and a process that runs agrees with it.     *)
Guarded ==
  /\ part \in {1, 2}
  /\ meta = Junk => pc = "off"
  /\ meta = None => runs.lines = << >> /\ pc \in {"off", "describing"}
  /\ pc # "off" => Launched /\ (meta # None => Agrees(session, meta))

(* The rows on disk are of the provenance the metadata names, while it names one. *)
RowsAgree ==
  \E S : runs \in Texts(S) /\ \A r \in S : r = Junk \/ meta \in {None, Junk} \/ Agrees(r, meta)

ProvenanceInv == Guarded /\ RowsAgree

-----------------------------------------------------------------------------
(* The rewrite of _load_done keeps the row at n. *)
Keep(n) == runs.lines[n] # Junk /\ Whole(runs, runs.lines[n].unit, session.changes)

(* What it has kept of the first n + 1 lines follows from what it kept of the first n. *)
LEMMA SurvivingSteps ==
  ASSUME NEW S, runs.lines \in Seq(S)
  PROVE  \E kept :
           /\ Surviving = kept[Len(runs.lines)] /\ kept[0] = << >>
           /\ \A n \in Nat : n + 1 <= Len(runs.lines) =>
                kept[n + 1] = IF Keep(n + 1) THEN Append(kept[n], runs.lines[n + 1]) ELSE kept[n]
<1> DEFINE L == Len(runs.lines)
           Step(f, n) == IF n = 0 THEN << >>
                         ELSE IF Keep(n) THEN Append(f[n - 1], runs.lines[n]) ELSE f[n - 1]
           Upto(n) == \E f \in [0..n -> Seq(S)] : f = [m \in 0..n |-> Step(f, m)]
           kept == CHOOSE f : f = [m \in 0..L |-> Step(f, m)]
<1>1. L \in Nat /\ \A n \in 1..L : runs.lines[n] \in S
  OBVIOUS
<1>2. Upto(0)
  <2> DEFINE f == [m \in 0..0 |-> << >>]
  <2>1. f \in [0..0 -> Seq(S)]
    OBVIOUS
  <2>2. f = [m \in 0..0 |-> Step(f, m)]
    OBVIOUS
  <2> QED
    BY <2>1, <2>2
<1>3. ASSUME NEW n \in Nat, n + 1 <= L, Upto(n)
      PROVE  Upto(n + 1)
  <2>1. PICK f \in [0..n -> Seq(S)] : f = [m \in 0..n |-> Step(f, m)]
    BY <1>3
  <2> DEFINE next == IF Keep(n + 1) THEN Append(f[n], runs.lines[n + 1]) ELSE f[n]
             g == [m \in 0..(n + 1) |-> IF m = n + 1 THEN next ELSE f[m]]
  <2>2. next \in Seq(S)
    BY <1>1, <1>3
  <2> HIDE DEF next
  <2>3. g \in [0..(n + 1) -> Seq(S)]
    BY <2>2
  <2>4. \A m \in 0..n : g[m] = f[m]
    OBVIOUS
  <2>5. \A m \in 0..n : f[m] = Step(f, m)
    BY <2>1
  <2>6. \A m \in 0..n : Step(g, m) = Step(f, m)
    <3> SUFFICES ASSUME NEW m \in 0..n PROVE Step(g, m) = Step(f, m)
      OBVIOUS
    <3>1. m # 0 => g[m - 1] = f[m - 1]
      BY <2>4
    <3> QED
      BY <3>1
  <2>7. g[n + 1] = next /\ g[n] = f[n]
    BY <2>4
  <2>8. Step(g, n + 1) = next
    BY <2>7 DEF next
  <2>9. \A m \in 0..(n + 1) : g[m] = Step(g, m)
    <3> SUFFICES ASSUME NEW m \in 0..(n + 1) PROVE g[m] = Step(g, m)
      OBVIOUS
    <3> HIDE DEF g, Step
    <3>1. m = n + 1 \/ m \in 0..n
      OBVIOUS
    <3>2. CASE m = n + 1
      BY <2>7, <2>8, <3>2
    <3>3. CASE m \in 0..n
      BY <2>4, <2>5, <2>6, <3>3
    <3> QED
      BY <3>1, <3>2, <3>3
  <2>10. g = [m \in 0..(n + 1) |-> Step(g, m)]
    BY <2>9
  <2> QED
    BY <2>3, <2>10
<1>4. Upto(L)
  <2> DEFINE T == {n \in Nat : n <= L => Upto(n)}
  <2> HIDE DEF Upto
  <2>1. 0 \in T
    BY <1>2
  <2>2. \A n \in Nat : n \in T => n + 1 \in T
    BY <1>1, <1>3
  <2> HIDE DEF T
  <2>3. Nat \subseteq T
    BY <2>1, <2>2, SetInduction
  <2> QED
    BY <2>3, <1>1 DEF T
<1>5. kept = [m \in 0..L |-> Step(kept, m)]
  BY <1>4
<1>6. Surviving = kept[L]
  BY DEF Surviving, Keep
<1> HIDE DEF kept
<1>7. ASSUME NEW n \in Nat, n + 1 <= L
      PROVE  kept[n + 1] = IF Keep(n + 1) THEN Append(kept[n], runs.lines[n + 1]) ELSE kept[n]
  <2>1. kept[n + 1] = Step(kept, n + 1)
    <3> HIDE DEF Step
    <3>1. n + 1 \in 0..L
      BY <1>1, <1>7
    <3> HIDE DEF L
    <3> QED
      BY <1>5, <3>1
  <2>2. n + 1 # 0 /\ (n + 1) - 1 = n
    BY <1>1, <1>7
  <2> QED
    BY <2>1, <2>2
<1>8. kept[0] = << >>
  BY <1>5, <1>1
<1> QED
  BY <1>6, <1>7, <1>8

(* The rewrite of _load_done keeps the lines of whole units, in their order, and adds none. *)
LEMMA SurvivingOrder ==
  ASSUME NEW S, runs.lines \in Seq(S)
  PROVE  /\ Surviving \in Seq(S)
         /\ \E from \in [1..Len(Surviving) -> 1..Len(runs.lines)] :
              /\ \A i, j \in 1..Len(Surviving) : from[i] = from[j] => i = j
              /\ \A i \in 1..Len(Surviving) : Keep(from[i]) /\ Surviving[i] = runs.lines[from[i]]
              /\ \A n \in 1..Len(runs.lines) : Keep(n) => \E i \in 1..Len(Surviving) : from[i] = n
<1> DEFINE L == Len(runs.lines)
<1>1. PICK kept :
        /\ Surviving = kept[L] /\ kept[0] = << >>
        /\ \A n \in Nat : n + 1 <= L =>
             kept[n + 1] = IF Keep(n + 1) THEN Append(kept[n], runs.lines[n + 1]) ELSE kept[n]
  BY SurvivingSteps
<1>2. L \in Nat /\ \A n \in 1..L : runs.lines[n] \in S
  OBVIOUS
<1> HIDE DEF L
<1> DEFINE From(n, s, f) ==
             /\ f \in [1..Len(s) -> 1..n]
             /\ \A i, j \in 1..Len(s) : f[i] = f[j] => i = j
             /\ \A i \in 1..Len(s) : Keep(f[i]) /\ s[i] = runs.lines[f[i]]
             /\ \A m \in 1..n : Keep(m) => \E i \in 1..Len(s) : f[i] = m
           Ordered(n) == kept[n] \in Seq(S) /\ \E f : From(n, kept[n], f)
<1>3. Ordered(0)
  <2>1. From(0, << >>, [i \in 1..0 |-> i])
    OBVIOUS
  <2>2. << >> \in Seq(S) /\ kept[0] = << >>
    BY <1>1
  <2> HIDE DEF From
  <2> QED
    BY <2>1, <2>2
<1>4. ASSUME NEW n \in Nat, n + 1 <= L, Ordered(n)
      PROVE  Ordered(n + 1)
  <2> DEFINE s == kept[n]
  <2>1. PICK f : From(n, s, f)
    BY <1>4
  <2>2. s \in Seq(S) /\ runs.lines[n + 1] \in S
    BY <1>2, <1>4
  <2>3. CASE ~Keep(n + 1)
    <3>1. kept[n + 1] = s
      BY <1>1, <1>4, <2>3
    <3> HIDE DEF s
    <3>2. From(n + 1, s, f)
      <4>1. f \in [1..Len(s) -> 1..(n + 1)]
        BY <2>1
      <4>2. \A m \in 1..(n + 1) : m \in 1..n \/ m = n + 1
        OBVIOUS
      <4> QED
        BY <2>1, <2>3, <4>1, <4>2
    <3> QED
      BY <2>2, <3>1, <3>2
  <2>4. CASE Keep(n + 1)
    <3> DEFINE t == Append(s, runs.lines[n + 1])
               k == Len(s)
               g == [i \in 1..(k + 1) |-> IF i = k + 1 THEN n + 1 ELSE f[i]]
    <3>1. kept[n + 1] = t
      BY <1>1, <1>4, <2>4
    <3>2. k \in Nat /\ t \in Seq(S) /\ Len(t) = k + 1 /\ t[k + 1] = runs.lines[n + 1]
      BY <2>2
    <3>3. \A i \in 1..k : t[i] = s[i]
      BY <2>2
    <3> HIDE DEF s, t
    <3>4. f \in [1..k -> 1..n] /\ \A i \in 1..k : g[i] = f[i] /\ g[i] \in 1..n
      <4>1. f \in [1..k -> 1..n]
        BY <2>1
      <4>2. \A i \in 1..k : i \in 1..(k + 1) /\ i # k + 1
        BY <3>2
      <4> QED
        BY <4>1, <4>2
    <3>5. g[k + 1] = n + 1
      BY <3>2
    <3>6. \A i \in 1..(k + 1) : i = k + 1 \/ i \in 1..k
      BY <3>2
    <3>7. g \in [1..(k + 1) -> 1..(n + 1)]
      BY <3>2, <3>4
    <3> HIDE DEF g
    <3>8. \A i, j \in 1..(k + 1) : g[i] = g[j] => i = j
      <4>1. ASSUME NEW i \in 1..(k + 1), NEW j \in 1..(k + 1), g[i] = g[j] PROVE i = j
        <5>1. CASE i \in 1..k /\ j \in 1..k
          BY <2>1, <3>4, <4>1, <5>1
        <5>2. CASE i = k + 1 /\ j \in 1..k
          <6>1. g[j] \in 1..n /\ g[i] = n + 1
            BY <3>4, <3>5, <5>2
          <6> QED
            BY <4>1, <6>1
        <5>3. CASE j = k + 1 /\ i \in 1..k
          <6>1. g[i] \in 1..n /\ g[j] = n + 1
            BY <3>4, <3>5, <5>3
          <6> QED
            BY <4>1, <6>1
        <5> QED
          BY <3>6, <5>1, <5>2, <5>3
      <4> QED
        BY <4>1
    <3>9. \A i \in 1..(k + 1) : Keep(g[i]) /\ t[i] = runs.lines[g[i]]
      <4>1. ASSUME NEW i \in 1..k PROVE Keep(g[i]) /\ t[i] = runs.lines[g[i]]
        BY <2>1, <3>3, <3>4
      <4> QED
        BY <2>4, <3>2, <3>5, <3>6, <4>1
    <3>10. \A m \in 1..(n + 1) : Keep(m) => \E i \in 1..(k + 1) : g[i] = m
      <4>1. ASSUME NEW m \in 1..n, Keep(m) PROVE \E i \in 1..(k + 1) : g[i] = m
        <5>1. PICK i \in 1..k : f[i] = m
          BY <2>1, <4>1
        <5>2. i \in 1..(k + 1) /\ g[i] = m
          BY <3>2, <3>4, <5>1
        <5> QED
          BY <5>2
      <4>2. k + 1 \in 1..(k + 1)
        BY <3>2
      <4>3. \A m \in 1..(n + 1) : m \in 1..n \/ m = n + 1
        OBVIOUS
      <4> QED
        BY <3>5, <4>1, <4>2, <4>3
    <3>11. From(n + 1, t, g)
      BY <3>2, <3>7, <3>8, <3>9, <3>10
    <3> QED
      BY <3>1, <3>2, <3>11
  <2> QED
    BY <2>3, <2>4
<1>5. Ordered(L)
  <2> DEFINE T == {n \in Nat : n <= L => Ordered(n)}
  <2> HIDE DEF Ordered
  <2>1. 0 \in T
    BY <1>3
  <2>2. \A n \in Nat : n \in T => n + 1 \in T
    BY <1>2, <1>4
  <2> HIDE DEF T
  <2>3. Nat \subseteq T
    BY <2>1, <2>2, SetInduction
  <2> QED
    BY <2>3, <1>2 DEF T
<1>6. PICK f : From(L, Surviving, f)
  BY <1>1, <1>5
<1> QED
  BY <1>1, <1>5, <1>6 DEF L

(* An append leaves lines that were there, lines of the append, and lines that do not parse. *)
LEMMA WrittenLines ==
  ASSUME NEW S, Junk \in S, NEW text \in Texts(S), NEW lines \in Seq(S)
  PROVE  Written(text, lines) \in Texts(S)
<1>1. Front(text.lines) \in Seq(S)
  BY DEF Front, Texts
<1>2. lines # << >> => Tail(lines) \in Seq(S)
  OBVIOUS
<1>3. <<Junk>> \in Seq(S)
  OBVIOUS
<1> HIDE DEF Front
<1>4. lines # << >> => Front(text.lines) \o <<Junk>> \o Tail(lines) \in Seq(S)
  BY <1>1, <1>2, <1>3
<1>5. text.lines \o lines \in Seq(S)
  BY DEF Texts
<1> QED
  BY <1>4, <1>5 DEF Written, Texts

(* So does an append that is cut short. *)
LEMMA TornLines ==
  ASSUME NEW S, Junk \in S, NEW text \in Texts(S), NEW lines \in Seq(S), NEW t \in Torn(text, lines)
  PROVE  t \in Texts(S)
<1>1. PICK n \in 0..(Len(lines) - 1) :
        t \in {Written(text, SubSeq(lines, 1, n))}
              \cup {[Written(text, Append(SubSeq(lines, 1, n), piece)) EXCEPT !.open = TRUE] :
                      piece \in {Junk, lines[n + 1]}}
  BY DEF Torn
<1>2. SubSeq(lines, 1, n) \in Seq(S)
  OBVIOUS
<1>3. lines[n + 1] \in S
  OBVIOUS
<1>4. CASE t = Written(text, SubSeq(lines, 1, n))
  BY <1>2, <1>4, WrittenLines
<1>5. ASSUME NEW piece \in {Junk, lines[n + 1]},
             t = [Written(text, Append(SubSeq(lines, 1, n), piece)) EXCEPT !.open = TRUE]
      PROVE  t \in Texts(S)
  <2>1. Append(SubSeq(lines, 1, n), piece) \in Seq(S)
    BY <1>2, <1>3, <1>5
  <2>2. Written(text, Append(SubSeq(lines, 1, n), piece)) \in Texts(S)
    BY <2>1, WrittenLines
  <2> QED
    BY <1>5, <2>2 DEF Texts
<1> QED
  BY <1>1, <1>4, <1>5

(* The rows of a unit, measured by a process that agrees with the metadata, agree with it too. *)
LEMMA RowsOfAgree ==
  ASSUME NEW unit, part \in {1, 2}, Launched, Agrees(session, meta)
  PROVE  \E R : RowsOf(unit) \in Seq(R) /\ \A r \in R : Agrees(r, meta)
<1> DEFINE row(arm) ==
             [unit |-> unit, arm |-> arm, session |-> session.id, commit |-> session.commit,
              models |-> session.models, changes |-> session.changes, dirty |-> session.dirty]
           N == PerUnit(session.changes)
           R == {row(arm) : arm \in 1..N}
<1>1. N \in Nat
  <2>1. PICK l \in Launches : session.changes = l.changes
    BY DEF Launched, Metadata, Described
  <2>2. Len(session.changes) \in Nat
    BY <2>1, MeasuredAssumption
  <2> HIDE DEF Launched, Agrees
  <2> QED
    BY <2>2 DEF PerUnit
<1>2. RowsOf(unit) = [arm \in 1..N |-> row(arm)]
  BY DEF RowsOf
<1> HIDE DEF N
<1>3. RowsOf(unit) \in [1..N -> R]
  BY <1>2
<1>4. RowsOf(unit) \in Seq(R)
  BY <1>1, <1>3
<1>5. \A r \in R : Agrees(r, meta)
  BY DEF Agrees
<1> QED
  BY <1>4, <1>5

(* What the two writes that append can leave keeps RowsAgree. *)
LEMMA AppendsAgree ==
  ASSUME NEW unit, Guarded, RowsAgree, pc = "measuring", meta' = meta, part' = part,
         \/ runs' = Written(runs, RowsOf(unit))
         \/ runs' \in Torn(runs, RowsOf(unit))
  PROVE  RowsAgree'
<1>1. part \in {1, 2} /\ Launched /\ Agrees(session, meta) /\ meta \notin {None, Junk}
  BY DEF Guarded
<1>2. PICK R : RowsOf(unit) \in Seq(R) /\ \A r \in R : Agrees(r, meta)
  BY <1>1, RowsOfAgree
<1>3. PICK S : runs \in Texts(S) /\ \A r \in S : r = Junk \/ meta \in {None, Junk} \/ Agrees(r, meta)
  BY DEF RowsAgree
<1> DEFINE U == S \cup R \cup {Junk}
<1>4. runs \in Texts(U) /\ RowsOf(unit) \in Seq(U) /\ Junk \in U
  <2>1. runs.lines \in Seq(U)
    BY <1>3 DEF Texts
  <2>2. RowsOf(unit) \in Seq(U)
    BY <1>2
  <2> QED
    BY <1>3, <2>1, <2>2 DEF Texts
<1>5. \A r \in U : r = Junk \/ Agrees(r, meta)
  BY <1>1, <1>2, <1>3
<1>6. \A r \in U : r = Junk \/ (meta \in {None, Junk})' \/ Agrees(r, meta)'
  BY <1>5 DEF Agrees
<1> HIDE DEF U
<1>7. runs' \in Texts(U)
  BY <1>4, WrittenLines, TornLines
<1> QED
  BY <1>6, <1>7 DEF RowsAgree

(* RowsAgree is about the rows, the metadata and the script alone. *)
LEMMA RowsAgreeStays ==
  ASSUME RowsAgree, runs' = runs, part' = part, meta' = meta \/ meta' = Junk
  PROVE  RowsAgree'
<1>1. PICK S : runs \in Texts(S) /\ \A r \in S : r = Junk \/ meta \in {None, Junk} \/ Agrees(r, meta)
  BY DEF RowsAgree
<1>2. \A r \in S : r = Junk \/ (meta \in {None, Junk})' \/ Agrees(r, meta)'
  BY <1>1 DEF Agrees
<1> QED
  BY <1>1, <1>2 DEF RowsAgree

(* Metadata written by a process that agreed with the metadata before it names the same provenance. *)
LEMMA MetadataAgrees ==
  ASSUME Guarded, RowsAgree, pc # "off", meta' = Metadata, runs' = runs, part' = part,
         session' = session
  PROVE  RowsAgree' /\ Agrees(session, meta)' /\ meta' \notin {None, Junk} /\ Launched'
<1>1. meta # Junk /\ Launched /\ (meta # None => Agrees(session, meta))
  BY DEF Guarded
<1>2. Agrees(session, meta)'
  BY DEF Agrees, Metadata, Described
<1>3. meta' \notin {None, Junk}
  <2>1. PICK l \in Launches : Metadata = Described(l)
    BY <1>1 DEF Launched, Metadata, Described
  <2>2. Described(l) \notin {None, Junk}
    BY MeasuredAssumption
  <2> QED
    BY <2>1, <2>2
<1>4. Launched'
  BY <1>1 DEF Launched, Metadata, Described
<1>5. CASE meta = None
  <2>1. runs.lines = << >>
    BY <1>5 DEF Guarded
  <2>2. runs \in Texts({})
    <3>1. PICK S : runs \in Texts(S)
      BY DEF RowsAgree
    <3>2. << >> \in Seq({})
      OBVIOUS
    <3> QED
      BY <2>1, <3>1, <3>2 DEF Texts
  <2>3. runs' \in Texts({})
    BY <2>2
  <2>4. \A r \in {} : r = Junk \/ (meta \in {None, Junk})' \/ Agrees(r, meta)'
    OBVIOUS
  <2> QED
    BY <1>2, <1>3, <1>4, <2>3, <2>4 DEF RowsAgree
<1>6. CASE meta # None
  <2>1. PICK S : runs \in Texts(S) /\ \A r \in S : r = Junk \/ meta \in {None, Junk} \/ Agrees(r, meta)
    BY DEF RowsAgree
  <2>2. \A r \in S : r = Junk \/ Agrees(r, meta)
    BY <1>1, <1>6, <2>1
  <2>3. Agrees(session, meta)
    BY <1>1, <1>6
  <2>4. \A r \in S : r = Junk \/ Agrees(r, meta)'
    BY <1>2, <2>2, <2>3 DEF Agrees
  <2>5. \A r \in S : r = Junk \/ (meta \in {None, Junk})' \/ Agrees(r, meta)'
    BY <2>4
  <2>6. runs' \in Texts(S)
    BY <2>1
  <2> QED
    BY <1>2, <1>3, <1>4, <2>5, <2>6 DEF RowsAgree
<1> QED
  BY <1>5, <1>6

(* A process that stops, whatever it leaves in the metadata, needs no more than the rows. *)
LEMMA Stopped ==
  ASSUME Guarded, RowsAgree, pc # "off", pc' = "off", runs' = runs, part' = part,
         meta' = meta \/ meta' = Junk
  PROVE  ProvenanceInv'
<1>1. RowsAgree'
  BY RowsAgreeStays
<1>2. Guarded'
  BY MeasuredAssumption DEF Guarded
<1> QED
  BY <1>1, <1>2 DEF ProvenanceInv

-----------------------------------------------------------------------------
(* A new directory has no rows and no metadata. *)
LEMMA InitProvenance ==
  ASSUME Init
  PROVE  ProvenanceInv
<1>1. part \in {1, 2} /\ meta = None /\ pc = "off" /\ runs = [lines |-> << >>, open |-> FALSE]
  BY MeasuredAssumption DEF Init
<1>2. Guarded
  BY <1>1, MeasuredAssumption DEF Guarded
<1>3. runs \in Texts({})
  <2>1. << >> \in Seq({})
    OBVIOUS
  <2> QED
    BY <1>1, <2>1 DEF Texts
<1>4. \A r \in {} : r = Junk \/ meta \in {None, Junk} \/ Agrees(r, meta)
  OBVIOUS
<1> QED
  BY <1>2, <1>3, <1>4 DEF ProvenanceInv, RowsAgree

(* A start is let through only by a directory whose metadata agrees with it, or that is new. *)
LEMMA LaunchProvenance ==
  ASSUME ProvenanceInv, Launch
  PROVE  ProvenanceInv'
<1>1. part' = part /\ runs' = runs /\ meta' = meta /\ pc' = "describing" /\ pc = "off"
  BY DEF Launch
<1>2. PICK l \in Launches :
        /\ Guard(l)
        /\ session' = [id |-> session.id + 1, commit |-> l.commit, models |-> l.models,
                       changes |-> l.changes, dirty |-> l.dirty, failed |-> FALSE]
  BY DEF Launch
<1>3. meta # Junk /\ (meta = None => runs.lines = << >>)
  BY <1>2, MeasuredAssumption DEF Guard
<1>4. Launched'
  BY <1>2 DEF Launched, Metadata, Described
<1>5. meta # None => Agrees(session, meta)'
  BY <1>1, <1>2 DEF Guard, Agrees
<1>6. Guarded'
  BY <1>1, <1>3, <1>4, <1>5 DEF ProvenanceInv, Guarded
<1>7. RowsAgree'
  BY <1>1, RowsAgreeStays DEF ProvenanceInv
<1> QED
  BY <1>6, <1>7 DEF ProvenanceInv

(* The metadata is written at both ends of a process, and names the provenance it named before. *)
LEMMA MetadataProvenance ==
  ASSUME ProvenanceInv, WriteMetadata \/ Finish
  PROVE  ProvenanceInv'
<1>1. /\ pc # "off" /\ meta' = Metadata /\ runs' = runs /\ part' = part /\ session' = session
      /\ pc' \notin {"off", "describing"}
  BY DEF WriteMetadata, Finish
<1>2. RowsAgree' /\ Agrees(session, meta)' /\ meta' \notin {None, Junk} /\ Launched'
  BY <1>1, MetadataAgrees DEF ProvenanceInv
<1>3. Guarded'
  BY <1>1, <1>2 DEF ProvenanceInv, Guarded
<1> QED
  BY <1>2, <1>3 DEF ProvenanceInv

(* The steps that leave the rows, the metadata and the launch alone. *)
LEMMA ReadingProvenance ==
  ASSUME ProvenanceInv, LoadPart1 \/ LoadDone \/ SaveBackup \/ GroupError \/ Summarise
  PROVE  ProvenanceInv'
<1>1. /\ part' = part /\ runs' = runs /\ meta' = meta /\ pc \notin {"off", "describing"}
      /\ pc' # "describing"
  BY DEF LoadPart1, LoadDone, SaveBackup, GroupError, Summarise
<1>2. pc' # "off" => Launched' /\ Agrees(session, meta)'
  <2> SUFFICES ASSUME pc' # "off" PROVE Launched' /\ Agrees(session, meta)'
    OBVIOUS
  <2>1. meta \notin {None, Junk} /\ Launched /\ Agrees(session, meta)
    BY <1>1 DEF ProvenanceInv, Guarded
  <2>2. session' = session \/ session' = [session EXCEPT !.failed = TRUE]
    BY DEF LoadPart1, LoadDone, SaveBackup, GroupError, Summarise
  <2>3. PICK l \in Launches : \E n, failed :
          session = [id |-> n, commit |-> l.commit, models |-> l.models,
                     changes |-> l.changes, dirty |-> l.dirty, failed |-> failed]
    BY <2>1 DEF Launched
  <2>4. \E n, after :
          session' = [id |-> n, commit |-> l.commit, models |-> l.models,
                      changes |-> l.changes, dirty |-> l.dirty, failed |-> after]
    BY <2>2, <2>3
  <2>5. Launched'
    BY <2>4 DEF Launched
  <2>6. /\ session'.commit = session.commit /\ session'.models = session.models
        /\ session'.changes = session.changes
    BY <2>3, <2>4
  <2> QED
    BY <1>1, <2>1, <2>5, <2>6 DEF Agrees
<1>3. Guarded'
  <2>1. meta \notin {None, Junk} /\ part \in {1, 2}
    BY <1>1 DEF ProvenanceInv, Guarded
  <2> QED
    BY <1>1, <1>2, <2>1 DEF Guarded
<1>4. RowsAgree'
  BY <1>1, RowsAgreeStays DEF ProvenanceInv
<1> QED
  BY <1>3, <1>4 DEF ProvenanceInv

(* The repair of the log keeps rows that were there. *)
LEMMA ReplaceProvenance ==
  ASSUME ProvenanceInv, ReplaceRuns
  PROVE  ProvenanceInv'
<1>1. /\ part' = part /\ meta' = meta /\ session' = session /\ pc = "replacing" /\ pc' = "measuring"
      /\ runs' = [lines |-> Surviving, open |-> FALSE]
  BY DEF ReplaceRuns
<1>2. PICK S : runs \in Texts(S) /\ \A r \in S : r = Junk \/ meta \in {None, Junk} \/ Agrees(r, meta)
  BY DEF ProvenanceInv, RowsAgree
<1>3. runs' \in Texts(S)
  <2>1. runs.lines \in Seq(S)
    BY <1>2 DEF Texts
  <2>2. Surviving \in Seq(S)
    BY <2>1, SurvivingOrder
  <2> QED
    BY <1>1, <2>2 DEF Texts
<1>4. \A r \in S : r = Junk \/ (meta \in {None, Junk})' \/ Agrees(r, meta)'
  BY <1>1, <1>2 DEF Agrees
<1>5. Guarded'
  <2>1. meta \notin {None, Junk} /\ part \in {1, 2} /\ Launched /\ Agrees(session, meta)
    BY <1>1 DEF ProvenanceInv, Guarded
  <2>2. Launched' /\ Agrees(session, meta)'
    BY <1>1, <2>1 DEF Launched, Agrees
  <2> QED
    BY <1>1, <2>1, <2>2 DEF Guarded
<1> QED
  BY <1>3, <1>4, <1>5 DEF ProvenanceInv, RowsAgree

(* A process appends the rows of a unit under the provenance it was let through with. *)
LEMMA MeasureProvenance ==
  ASSUME ProvenanceInv, MeasureUnit
  PROVE  ProvenanceInv'
<1>1. /\ part' = part /\ meta' = meta /\ session' = session /\ pc = "measuring" /\ pc' = pc
      /\ \E unit : runs' = Written(runs, RowsOf(unit))
  BY DEF MeasureUnit
<1>2. RowsAgree'
  BY <1>1, AppendsAgree DEF ProvenanceInv
<1>3. Guarded'
  <2>1. meta \notin {None, Junk} /\ part \in {1, 2} /\ Launched /\ Agrees(session, meta)
    BY <1>1 DEF ProvenanceInv, Guarded
  <2>2. Launched' /\ Agrees(session, meta)'
    BY <1>1, <2>1 DEF Launched, Agrees
  <2> QED
    BY <1>1, <2>1, <2>2 DEF Guarded
<1> QED
  BY <1>2, <1>3 DEF ProvenanceInv

(* A kill leaves whole rows of its process and a line that does not parse, or torn metadata. *)
LEMMA KillProvenance ==
  ASSUME ProvenanceInv,
         KilledBetweenSteps \/ KilledInMetadata \/ KilledInBackup \/ KilledInAppend
  PROVE  ProvenanceInv'
<1>1. CASE KilledBetweenSteps \/ KilledInMetadata \/ KilledInBackup
  <2>1. /\ pc # "off" /\ pc' = "off" /\ runs' = runs /\ part' = part
        /\ meta' = meta \/ meta' = Junk
    BY <1>1 DEF KilledBetweenSteps, KilledInMetadata, KilledInBackup, Kill
  <2> QED
    BY <2>1, Stopped DEF ProvenanceInv
<1>2. CASE KilledInAppend
  <2>1. /\ part' = part /\ meta' = meta /\ pc = "measuring" /\ pc' = "off"
        /\ \E unit : runs' \in Torn(runs, RowsOf(unit))
    BY <1>2 DEF KilledInAppend, Kill
  <2>2. RowsAgree'
    BY <2>1, AppendsAgree DEF ProvenanceInv
  <2>3. meta \notin {None, Junk} /\ part \in {1, 2}
    BY <2>1 DEF ProvenanceInv, Guarded
  <2>4. Guarded'
    BY <2>1, <2>3 DEF Guarded
  <2> QED
    BY <2>2, <2>4 DEF ProvenanceInv
<1> QED
  BY <1>1, <1>2

(* Every step keeps the invariant. *)
LEMMA NextProvenance ==
  ASSUME ProvenanceInv, [Next]_measuredVars
  PROVE  ProvenanceInv'
<1>1. CASE UNCHANGED measuredVars
  <2>1. RowsAgree'
    BY <1>1, RowsAgreeStays DEF ProvenanceInv, measuredVars
  <2>2. Guarded'
    BY <1>1 DEF ProvenanceInv, measuredVars, Guarded, Launched, Agrees
  <2> QED
    BY <2>1, <2>2 DEF ProvenanceInv
<1>2. CASE Next
  BY <1>2, LaunchProvenance, MetadataProvenance, ReadingProvenance, ReplaceProvenance,
     MeasureProvenance, KillProvenance DEF Next
<1> QED
  BY <1>1, <1>2

(* The rows of a results directory and its metadata name one provenance, whichever processes were  *)
(* let through and wherever they were killed (scripts/provenance.py, guard).                       *)
THEOREM RowsOfOneProvenance == Spec => []OneProvenance
<1>1. Init => ProvenanceInv
  BY InitProvenance
<1>2. ProvenanceInv /\ [Next]_measuredVars => ProvenanceInv'
  BY NextProvenance
<1>3. ProvenanceInv => OneProvenance
  <2> SUFFICES ASSUME ProvenanceInv, NEW i \in DOMAIN runs.lines
               PROVE  /\ meta # None
                      /\ meta # Junk /\ runs.lines[i] # Junk => Agrees(runs.lines[i], meta)
    BY DEF OneProvenance, Agrees
  <2>1. PICK S : runs \in Texts(S) /\ \A r \in S : r = Junk \/ meta \in {None, Junk} \/ Agrees(r, meta)
    BY DEF ProvenanceInv, RowsAgree
  <2>2. runs.lines # << >> /\ runs.lines[i] \in S
    BY <2>1 DEF Texts
  <2>3. meta # None
    BY <2>2 DEF ProvenanceInv, Guarded
  <2> QED
    BY <2>1, <2>2, <2>3
<1> QED
  BY <1>1, <1>2, <1>3, PTL DEF Spec

(* After a kill inside a write of metadata.json nothing in the directory changes again: there is no *)
(* process, and none is let through (scripts/provenance.py, guard; scripts/run_part2.py:145).       *)
THEOREM TornMetadataIsFinal == Spec => TornMetadataFreezes
<1>1. Init => ProvenanceInv
  BY InitProvenance
<1>2. ProvenanceInv /\ [Next]_measuredVars => ProvenanceInv'
  BY NextProvenance
<1>3. ProvenanceInv /\ [Next]_measuredVars
        => [meta = Junk => UNCHANGED <<runs, meta, bak, summary>>]_measuredVars
  <2> SUFFICES ASSUME ProvenanceInv, Next, meta = Junk
               PROVE  UNCHANGED <<runs, meta, bak, summary>>
    OBVIOUS
  <2>1. pc = "off"
    BY DEF ProvenanceInv, Guarded
  <2>2. Launch
    BY <2>1 DEF Next, WriteMetadata, LoadPart1, LoadDone, SaveBackup, ReplaceRuns, MeasureUnit,
                GroupError, Finish, Summarise, Kill, KilledBetweenSteps, KilledInMetadata,
                KilledInBackup, KilledInAppend
  <2> QED
    BY <2>2 DEF Launch
<1> QED
  BY <1>1, <1>2, <1>3, PTL DEF Spec, TornMetadataFreezes

-----------------------------------------------------------------------------
Arms(text, unit) == {text.lines[i].arm : i \in LinesOf(text, unit)}

(* The rows of a unit on disk are of one measurement of it, which has one row for each arm. *)
Tidy(text) ==
  /\ text.open => text.lines # << >>
  /\ \A i \in DOMAIN text.lines :
       LET row == text.lines[i]
       IN row # Junk => /\ row.unit \in Range(Units) /\ Len(row.changes) \in Nat
                        /\ row.arm \in 1..PerUnit(row.changes)
  /\ \A i, j \in DOMAIN text.lines :
       LET row == text.lines[i]
           other == text.lines[j]
       IN row # Junk /\ other # Junk /\ row.unit = other.unit =>
            /\ row.session = other.session /\ row.changes = other.changes
            /\ row.arm = other.arm => i = j

NoPartials(text) ==
  \A unit \in Range(Units) : LinesOf(text, unit) = {} \/ Whole(text, unit, session.changes)

(* What the process knows of the log: while it rewrites it, which units will stay; in the loop,     *)
(* that nothing of the units ahead is there, that those behind are whole unless one failed, and     *)
(* that no unit is partial; where a line does not parse, it promises less.                          *)
LoopInv ==
  /\ pc \in {"saving", "replacing"} => part = 2 /\ done = WholeUnits /\ at = 1
  /\ pc = "measuring" =>
       /\ at \in Nat \ {0}
       /\ \A i \in Ahead : LinesOf(runs, Units[i]) = {}
       /\ ~session.failed /\ ~HasJunk(runs) =>
            \A i \in DOMAIN Units \ Ahead : Whole(runs, Units[i], session.changes)
  /\ pc \in {"measuring", "reading"} /\ ~HasJunk(runs) => NoPartials(runs)
  /\ ResumeCompletes

(* A summary outlives the process that made it; those after it have the same number of arms. *)
SummaryInv ==
  summary # None =>
    /\ meta # None
    /\ part = 2 /\ meta # Junk => meta.changes = session.changes
    /\ SummaryTrustsWholeUnits

UnitInv == ProvenanceInv /\ Tidy(runs) /\ LoopInv /\ SummaryInv

(* A measurement has at least one row. *)
LEMMA PerUnitPositive ==
  ASSUME NEW changes, Len(changes) \in Nat
  PROVE  PerUnit(changes) \in Nat /\ PerUnit(changes) >= 1
BY DEF PerUnit

(* Rows that are of different arms are as many as there are arms when they are of every arm. *)
LEMMA CountArms ==
  ASSUME NEW text, NEW unit, NEW K \in Nat,
         \A i \in LinesOf(text, unit) : text.lines[i].arm \in 1..K,
         \A i, j \in LinesOf(text, unit) : text.lines[i].arm = text.lines[j].arm => i = j
  PROVE  Cardinality(LinesOf(text, unit)) = K <=> Arms(text, unit) = 1..K
<1> DEFINE S == LinesOf(text, unit)
           f == [i \in S |-> text.lines[i].arm]
<1> HIDE DEF S
<1>1. \A i \in S : text.lines[i].arm \in 1..K
  BY DEF S
<1>2. \A i, j \in S : text.lines[i].arm = text.lines[j].arm => i = j
  BY DEF S
<1>3. f \in Injection(S, 1..K)
  <2>1. f \in [S -> 1..K]
    BY <1>1
  <2>2. \A i, j \in S : f[i] = f[j] => i = j
    BY <1>2
  <2> QED
    BY <2>1, <2>2 DEF Injection, IsInjective
<1>4. IsFiniteSet(1..K) /\ Cardinality(1..K) = K
  <2>1. IsFiniteSet(1..K) /\ Cardinality(1..K) = IF 1 > K THEN 0 ELSE K - 1 + 1
    BY FS_Interval
  <2> QED
    BY <2>1
<1>5. Cardinality(S) = Cardinality(1..K) <=> f \in Surjection(S, 1..K)
  BY <1>3, <1>4, FS_Injection
<1>6. f \in Surjection(S, 1..K) <=> {text.lines[i].arm : i \in S} = 1..K
  <2>1. \A i \in S : f[i] = text.lines[i].arm
    OBVIOUS
  <2>2. f \in [S -> 1..K]
    BY <1>1
  <2> HIDE DEF f
  <2>3. f \in Surjection(S, 1..K) <=> \A t \in 1..K : \E i \in S : f[i] = t
    BY <2>2 DEF Surjection
  <2>4. f \in Surjection(S, 1..K) <=> \A t \in 1..K : \E i \in S : text.lines[i].arm = t
    BY <2>1, <2>3
  <2>5. {text.lines[i].arm : i \in S} \subseteq 1..K
    BY <1>1
  <2>6. (\A t \in 1..K : \E i \in S : text.lines[i].arm = t) <=> 1..K \subseteq {text.lines[i].arm : i \in S}
    OBVIOUS
  <2> QED
    BY <2>4, <2>5, <2>6
<1> QED
  BY <1>4, <1>5, <1>6 DEF S, Arms

(* A unit is whole when it has a row for every arm. *)
LEMMA WholeArms ==
  ASSUME NEW text, Tidy(text), NEW unit, NEW changes, Len(changes) \in Nat,
         \A i \in LinesOf(text, unit) : PerUnit(text.lines[i].changes) = PerUnit(changes)
  PROVE  Whole(text, unit, changes) <=> Arms(text, unit) = 1..PerUnit(changes)
<1>1. PerUnit(changes) \in Nat
  BY PerUnitPositive
<1>2. \A i \in LinesOf(text, unit) : text.lines[i].arm \in 1..PerUnit(changes)
  BY DEF Tidy, LinesOf
<1>3. \A i, j \in LinesOf(text, unit) : text.lines[i].arm = text.lines[j].arm => i = j
  BY DEF Tidy, LinesOf
<1> QED
  BY <1>1, <1>2, <1>3, CountArms DEF Whole

(* What an append of `rows` makes of the log, cut short or not: a line of the log stays, but for an *)
(* unfinished one, which the append continues; a new line is one of the rows or does not parse.     *)
Appended(text, rows, new) ==
  /\ new.open => new.lines # << >>
  /\ \A j \in DOMAIN text.lines :
       /\ j \in DOMAIN new.lines
       /\ \/ new.lines[j] = text.lines[j]
          \/ text.open /\ j = Len(text.lines) /\ new.lines[j] = Junk
  /\ \E off \in Int : \A j \in DOMAIN new.lines \ DOMAIN text.lines :
       new.lines[j] = Junk \/ (j - off \in DOMAIN rows /\ new.lines[j] = rows[j - off])

(* Rows of which some are replaced by a line that does not parse are appended as rows. *)
LEMMA WrittenAppends ==
  ASSUME NEW S, NEW text \in Texts(S), text.open => text.lines # << >>, NEW R, NEW rows \in Seq(R),
         NEW T, NEW w \in Seq(T), Len(w) <= Len(rows),
         \A k \in 1..Len(w) : w[k] \in {rows[k], Junk}
  PROVE  Appended(text, rows, Written(text, w)) /\ (w # << >> => Written(text, w).lines # << >>)
<1> DEFINE new == Written(text, w)
           old == text.lines
           n == Len(text.lines)
<1>1. old \in Seq(S) /\ n \in Nat /\ DOMAIN old = 1..n /\ Len(rows) \in Nat /\ DOMAIN rows = 1..Len(rows)
  BY DEF Texts
<1>2. Len(w) \in Nat
  OBVIOUS
<1>3. CASE w = << >>
  <2>1. new = text
    BY <1>3 DEF Written
  <2> QED
    BY <1>3, <2>1 DEF Appended
<1>4. CASE w # << >> /\ ~text.open
  <2> DEFINE l == old \o w
  <2>1. new = [lines |-> l, open |-> FALSE]
    BY <1>4 DEF Written
  <2>2. DOMAIN l = 1..(n + Len(w)) /\ \A j \in 1..n : l[j] = old[j]
    BY <1>1, <1>2
  <2>3. \A j \in 1..(n + Len(w)) : j \notin 1..n => j - n \in 1..Len(w) /\ l[j] = w[j - n]
    BY <1>1, <1>2
  <2>4. l # << >>
    BY <1>4
  <2> HIDE DEF l
  <2>5. \A j \in DOMAIN old : j \in DOMAIN l /\ l[j] = old[j]
    BY <1>1, <1>2, <2>2
  <2>6. \A j \in DOMAIN l \ DOMAIN old : l[j] = Junk \/ (j - n \in DOMAIN rows /\ l[j] = rows[j - n])
    <3> SUFFICES ASSUME NEW j \in DOMAIN l \ DOMAIN old
                 PROVE  l[j] = Junk \/ (j - n \in DOMAIN rows /\ l[j] = rows[j - n])
      OBVIOUS
    <3>1. j - n \in 1..Len(w) /\ l[j] = w[j - n]
      BY <1>1, <2>2, <2>3
    <3>2. j - n \in DOMAIN rows
      BY <1>1, <1>2, <3>1
    <3> QED
      BY <3>1, <3>2
  <2> QED
    BY <1>1, <2>1, <2>4, <2>5, <2>6 DEF Appended
<1>5. CASE w # << >> /\ text.open
  <2> DEFINE l == Front(old) \o <<Junk>> \o Tail(w)
  <2>1. new = [lines |-> l, open |-> FALSE]
    BY <1>5 DEF Written
  <2>2. n >= 1 /\ Len(w) >= 1
    BY <1>1, <1>5
  <2> DEFINE f == Front(old)
             t == Tail(w)
  <2>3. f \in Seq(S) /\ Len(f) = n - 1 /\ \A j \in 1..(n - 1) : f[j] = old[j]
    BY <1>1, <2>2 DEF Front
  <2>4. t \in Seq(T) /\ Len(t) = Len(w) - 1 /\ \A j \in 1..(Len(w) - 1) : t[j] = w[j + 1]
    BY <2>2
  <2> HIDE DEF f, t
  <2> DEFINE g == f \o <<Junk>>
  <2>5. g \in Seq(S \cup {Junk}) /\ Len(g) = n /\ g[n] = Junk
    BY <1>1, <2>2, <2>3
  <2>6. \A j \in 1..(n - 1) : g[j] = old[j]
    BY <1>1, <2>2, <2>3
  <2> HIDE DEF g
  <2>7. DOMAIN (g \o t) = 1..(n + Len(w) - 1) /\ \A j \in 1..n : (g \o t)[j] = g[j]
    <3>1. DOMAIN (g \o t) = 1..(Len(g) + Len(t))
      <4> DEFINE U == S \cup {Junk} \cup T
      <4>1. g \in Seq(U) /\ t \in Seq(U)
        BY <2>4, <2>5
      <4> HIDE DEF U
      <4> QED
        BY <4>1, ConcatProperties
    <3>2. \A j \in 1..Len(g) : (g \o t)[j] = g[j]
      BY <2>4, <2>5
    <3>3. Len(g) + Len(t) = n + Len(w) - 1
      BY <1>1, <1>2, <2>4, <2>5
    <3> QED
      BY <2>5, <3>1, <3>2, <3>3
  <2>8. \A j \in 1..(n + Len(w) - 1) : j \notin 1..n => j - n \in 1..(Len(w) - 1) /\ (g \o t)[j] = t[j - n]
    BY <1>1, <1>2, <2>4, <2>5
  <2>9. l = g \o t
    BY DEF f, g, t
  <2> HIDE DEF l
  <2>10. DOMAIN l = 1..(n + Len(w) - 1) /\ l[n] = Junk /\ \A j \in 1..(n - 1) : l[j] = old[j]
    BY <1>1, <2>2, <2>5, <2>6, <2>7, <2>9
  <2>11. \A j \in 1..(n + Len(w) - 1) : j \notin 1..n => j - n \in 1..(Len(w) - 1) /\ l[j] = w[j - n + 1]
    BY <1>1, <1>2, <2>4, <2>8, <2>9
  <2>12. l # << >>
    BY <1>1, <1>2, <2>2, <2>10
  <2>13. ASSUME NEW j \in DOMAIN old
         PROVE  j \in DOMAIN l /\ (l[j] = old[j] \/ (text.open /\ j = n /\ l[j] = Junk))
    <3>1. j \in 1..(n - 1) \/ j = n
      BY <1>1
    <3> QED
      BY <1>1, <1>2, <1>5, <2>2, <2>10, <3>1
  <2>14. \A j \in DOMAIN l \ DOMAIN old :
           l[j] = Junk \/ (j - (n - 1) \in DOMAIN rows /\ l[j] = rows[j - (n - 1)])
    <3> SUFFICES ASSUME NEW j \in DOMAIN l \ DOMAIN old
                 PROVE  l[j] = Junk \/ (j - (n - 1) \in DOMAIN rows /\ l[j] = rows[j - (n - 1)])
      OBVIOUS
    <3>1. j \in 1..(n + Len(w) - 1) /\ j \notin 1..n
      BY <1>1, <2>10
    <3>2. j - n \in 1..(Len(w) - 1) /\ l[j] = w[j - n + 1]
      BY <2>11, <3>1
    <3>3. j - (n - 1) = j - n + 1 /\ j - n + 1 \in 1..Len(w)
      BY <1>1, <1>2, <3>1, <3>2
    <3>4. j - (n - 1) \in DOMAIN rows
      BY <1>1, <1>2, <3>3
    <3> QED
      BY <3>2, <3>3, <3>4
  <2>15. n - 1 \in Int
    BY <1>1
  <2> QED
    BY <1>1, <2>1, <2>12, <2>13, <2>14, <2>15 DEF Appended
<1> QED
  BY <1>3, <1>4, <1>5

(* So is an append that is cut short. *)
LEMMA TornAppends ==
  ASSUME NEW S, NEW text \in Texts(S), text.open => text.lines # << >>, NEW R, NEW rows \in Seq(R),
         NEW t \in Torn(text, rows)
  PROVE  Appended(text, rows, t)
<1>1. PICK n \in 0..(Len(rows) - 1) :
        t \in {Written(text, SubSeq(rows, 1, n))}
              \cup {[Written(text, Append(SubSeq(rows, 1, n), piece)) EXCEPT !.open = TRUE] :
                      piece \in {Junk, rows[n + 1]}}
  BY DEF Torn
<1> DEFINE w == SubSeq(rows, 1, n)
<1>2. w \in Seq(R) /\ Len(w) = n /\ \A k \in 1..n : w[k] = rows[k]
  OBVIOUS
<1>3. Len(rows) \in Nat /\ n \in Nat /\ n + 1 <= Len(rows)
  OBVIOUS
<1> HIDE DEF w
<1>4. CASE t = Written(text, w)
  <2>1. Len(w) <= Len(rows) /\ \A k \in 1..Len(w) : w[k] \in {rows[k], Junk}
    BY <1>2, <1>3
  <2> QED
    BY <1>2, <1>4, <2>1, WrittenAppends
<1>5. ASSUME NEW piece \in {Junk, rows[n + 1]},
             t = [Written(text, Append(w, piece)) EXCEPT !.open = TRUE]
      PROVE  Appended(text, rows, t)
  <2> DEFINE T == R \cup {Junk, rows[n + 1]}
             x == Append(w, piece)
  <2>1. w \in Seq(T) /\ piece \in T
    BY <1>2, <1>5
  <2>2. x \in Seq(T) /\ Len(x) = n + 1 /\ x[n + 1] = piece /\ \A k \in 1..n : x[k] = w[k]
    BY <1>2, <1>3, <2>1
  <2> HIDE DEF x, T
  <2>3. \A k \in 1..(n + 1) : k \in 1..n \/ k = n + 1
    BY <1>3
  <2>4. Len(x) <= Len(rows) /\ (\A k \in 1..Len(x) : x[k] \in {rows[k], Junk}) /\ x # << >>
    BY <1>2, <1>3, <1>5, <2>2, <2>3
  <2>5. Appended(text, rows, Written(text, x)) /\ Written(text, x).lines # << >>
    BY <2>2, <2>4, WrittenAppends
  <2>6. t.lines = Written(text, x).lines
    BY <1>5 DEF Written, Texts, x
  <2> QED
    BY <2>5, <2>6 DEF Appended
<1> QED
  BY <1>1, <1>4, <1>5 DEF w

(* What the rows of a measurement say of themselves. *)
LEMMA RowsOfUnit ==
  ASSUME NEW unit, Len(session.changes) \in Nat
  PROVE  /\ DOMAIN RowsOf(unit) = 1..PerUnit(session.changes)
         /\ \A k \in 1..PerUnit(session.changes) :
              /\ RowsOf(unit)[k].unit = unit /\ RowsOf(unit)[k].arm = k
              /\ RowsOf(unit)[k].session = session.id /\ RowsOf(unit)[k].changes = session.changes
BY DEF RowsOf

(* The rows of a unit that has none yet keep the log tidy, however many of them are written. *)
LEMMA AppendTidy ==
  ASSUME NEW text, Tidy(text), NEW unit \in Range(Units), LinesOf(text, unit) = {},
         Len(session.changes) \in Nat, NEW S, NEW new \in Texts(S), Appended(text, RowsOf(unit), new)
  PROVE  Tidy(new)
<1> DEFINE K == PerUnit(session.changes)
           rows == RowsOf(unit)
<1>1. PICK off \in Int : \A j \in DOMAIN new.lines \ DOMAIN text.lines :
        new.lines[j] = Junk \/ (j - off \in DOMAIN rows /\ new.lines[j] = rows[j - off])
  BY DEF Appended
<1>2. DOMAIN rows = 1..K
  BY RowsOfUnit
<1>3. \A k \in 1..K : /\ rows[k].unit = unit /\ rows[k].arm = k
                      /\ rows[k].session = session.id /\ rows[k].changes = session.changes
  BY RowsOfUnit
<1>4. DOMAIN new.lines \subseteq Nat
  BY DEF Texts
<1> HIDE DEF K, rows
<1> DEFINE Old(i) == i \in DOMAIN text.lines /\ new.lines[i] = text.lines[i] /\ new.lines[i].unit # unit
           New(i) == /\ i - off \in 1..K /\ new.lines[i].arm = i - off /\ new.lines[i].unit = unit
                     /\ new.lines[i].session = session.id /\ new.lines[i].changes = session.changes
<1>5. ASSUME NEW i \in DOMAIN new.lines, new.lines[i] # Junk
      PROVE  Old(i) \/ New(i)
  <2>1. CASE i \in DOMAIN text.lines
    <3>1. new.lines[i] = text.lines[i]
      BY <1>5, <2>1 DEF Appended
    <3>2. i \notin LinesOf(text, unit)
      OBVIOUS
    <3> QED
      BY <1>5, <2>1, <3>1, <3>2 DEF LinesOf
  <2>2. CASE i \notin DOMAIN text.lines
    <3>1. i - off \in 1..K /\ new.lines[i] = rows[i - off]
      BY <1>1, <1>2, <1>5, <2>2
    <3> QED
      BY <1>3, <3>1
  <2> QED
    BY <2>1, <2>2
<1>6. new.open => new.lines # << >>
  BY DEF Appended
<1>7. ASSUME NEW i \in DOMAIN new.lines, new.lines[i] # Junk
      PROVE  /\ new.lines[i].unit \in Range(Units) /\ Len(new.lines[i].changes) \in Nat
             /\ new.lines[i].arm \in 1..PerUnit(new.lines[i].changes)
  <2>1. CASE Old(i)
    BY <1>7, <2>1 DEF Tidy
  <2>2. CASE New(i)
    BY <2>2 DEF K
  <2> QED
    BY <1>5, <1>7, <2>1, <2>2
<1>8. ASSUME NEW i \in DOMAIN new.lines, NEW j \in DOMAIN new.lines, new.lines[i] # Junk,
             new.lines[j] # Junk, new.lines[i].unit = new.lines[j].unit
      PROVE  /\ new.lines[i].session = new.lines[j].session
             /\ new.lines[i].changes = new.lines[j].changes
             /\ new.lines[i].arm = new.lines[j].arm => i = j
  <2>1. (Old(i) /\ Old(j)) \/ (New(i) /\ New(j))
    <3>1. (Old(i) \/ New(i)) /\ (Old(j) \/ New(j))
      BY <1>5, <1>8
    <3> QED
      BY <1>8, <3>1
  <2>2. CASE Old(i) /\ Old(j)
    BY <1>8, <2>2 DEF Tidy
  <2>3. CASE New(i) /\ New(j)
    <3>1. i \in Nat /\ j \in Nat
      BY <1>4
    <3> QED
      BY <2>3, <3>1
  <2> QED
    BY <2>1, <2>2, <2>3
<1> QED
  BY <1>6, <1>7, <1>8 DEF Tidy

(* The append of a unit leaves the rows of the others alone, but for one on an unfinished line. *)
LEMMA AppendOthers ==
  ASSUME NEW text, NEW unit, NEW other, other # unit, Len(session.changes) \in Nat, NEW new,
         Appended(text, RowsOf(unit), new)
  PROVE  /\ \A i \in LinesOf(new, other) : i \in LinesOf(text, other)
         /\ \A i \in LinesOf(new, other) : new.lines[i] = text.lines[i]
         /\ (text.open => Len(text.lines) \notin LinesOf(text, other))
            => LinesOf(new, other) = LinesOf(text, other)
<1>1. PICK off \in Int : \A j \in DOMAIN new.lines \ DOMAIN text.lines :
        new.lines[j] = Junk \/ (j - off \in DOMAIN RowsOf(unit) /\ new.lines[j] = RowsOf(unit)[j - off])
  BY DEF Appended
<1>2. ASSUME NEW i \in LinesOf(new, other)
      PROVE  i \in LinesOf(text, other) /\ new.lines[i] = text.lines[i]
  <2>1. i \in DOMAIN new.lines /\ new.lines[i] # Junk /\ new.lines[i].unit = other
    BY DEF LinesOf
  <2>2. i \in DOMAIN text.lines
    <3> SUFFICES ASSUME i \notin DOMAIN text.lines PROVE FALSE
      OBVIOUS
    <3>1. i - off \in DOMAIN RowsOf(unit) /\ new.lines[i] = RowsOf(unit)[i - off]
      BY <1>1, <2>1
    <3>2. \A k \in DOMAIN RowsOf(unit) : RowsOf(unit)[k].unit = unit
      BY RowsOfUnit
    <3> QED
      BY <2>1, <3>1, <3>2
  <2>3. new.lines[i] = text.lines[i]
    BY <2>1, <2>2 DEF Appended
  <2> QED
    BY <2>1, <2>2, <2>3 DEF LinesOf
<1>3. ASSUME text.open => Len(text.lines) \notin LinesOf(text, other), NEW i \in LinesOf(text, other)
      PROVE  i \in LinesOf(new, other)
  <2>1. i \in DOMAIN text.lines /\ text.lines[i] # Junk /\ text.lines[i].unit = other
    BY DEF LinesOf
  <2>2. i \in DOMAIN new.lines /\ new.lines[i] = text.lines[i]
    BY <1>3, <2>1 DEF Appended
  <2> QED
    BY <2>1, <2>2 DEF LinesOf
<1> QED
  BY <1>2, <1>3

(* A line that does not parse stays one. *)
LEMMA AppendJunk ==
  ASSUME NEW text, NEW rows, NEW new, Appended(text, rows, new), HasJunk(text)
  PROVE  HasJunk(new)
BY DEF Appended, HasJunk

-----------------------------------------------------------------------------
(* The rows on disk have as many arms as a measurement of the process that runs. *)
LEMMA RowsMatch ==
  ASSUME ProvenanceInv, pc # "off"
  PROVE  /\ Len(session.changes) \in Nat
         /\ \E S : runs \in Texts(S)
         /\ \A i \in DOMAIN runs.lines : runs.lines[i] # Junk =>
              PerUnit(runs.lines[i].changes) = PerUnit(session.changes)
<1>1. Launched /\ part \in {1, 2} /\ meta # Junk /\ (meta # None => Agrees(session, meta))
      /\ (meta = None => runs.lines = << >>)
  BY DEF ProvenanceInv, Guarded
<1>2. Len(session.changes) \in Nat
  <2>1. PICK l \in Launches : session.changes = l.changes
    BY <1>1 DEF Launched
  <2> QED
    BY <2>1, MeasuredAssumption
<1>3. PICK S : runs \in Texts(S) /\ \A r \in S : r = Junk \/ meta \in {None, Junk} \/ Agrees(r, meta)
  BY DEF ProvenanceInv, RowsAgree
<1>4. ASSUME NEW i \in DOMAIN runs.lines, runs.lines[i] # Junk
      PROVE  PerUnit(runs.lines[i].changes) = PerUnit(session.changes)
  <2>1. runs.lines[i] \in S /\ meta # None
    BY <1>1, <1>3 DEF Texts
  <2>2. Agrees(runs.lines[i], meta) /\ Agrees(session, meta)
    BY <1>1, <1>3, <1>4, <2>1
  <2> QED
    BY <1>1, <2>2 DEF Agrees, PerUnit
<1> QED
  BY <1>2, <1>3, <1>4

(* While a process runs, a unit is whole when it has a row for every arm. *)
LEMMA WholeNow ==
  ASSUME UnitInv, pc # "off", NEW unit
  PROVE  Whole(runs, unit, session.changes) <=> Arms(runs, unit) = 1..PerUnit(session.changes)
<1>1. Len(session.changes) \in Nat /\ Tidy(runs)
  BY RowsMatch DEF UnitInv
<1>2. \A i \in LinesOf(runs, unit) : PerUnit(runs.lines[i].changes) = PerUnit(session.changes)
  BY RowsMatch DEF UnitInv, LinesOf
<1> QED
  BY <1>1, <1>2, WholeArms

(* A summary keeps its number of arms while the processes and the metadata do. *)
LEMMA SummaryStays ==
  ASSUME SummaryInv, summary' = summary, part' = part, session'.changes = session.changes,
         meta' = meta \/ (meta' # None /\ (meta' = Junk \/ meta'.changes = session.changes))
  PROVE  SummaryInv'
<1>1. \A unit \in Range(Units) : PerUnit(session.changes)' = PerUnit(session.changes)
  BY DEF PerUnit
<1>2. SummaryTrustsWholeUnits => SummaryTrustsWholeUnits'
  BY <1>1 DEF SummaryTrustsWholeUnits
<1> QED
  BY <1>2 DEF SummaryInv

(* The log stays tidy while it stays. *)
LEMMA TidyStays ==
  ASSUME Tidy(runs), runs' = runs, part' = part
  PROVE  Tidy(runs)'
BY DEF Tidy, PerUnit

(* Between the processes, and before the log has been read, there is nothing to know of the loop. *)
LEMMA LoopIsOver ==
  ASSUME pc' \in {"off", "describing", "loading"}
  PROVE  LoopInv'
BY DEF LoopInv, ResumeCompletes

-----------------------------------------------------------------------------
(* A new directory has no log. *)
LEMMA InitUnits ==
  ASSUME Init
  PROVE  UnitInv
<1>1. ProvenanceInv
  BY InitProvenance
<1>2. Tidy(runs)
  <2>1. runs = [lines |-> << >>, open |-> FALSE]
    BY DEF Init
  <2>2. DOMAIN runs.lines = {}
    BY <2>1
  <2> QED
    BY <2>1, <2>2 DEF Tidy
<1>3. LoopInv
  BY DEF Init, LoopInv, ResumeCompletes
<1>4. SummaryInv
  BY DEF Init, SummaryInv
<1> QED
  BY <1>1, <1>2, <1>3, <1>4 DEF UnitInv

(* A process that is let through after a summary was made has as many arms as the one that made it. *)
LEMMA LaunchUnits ==
  ASSUME UnitInv, Launch
  PROVE  UnitInv'
<1>1. part' = part /\ runs' = runs /\ meta' = meta /\ pc' = "describing" /\ summary' = summary
  BY DEF Launch
<1>2. PICK l \in Launches : Guard(l) /\ session'.changes = l.changes
  BY DEF Launch
<1>3. ProvenanceInv' /\ Tidy(runs)' /\ LoopInv'
  BY <1>1, LaunchProvenance, TidyStays, LoopIsOver DEF UnitInv
<1>4. SummaryInv'
  <2> SUFFICES ASSUME summary # None PROVE SummaryInv'
    BY <1>1 DEF SummaryInv
  <2>1. meta # None /\ meta # Junk /\ (part = 2 => meta.changes = session'.changes)
    BY <1>2, MeasuredAssumption DEF Guard, UnitInv, SummaryInv
  <2>2. part = 2 => session'.changes = session.changes
    BY <2>1 DEF UnitInv, SummaryInv
  <2>3. part \in {1, 2}
    BY DEF UnitInv, ProvenanceInv, Guarded
  <2>4. SummaryTrustsWholeUnits
    BY DEF UnitInv, SummaryInv
  <2>5. SummaryTrustsWholeUnits'
    <3>1. PerUnit(session.changes)' = PerUnit(session.changes)
      BY <1>1, <2>2, <2>3 DEF PerUnit
    <3>2. PICK K : K = PerUnit(session.changes) /\ K = PerUnit(session.changes)'
      BY <3>1
    <3> DEFINE Trusts(s) ==
                 s # None =>
                   \A unit \in Range(Units) :
                     LET mine == {i \in DOMAIN s : s[i].unit = unit}
                     IN mine # {} =>
                          /\ Cardinality(mine) = K
                          /\ {s[i].arm : i \in mine} = 1..K
                          /\ Cardinality({s[i].session : i \in mine}) = 1
    <3>3. Trusts(summary)
      BY <2>4, <3>2 DEF SummaryTrustsWholeUnits
    <3>4. Trusts(summary')
      <4> HIDE DEF Trusts
      <4> QED
        BY <1>1, <3>3
    <3> QED
      BY <3>2, <3>4 DEF SummaryTrustsWholeUnits
  <2> QED
    BY <1>1, <2>1, <2>5 DEF SummaryInv
<1> QED
  BY <1>3, <1>4 DEF UnitInv

(* The first metadata of a process names what it was launched with. *)
LEMMA DescribeUnits ==
  ASSUME UnitInv, WriteMetadata
  PROVE  UnitInv'
<1>1. /\ part' = part /\ runs' = runs /\ meta' = Metadata /\ pc' = "loading" /\ summary' = summary
      /\ session' = session
  BY DEF WriteMetadata
<1>2. ProvenanceInv' /\ Tidy(runs)' /\ LoopInv'
  BY <1>1, MetadataProvenance, TidyStays, LoopIsOver DEF UnitInv
<1>3. meta'.changes = session.changes /\ meta' # None
  BY <1>1, <1>2 DEF Metadata, Described, ProvenanceInv, Guarded
<1>4. SummaryInv'
  BY <1>1, <1>3, SummaryStays DEF UnitInv
<1> QED
  BY <1>2, <1>4 DEF UnitInv

(* A kill that leaves the log alone. *)
LEMMA StoppedUnits ==
  ASSUME UnitInv, KilledBetweenSteps \/ KilledInMetadata \/ KilledInBackup
  PROVE  UnitInv'
<1>1. /\ part' = part /\ runs' = runs /\ meta' \in {meta, Junk} /\ pc' = "off" /\ summary' = summary
      /\ session' = session
  BY DEF KilledBetweenSteps, KilledInMetadata, KilledInBackup, Kill
<1>2. ProvenanceInv' /\ Tidy(runs)' /\ LoopInv'
  BY <1>1, KillProvenance, TidyStays, LoopIsOver DEF UnitInv
<1>3. SummaryInv'
  BY <1>1, SummaryStays, MeasuredAssumption DEF UnitInv
<1> QED
  BY <1>2, <1>3 DEF UnitInv

(* What is whole stays whole while the log and the list of changes stay. *)
LEMMA WholeStays ==
  ASSUME runs' = runs, part' = part, session'.changes = session.changes
  PROVE  /\ \A unit : LinesOf(runs, unit)' = LinesOf(runs, unit)
         /\ \A unit : Whole(runs, unit, session.changes)' <=> Whole(runs, unit, session.changes)
         /\ HasJunk(runs)' <=> HasJunk(runs)
         /\ NoPartials(runs)' <=> NoPartials(runs)
<1>1. \A unit : LinesOf(runs, unit)' = LinesOf(runs, unit)
  BY DEF LinesOf
<1>2. PerUnit(session.changes)' = PerUnit(session.changes)
  BY DEF PerUnit
<1>3. \A unit : Whole(runs, unit, session.changes)' <=> Whole(runs, unit, session.changes)
  BY <1>1, <1>2 DEF Whole
<1>4. HasJunk(runs)' <=> HasJunk(runs)
  BY DEF HasJunk
<1>5. NoPartials(runs)' <=> NoPartials(runs)
  BY <1>1, <1>3 DEF NoPartials
<1> QED
  BY <1>1, <1>3, <1>4, <1>5

(* Part 1 has one row in a unit, so a unit with a row is whole. *)
LEMMA LoadUnits1 ==
  ASSUME UnitInv, LoadPart1
  PROVE  UnitInv'
<1>1. /\ part' = part /\ runs' = runs /\ meta' = meta /\ summary' = summary /\ session' = session
      /\ pc = "loading" /\ part = 1
  BY DEF LoadPart1
<1>2. ProvenanceInv' /\ Tidy(runs)' /\ SummaryInv'
  BY <1>1, ReadingProvenance, TidyStays, SummaryStays DEF UnitInv
<1>3. CASE pc' = "off"
  BY <1>2, <1>3, LoopIsOver DEF UnitInv
<1>4. CASE pc' # "off"
  <2>1. /\ pc' = "measuring" /\ at' = 1 /\ ~HasJunk(runs)
        /\ done' = {unit \in Range(Units) : LinesOf(runs, unit) # {}}
    BY <1>4 DEF LoadPart1
  <2>2. ASSUME NEW unit, LinesOf(runs, unit) # {} PROVE Whole(runs, unit, session.changes)
    <3>1. PerUnit(session.changes) = 1 /\ \A i \in LinesOf(runs, unit) : PerUnit(runs.lines[i].changes) = 1
      BY <1>1 DEF PerUnit
    <3>2. Arms(runs, unit) = 1..1
      BY <2>2, <3>1 DEF Arms, UnitInv, Tidy, LinesOf
    <3> QED
      BY <1>1, <3>1, <3>2, WholeNow
  <2>3. \A i \in DOMAIN Units : Units[i] \in Range(Units)
    BY DEF Range
  <2>4. \A i \in Ahead' : LinesOf(runs, Units[i]) = {}
    <3>1. \A i \in Ahead' : i \in DOMAIN Units /\ Units[i] \notin done'
      BY <2>1, MeasuredAssumption DEF Ahead
    <3> QED
      BY <2>1, <2>3, <3>1
  <2>5. \A i \in DOMAIN Units \ Ahead' : Whole(runs, Units[i], session.changes)
    <3>1. \A i \in DOMAIN Units \ Ahead' : Units[i] \in done'
      BY <2>1, MeasuredAssumption DEF Ahead
    <3> QED
      BY <2>1, <2>2, <3>1
  <2>6. NoPartials(runs)
    BY <2>2 DEF NoPartials
  <2>7. LoopInv'
    BY <1>1, <2>1, <2>4, <2>5, <2>6, WholeStays DEF LoopInv, ResumeCompletes
  <2> QED
    BY <1>2, <2>7 DEF UnitInv
<1> QED
  BY <1>3, <1>4

(* Part 2 either finds every unit whole or absent or goes on to rewrite the log. *)
LEMMA LoadUnits2 ==
  ASSUME UnitInv, LoadDone
  PROVE  UnitInv'
<1>1. /\ part' = part /\ runs' = runs /\ meta' = meta /\ summary' = summary /\ session' = session
      /\ pc = "loading" /\ part = 2 /\ done' = WholeUnits /\ at' = 1 /\ pc' \in {"saving", "measuring"}
  BY DEF LoadDone
<1>2. ProvenanceInv' /\ Tidy(runs)' /\ SummaryInv'
  BY <1>1, ReadingProvenance, TidyStays, SummaryStays DEF UnitInv
<1>3. CASE pc' = "saving"
  <2>1. WholeUnits' = WholeUnits
    BY <1>1, WholeStays DEF WholeUnits
  <2> QED
    BY <1>1, <1>2, <1>3, <2>1 DEF UnitInv, LoopInv, ResumeCompletes
<1>4. CASE pc' = "measuring"
  <2>1. NoPartials(runs)
    BY <1>4 DEF LoadDone, NoPartials
  <2>2. \A i \in DOMAIN Units : Units[i] \in Range(Units)
    BY DEF Range
  <2>3. \A i \in Ahead' : LinesOf(runs, Units[i]) = {}
    <3>1. \A i \in Ahead' : i \in DOMAIN Units /\ Units[i] \notin done'
      BY <1>1, MeasuredAssumption DEF Ahead
    <3> QED
      BY <1>1, <2>1, <2>2, <3>1 DEF WholeUnits, NoPartials
  <2>4. \A i \in DOMAIN Units \ Ahead' : Whole(runs, Units[i], session.changes)
    <3>1. \A i \in DOMAIN Units \ Ahead' : Units[i] \in done'
      BY <1>1, MeasuredAssumption DEF Ahead
    <3> QED
      BY <1>1, <3>1 DEF WholeUnits
  <2>5. LoopInv'
    BY <1>1, <1>4, <2>1, <2>3, <2>4, WholeStays DEF LoopInv, ResumeCompletes
  <2> QED
    BY <1>2, <2>5 DEF UnitInv
<1> QED
  BY <1>1, <1>3, <1>4

(* The backup is made of the log that was read. *)
LEMMA SaveUnits ==
  ASSUME UnitInv, SaveBackup
  PROVE  UnitInv'
<1>1. /\ part' = part /\ runs' = runs /\ meta' = meta /\ summary' = summary /\ session' = session
      /\ pc = "saving" /\ pc' = "replacing" /\ done' = done /\ at' = at
  BY DEF SaveBackup
<1>2. ProvenanceInv' /\ Tidy(runs)' /\ SummaryInv'
  BY <1>1, ReadingProvenance, TidyStays, SummaryStays DEF UnitInv
<1>3. WholeUnits' = WholeUnits
  BY <1>1, WholeStays DEF WholeUnits
<1>4. LoopInv'
  BY <1>1, <1>3 DEF UnitInv, LoopInv, ResumeCompletes
<1> QED
  BY <1>2, <1>4 DEF UnitInv

(* A unit that raised is behind the loop and has nothing in the log; the process has failed. *)
LEMMA ErrorUnits ==
  ASSUME UnitInv, GroupError
  PROVE  UnitInv'
<1>1. /\ part' = part /\ runs' = runs /\ meta' = meta /\ summary' = summary /\ done' = done
      /\ pc = "measuring" /\ pc' = "measuring" /\ session' = [session EXCEPT !.failed = TRUE]
  BY DEF GroupError
<1>2. session'.changes = session.changes /\ session'.failed = TRUE
  <2>1. PICK l \in Launches : \E n, failed :
          session = [id |-> n, commit |-> l.commit, models |-> l.models,
                     changes |-> l.changes, dirty |-> l.dirty, failed |-> failed]
    BY <1>1 DEF UnitInv, ProvenanceInv, Guarded, Launched
  <2> QED
    BY <1>1, <2>1
<1>3. ProvenanceInv' /\ Tidy(runs)' /\ SummaryInv'
  BY <1>1, <1>2, ReadingProvenance, TidyStays, SummaryStays DEF UnitInv
<1>4. PICK i \in DOMAIN Units : Due(i) /\ at' = i + 1
  BY DEF GroupError
<1>5. at \in Nat \ {0} /\ DOMAIN Units = 1..Len(Units) /\ Len(Units) \in Nat /\ i \in at..Len(Units)
  BY <1>1, <1>4, MeasuredAssumption DEF UnitInv, LoopInv, Due, Ahead
<1>6. at' \in Nat \ {0} /\ Ahead' \subseteq Ahead
  BY <1>1, <1>4, <1>5 DEF Ahead
<1>7. \A j \in Ahead' : LinesOf(runs, Units[j]) = {}
  BY <1>1, <1>6 DEF UnitInv, LoopInv
<1>8. ~HasJunk(runs) => NoPartials(runs)
  BY <1>1 DEF UnitInv, LoopInv
<1>9. LoopInv'
  BY <1>1, <1>2, <1>6, <1>7, <1>8, WholeStays DEF LoopInv, ResumeCompletes
<1> QED
  BY <1>3, <1>9 DEF UnitInv

(* The loop is over when every unit is behind it. *)
LEMMA FinishUnits ==
  ASSUME UnitInv, Finish
  PROVE  UnitInv'
<1>1. /\ part' = part /\ runs' = runs /\ meta' = Metadata /\ summary' = summary /\ session' = session
      /\ pc = "measuring" /\ pc' = "reading" /\ Ahead = {}
  BY DEF Finish
<1>2. ProvenanceInv' /\ Tidy(runs)'
  BY <1>1, MetadataProvenance, TidyStays DEF UnitInv
<1>3. meta'.changes = session.changes /\ meta' # None
  BY <1>1, <1>2 DEF Metadata, Described, ProvenanceInv, Guarded
<1>4. SummaryInv'
  BY <1>1, <1>3, SummaryStays DEF UnitInv
<1>5. ~session.failed /\ ~HasJunk(runs) => \A unit \in Range(Units) : Whole(runs, unit, session.changes)
  BY <1>1 DEF UnitInv, LoopInv, Range
<1>6. ~HasJunk(runs) => NoPartials(runs)
  BY <1>1 DEF UnitInv, LoopInv
<1>7. LoopInv'
  BY <1>1, <1>5, <1>6, WholeStays DEF LoopInv, ResumeCompletes
<1> QED
  BY <1>2, <1>4, <1>7 DEF UnitInv

(* The summary is of a log in which every line parses and no unit is partial. *)
LEMMA SummariseUnits ==
  ASSUME UnitInv, Summarise
  PROVE  UnitInv'
<1>1. /\ part' = part /\ runs' = runs /\ meta' = meta /\ session' = session
      /\ pc = "reading" /\ pc' = "off" /\ summary' = IF HasJunk(runs) THEN summary ELSE runs.lines
  BY DEF Summarise
<1>2. ProvenanceInv' /\ Tidy(runs)' /\ LoopInv'
  BY <1>1, ReadingProvenance, TidyStays, LoopIsOver DEF UnitInv
<1>3. CASE HasJunk(runs)
  BY <1>1, <1>2, <1>3, SummaryStays DEF UnitInv
<1>4. CASE ~HasJunk(runs)
  <2>1. summary' = runs.lines /\ NoPartials(runs)
    BY <1>1, <1>4 DEF UnitInv, LoopInv
  <2>2. meta # None /\ meta # Junk /\ (part = 2 => meta.changes = session.changes)
    BY <1>1 DEF UnitInv, ProvenanceInv, Guarded, Agrees
  <2>3. PICK K : K = PerUnit(session.changes) /\ K = PerUnit(session.changes)'
    BY <1>1 DEF PerUnit
  <2>4. ASSUME NEW unit \in Range(Units)
        PROVE  LET mine == {i \in DOMAIN runs.lines : runs.lines[i].unit = unit}
               IN mine # {} =>
                    /\ Cardinality(mine) = K
                    /\ {runs.lines[i].arm : i \in mine} = 1..K
                    /\ Cardinality({runs.lines[i].session : i \in mine}) = 1
    <3> DEFINE mine == {i \in DOMAIN runs.lines : runs.lines[i].unit = unit}
    <3>1. mine = LinesOf(runs, unit)
      BY <1>4 DEF LinesOf, HasJunk
    <3> HIDE DEF mine
    <3> SUFFICES ASSUME mine # {}
                 PROVE  /\ Cardinality(mine) = K
                        /\ {runs.lines[i].arm : i \in mine} = 1..K
                        /\ Cardinality({runs.lines[i].session : i \in mine}) = 1
      BY DEF mine
    <3>2. Whole(runs, unit, session.changes)
      BY <2>1, <3>1 DEF NoPartials
    <3>3. Cardinality(mine) = K
      BY <2>3, <3>1, <3>2 DEF Whole
    <3>4. {runs.lines[i].arm : i \in mine} = 1..K
      BY <1>1, <2>3, <3>1, <3>2, WholeNow DEF Arms
    <3>5. PICK i \in mine : TRUE
      OBVIOUS
    <3>6. \A j \in mine : runs.lines[j].session = runs.lines[i].session
      BY <3>1 DEF UnitInv, Tidy, LinesOf
    <3>7. {runs.lines[j].session : j \in mine} = {runs.lines[i].session}
      BY <3>5, <3>6
    <3>8. Cardinality({runs.lines[i].session}) = 1
      BY FS_Singleton
    <3> QED
      BY <3>3, <3>4, <3>7, <3>8
  <2>5. SummaryTrustsWholeUnits'
    <3> DEFINE Trusts(s) ==
                 s # None =>
                   \A unit \in Range(Units) :
                     LET mine == {i \in DOMAIN s : s[i].unit = unit}
                     IN mine # {} =>
                          /\ Cardinality(mine) = K
                          /\ {s[i].arm : i \in mine} = 1..K
                          /\ Cardinality({s[i].session : i \in mine}) = 1
    <3>1. Trusts(runs.lines)
      BY <2>4
    <3>2. Trusts(summary')
      <4> HIDE DEF Trusts
      <4> QED
        BY <2>1, <3>1
    <3> QED
      BY <2>3, <3>2 DEF SummaryTrustsWholeUnits
  <2>6. SummaryInv'
    BY <1>1, <2>2, <2>5 DEF SummaryInv
  <2> QED
    BY <1>2, <2>6 DEF UnitInv
<1> QED
  BY <1>3, <1>4

(* What an append of a unit that is due, cut short or not, makes of the log. *)
LEMMA DueAppends ==
  ASSUME UnitInv, pc = "measuring", NEW i \in DOMAIN Units, Due(i), part' = part,
         runs' = Written(runs, RowsOf(Units[i])) \/ runs' \in Torn(runs, RowsOf(Units[i]))
  PROVE  /\ LinesOf(runs, Units[i]) = {} /\ Len(session.changes) \in Nat
         /\ Appended(runs, RowsOf(Units[i]), runs')
         /\ Tidy(runs)'
<1> DEFINE u == Units[i]
<1>1. LinesOf(runs, u) = {}
  BY DEF UnitInv, LoopInv, Due
<1>2. Len(session.changes) \in Nat /\ Launched /\ part \in {1, 2} /\ Agrees(session, meta)
  BY RowsMatch DEF UnitInv, ProvenanceInv, Guarded
<1>3. PICK S : runs \in Texts(S)
  BY DEF UnitInv, ProvenanceInv, RowsAgree
<1>4. PICK R : RowsOf(u) \in Seq(R)
  BY <1>2, RowsOfAgree
<1> DEFINE U == S \cup R \cup {Junk}
<1>5. runs \in Texts(U) /\ RowsOf(u) \in Seq(U) /\ Junk \in U
  <2>1. runs.lines \in Seq(U)
    BY <1>3 DEF Texts
  <2> QED
    BY <1>3, <1>4, <2>1 DEF Texts
<1> HIDE DEF U
<1>6. runs.open => runs.lines # << >>
  BY DEF UnitInv, Tidy
<1>7. PICK new : new = runs'
  OBVIOUS
<1>8. new \in Texts(U)
  BY <1>5, <1>7, WrittenLines, TornLines
<1>9. Appended(runs, RowsOf(u), new)
  <2>1. CASE new = Written(runs, RowsOf(u))
    <3>1. Len(RowsOf(u)) <= Len(RowsOf(u))
      BY <1>5
    <3> QED
      BY <1>5, <1>6, <2>1, <3>1, WrittenAppends
  <2>2. CASE new \in Torn(runs, RowsOf(u))
    BY <1>5, <1>6, <2>2, TornAppends
  <2> QED
    BY <1>7, <2>1, <2>2
<1>10. u \in Range(Units)
  BY DEF Range
<1>11. Tidy(new)
  BY <1>1, <1>2, <1>8, <1>9, <1>10, AppendTidy DEF UnitInv
<1>12. Tidy(runs)'
  BY <1>7, <1>11 DEF Tidy, PerUnit
<1> QED
  BY <1>1, <1>2, <1>7, <1>9, <1>12

(* The rows of a unit, appended in full where every line parses, make it whole. *)
LEMMA WrittenWhole ==
  ASSUME NEW S, NEW text \in Texts(S), text.open => text.lines # << >>, NEW unit,
         Len(session.changes) \in Nat, LinesOf(text, unit) = {},
         NEW new, new = Written(text, RowsOf(unit)), ~HasJunk(new), NEW R, RowsOf(unit) \in Seq(R)
  PROVE  /\ ~text.open
         /\ Arms(new, unit) = 1..PerUnit(session.changes)
         /\ \A i \in LinesOf(new, unit) : new.lines[i].changes = session.changes
<1> DEFINE K == PerUnit(session.changes)
           rows == RowsOf(unit)
           n == Len(text.lines)
<1>1. K \in Nat /\ K >= 1 /\ DOMAIN rows = 1..K
  BY PerUnitPositive, RowsOfUnit
<1>2. \A k \in 1..K : rows[k].unit = unit /\ rows[k].arm = k /\ rows[k].changes = session.changes
  BY RowsOfUnit
<1>3. rows \in Seq(R) /\ Len(rows) = K /\ rows # << >>
  BY <1>1
<1>4. text.lines \in Seq(S) /\ n \in Nat /\ DOMAIN text.lines = 1..n
  BY DEF Texts
<1> HIDE DEF K, rows
<1>5. ~text.open
  <2> SUFFICES ASSUME text.open PROVE FALSE
    OBVIOUS
  <2> DEFINE f == Front(text.lines)
             t == Tail(rows)
             U == S \cup R \cup {Junk}
  <2>1. n >= 1
    BY <1>4
  <2>2. f \in Seq(U) /\ Len(f) = n - 1
    BY <1>4, <2>1 DEF Front
  <2>3. t \in Seq(U) /\ Len(t) \in Nat
    BY <1>3
  <2>4. new.lines = (f \o <<Junk>>) \o t
    BY <1>3 DEF Written, rows
  <2> HIDE DEF f, t, U
  <2> DEFINE g == f \o <<Junk>>
  <2>5. Junk \in U
    BY DEF U
  <2>6. g \in Seq(U) /\ Len(g) = n /\ g[n] = Junk
    <3> DEFINE e == <<Junk>>
    <3>1. e \in Seq(U) /\ Len(e) = 1 /\ e[1] = Junk
      BY <2>5
    <3> HIDE DEF e
    <3>2. f \o e \in Seq(U) /\ Len(f \o e) = n
      <4>1. \A a, b \in Seq(U) : a \o b \in Seq(U) /\ Len(a \o b) = Len(a) + Len(b)
        BY ConcatProperties
      <4>2. f \o e \in Seq(U) /\ Len(f \o e) = Len(f) + Len(e)
        BY <2>2, <3>1, <4>1
      <4> QED
        BY <1>4, <2>1, <2>2, <3>1, <4>2
    <3>3. n \in 1..(Len(f) + Len(e)) /\ ~(n <= Len(f)) /\ n - Len(f) = 1
      BY <1>4, <2>1, <2>2, <3>1
    <3>4. (f \o e)[n] = e[1]
      BY <2>2, <3>1, <3>3, ConcatProperties
    <3> QED
      BY <3>1, <3>2, <3>4 DEF e
  <2> HIDE DEF g
  <2>7. (g \o t)[n] = Junk /\ n \in DOMAIN (g \o t)
    <3>1. DOMAIN (g \o t) = 1..(Len(g) + Len(t))
      <4>1. g \o t \in Seq(U) /\ Len(g \o t) = Len(g) + Len(t)
        BY <2>3, <2>6, ConcatProperties
      <4> QED
        BY <4>1
    <3>2. n \in 1..(Len(g) + Len(t))
      BY <1>4, <2>1, <2>3, <2>6
    <3>3. (g \o t)[n] = g[n]
      BY <2>3, <2>6, <3>2, ConcatProperties
    <3> QED
      BY <2>6, <3>1, <3>2, <3>3
  <2> QED
    BY <2>4, <2>7 DEF HasJunk, g
<1>6. new.lines = text.lines \o rows
  BY <1>3, <1>5 DEF Written, rows
<1> DEFINE l == text.lines \o rows
<1>7. DOMAIN l = 1..(n + K) /\ \A j \in 1..n : l[j] = text.lines[j]
  BY <1>1, <1>3, <1>4
<1>8. \A k \in 1..K : n + k \in DOMAIN l /\ l[n + k] = rows[k]
  BY <1>1, <1>3, <1>4
<1>9. \A j \in DOMAIN l : j \in 1..n \/ \E k \in 1..K : j = n + k
  <2> HIDE DEF l
  <2> SUFFICES ASSUME NEW j \in DOMAIN l, j \notin 1..n PROVE \E k \in 1..K : j = n + k
    OBVIOUS
  <2>1. j - n \in 1..K /\ j = n + (j - n)
    BY <1>1, <1>4, <1>7
  <2> QED
    BY <2>1
<1> HIDE DEF l
<1>10. \A j \in DOMAIN l : l[j] # Junk
  BY <1>6 DEF HasJunk, l
<1>11. \A j \in 1..n : j \in DOMAIN l /\ l[j].unit # unit
  <2> SUFFICES ASSUME NEW j \in 1..n PROVE j \in DOMAIN l /\ l[j].unit # unit
    OBVIOUS
  <2>1. j \in DOMAIN l
    BY <1>1, <1>4, <1>7
  <2>2. j \notin LinesOf(text, unit) /\ j \in DOMAIN text.lines
    BY <1>4
  <2> QED
    BY <1>7, <1>10, <2>1, <2>2 DEF LinesOf
<1>12. LinesOf(new, unit) = {n + k : k \in 1..K}
  <2>1. LinesOf(new, unit) = {j \in DOMAIN l : l[j].unit = unit}
    BY <1>6, <1>10 DEF LinesOf, l
  <2> QED
    BY <1>2, <1>8, <1>9, <1>11, <2>1
<1>13. new.lines = l
  BY <1>6 DEF l
<1>14. \A k \in 1..K : new.lines[n + k].arm = k /\ new.lines[n + k].changes = session.changes
  BY <1>2, <1>8, <1>13
<1>15. Arms(new, unit) = 1..K
  BY <1>12, <1>14 DEF Arms
<1> QED
  BY <1>5, <1>12, <1>14, <1>15 DEF K

(* The unit that is due is measured: it becomes whole, unless it meets an unfinished line. *)
LEMMA MeasureUnits ==
  ASSUME UnitInv, MeasureUnit
  PROVE  UnitInv'
<1>1. /\ part' = part /\ meta' = meta /\ summary' = summary /\ session' = session /\ done' = done
      /\ pc = "measuring" /\ pc' = "measuring"
  BY DEF MeasureUnit
<1>2. PICK i \in DOMAIN Units : Due(i) /\ runs' = Written(runs, RowsOf(Units[i])) /\ at' = i + 1
  BY DEF MeasureUnit
<1> DEFINE u == Units[i]
<1>3. LinesOf(runs, u) = {} /\ Len(session.changes) \in Nat /\ Appended(runs, RowsOf(u), runs') /\ Tidy(runs)'
  BY <1>1, <1>2, DueAppends
<1>4. ProvenanceInv' /\ SummaryInv'
  BY <1>1, MeasureProvenance, SummaryStays DEF UnitInv
<1>5. PICK new : new = runs'
  OBVIOUS
<1>6. HasJunk(runs) => HasJunk(new)
  BY <1>3, <1>5, AppendJunk
<1>7. ASSUME NEW v, v # u, ~HasJunk(new)
      PROVE  LinesOf(new, v) = LinesOf(runs, v)
  <2>1. runs.open => Len(runs.lines) \notin LinesOf(runs, v)
    <3>1. PICK S : runs \in Texts(S)
      BY DEF UnitInv, ProvenanceInv, RowsAgree
    <3>2. PICK R : RowsOf(u) \in Seq(R)
      BY <1>1, RowsOfAgree DEF UnitInv, ProvenanceInv, Guarded
    <3>3. runs.open => runs.lines # << >>
      BY DEF UnitInv, Tidy
    <3> QED
      BY <1>2, <1>3, <1>5, <1>7, <3>1, <3>2, <3>3, WrittenWhole
  <2> QED
    BY <1>3, <1>5, <1>7, <2>1, AppendOthers
<1>8. ~HasJunk(new) => Whole(new, u, session.changes)
  <2> SUFFICES ASSUME ~HasJunk(new) PROVE Whole(new, u, session.changes)
    OBVIOUS
  <2>1. PICK S : runs \in Texts(S)
    BY DEF UnitInv, ProvenanceInv, RowsAgree
  <2>2. PICK R : RowsOf(u) \in Seq(R)
    BY <1>1, RowsOfAgree DEF UnitInv, ProvenanceInv, Guarded
  <2>3. runs.open => runs.lines # << >>
    BY DEF UnitInv, Tidy
  <2>4. /\ Arms(new, u) = 1..PerUnit(session.changes)
        /\ \A j \in LinesOf(new, u) : new.lines[j].changes = session.changes
    BY <1>2, <1>3, <1>5, <2>1, <2>2, <2>3, WrittenWhole
  <2>5. Tidy(new)
    BY <1>1, <1>3, <1>5 DEF Tidy, PerUnit
  <2> QED
    BY <1>3, <2>4, <2>5, WholeArms
<1>9. \A v : v # u /\ ~HasJunk(new) =>
        (Whole(new, v, session.changes) <=> Whole(runs, v, session.changes))
  BY <1>7 DEF Whole
<1>10. at \in Nat \ {0} /\ DOMAIN Units = 1..Len(Units) /\ Len(Units) \in Nat /\ i \in at..Len(Units)
  BY <1>1, <1>2, MeasuredAssumption DEF UnitInv, LoopInv, Due, Ahead
<1>11. at' \in Nat \ {0} /\ Ahead' \subseteq Ahead \ {i} /\ Ahead \ {i} \subseteq Ahead' /\ i \in Ahead
  BY <1>1, <1>2, <1>10 DEF Ahead, Due
<1>12. ASSUME NEW j \in Ahead' PROVE LinesOf(new, Units[j]) = {}
  <2>1. j \in Ahead /\ j # i /\ j \in DOMAIN Units
    BY <1>10, <1>11 DEF Ahead
  <2>2. Units[j] # u
    BY <2>1, MeasuredAssumption
  <2>3. LinesOf(runs, Units[j]) = {}
    BY <1>1, <2>1 DEF UnitInv, LoopInv
  <2> QED
    BY <1>3, <1>5, <2>2, <2>3, AppendOthers
<1>13. ASSUME ~session.failed, ~HasJunk(new), NEW j \in DOMAIN Units \ Ahead'
       PROVE  Whole(new, Units[j], session.changes)
  <2>1. CASE j = i
    BY <1>8, <1>13, <2>1
  <2>2. CASE j # i
    <3>1. j \notin Ahead
      BY <1>11, <1>13, <2>2
    <3>2. Units[j] # u
      BY <2>2, MeasuredAssumption
    <3>3. Whole(runs, Units[j], session.changes)
      BY <1>1, <1>6, <1>13, <3>1 DEF UnitInv, LoopInv
    <3> QED
      BY <1>9, <1>13, <3>2, <3>3
  <2> QED
    BY <2>1, <2>2
<1>14. ASSUME ~HasJunk(new), NEW v \in Range(Units)
       PROVE  LinesOf(new, v) = {} \/ Whole(new, v, session.changes)
  <2>1. LinesOf(runs, v) = {} \/ Whole(runs, v, session.changes)
    BY <1>1, <1>6, <1>14 DEF UnitInv, LoopInv, NoPartials
  <2> QED
    BY <1>7, <1>8, <1>9, <1>14, <2>1
<1>15. /\ \A v : LinesOf(runs, v)' = LinesOf(new, v)
       /\ HasJunk(runs)' <=> HasJunk(new)
       /\ \A v : Whole(runs, v, session.changes)' <=> Whole(new, v, session.changes)
  BY <1>1, <1>5 DEF LinesOf, HasJunk, Whole, PerUnit
<1>16. LoopInv'
  BY <1>1, <1>11, <1>12, <1>13, <1>14, <1>15 DEF LoopInv, NoPartials, ResumeCompletes
<1> QED
  BY <1>3, <1>4, <1>16 DEF UnitInv

(* A kill inside an append leaves a part of one measurement. *)
LEMMA TornUnits ==
  ASSUME UnitInv, KilledInAppend
  PROVE  UnitInv'
<1>1. /\ part' = part /\ meta' = meta /\ summary' = summary /\ session' = session
      /\ pc = "measuring" /\ pc' = "off"
  BY DEF KilledInAppend, Kill
<1>2. \E i \in DOMAIN Units : Due(i) /\ runs' \in Torn(runs, RowsOf(Units[i]))
  BY DEF KilledInAppend
<1>3. Tidy(runs)'
  BY <1>1, <1>2, DueAppends
<1>4. ProvenanceInv' /\ SummaryInv' /\ LoopInv'
  BY <1>1, KillProvenance, SummaryStays, LoopIsOver DEF UnitInv
<1> QED
  BY <1>3, <1>4 DEF UnitInv

(* The rewritten log holds the rows of the whole units and nothing else. *)
LEMMA Replaced ==
  ASSUME UnitInv, pc # "off", NEW new, new = [lines |-> Surviving, open |-> FALSE]
  PROVE  /\ Tidy(new) /\ ~HasJunk(new)
         /\ \A v : Whole(runs, v, session.changes) =>
              /\ Whole(new, v, session.changes)
              /\ {new.lines[i] : i \in LinesOf(new, v)} = {runs.lines[i] : i \in LinesOf(runs, v)}
         /\ \A v : ~Whole(runs, v, session.changes) => LinesOf(new, v) = {}
<1>1. PICK S : runs \in Texts(S)
  BY DEF UnitInv, ProvenanceInv, RowsAgree
<1>2. runs.lines \in Seq(S) /\ DOMAIN runs.lines = 1..Len(runs.lines)
  BY <1>1 DEF Texts
<1>3. Surviving \in Seq(S) /\ new.lines = Surviving /\ new.open = FALSE
  BY <1>2, SurvivingOrder
<1>4. PICK from \in [1..Len(Surviving) -> 1..Len(runs.lines)] :
        /\ \A i, j \in 1..Len(Surviving) : from[i] = from[j] => i = j
        /\ \A i \in 1..Len(Surviving) : Keep(from[i]) /\ Surviving[i] = runs.lines[from[i]]
        /\ \A n \in 1..Len(runs.lines) : Keep(n) => \E i \in 1..Len(Surviving) : from[i] = n
  BY <1>2, SurvivingOrder
<1>5. DOMAIN new.lines = 1..Len(Surviving)
  BY <1>3
<1>6. ASSUME NEW i \in DOMAIN new.lines
      PROVE  /\ from[i] \in DOMAIN runs.lines /\ new.lines[i] = runs.lines[from[i]] /\ new.lines[i] # Junk
             /\ Whole(runs, new.lines[i].unit, session.changes)
  BY <1>2, <1>3, <1>4, <1>5 DEF Keep
<1>7. \A i, j \in DOMAIN new.lines : from[i] = from[j] => i = j
  BY <1>4, <1>5
<1>8. \A n \in DOMAIN runs.lines : Keep(n) => \E i \in DOMAIN new.lines : from[i] = n
  BY <1>2, <1>4, <1>5
<1>9. Tidy(new)
  <2>1. Tidy(runs)
    BY DEF UnitInv
  <2>2. ASSUME NEW i \in DOMAIN new.lines
        PROVE  /\ new.lines[i].unit \in Range(Units) /\ Len(new.lines[i].changes) \in Nat
               /\ new.lines[i].arm \in 1..PerUnit(new.lines[i].changes)
    BY <1>6, <2>1 DEF Tidy
  <2>3. ASSUME NEW i \in DOMAIN new.lines, NEW j \in DOMAIN new.lines,
               new.lines[i].unit = new.lines[j].unit
        PROVE  /\ new.lines[i].session = new.lines[j].session
               /\ new.lines[i].changes = new.lines[j].changes
               /\ new.lines[i].arm = new.lines[j].arm => i = j
    <3>1. /\ from[i] \in DOMAIN runs.lines /\ new.lines[i] = runs.lines[from[i]] /\ new.lines[i] # Junk
          /\ from[j] \in DOMAIN runs.lines /\ new.lines[j] = runs.lines[from[j]] /\ new.lines[j] # Junk
      BY <1>6
    <3>2. /\ new.lines[i].session = new.lines[j].session
          /\ new.lines[i].changes = new.lines[j].changes
          /\ new.lines[i].arm = new.lines[j].arm => from[i] = from[j]
      BY <2>1, <2>3, <3>1 DEF Tidy
    <3> QED
      BY <1>7, <3>2
  <2> QED
    BY <1>3, <2>2, <2>3 DEF Tidy
<1>10. ~HasJunk(new)
  BY <1>6 DEF HasJunk
<1>11. ASSUME NEW v, ~Whole(runs, v, session.changes)
       PROVE  LinesOf(new, v) = {}
  BY <1>6, <1>11 DEF LinesOf
<1>12. ASSUME NEW v, Whole(runs, v, session.changes)
       PROVE  /\ Whole(new, v, session.changes)
              /\ {new.lines[i] : i \in LinesOf(new, v)} = {runs.lines[i] : i \in LinesOf(runs, v)}
  <2>1. ASSUME NEW i \in LinesOf(new, v)
        PROVE  from[i] \in LinesOf(runs, v) /\ new.lines[i] = runs.lines[from[i]]
    BY <1>6 DEF LinesOf
  <2>2. ASSUME NEW n \in LinesOf(runs, v)
        PROVE  \E i \in LinesOf(new, v) : new.lines[i] = runs.lines[n]
    <3>1. n \in DOMAIN runs.lines /\ runs.lines[n] # Junk /\ runs.lines[n].unit = v
      BY DEF LinesOf
    <3>2. Keep(n)
      BY <1>12, <3>1 DEF Keep
    <3>3. PICK i \in DOMAIN new.lines : from[i] = n
      BY <1>8, <3>1, <3>2
    <3>4. new.lines[i] = runs.lines[n] /\ i \in LinesOf(new, v)
      BY <1>6, <3>1, <3>3 DEF LinesOf
    <3> QED
      BY <3>4
  <2>3. \A i \in LinesOf(new, v) : \E n \in LinesOf(runs, v) : new.lines[i] = runs.lines[n]
    BY <2>1
  <2>4. \A n \in LinesOf(runs, v) : \E i \in LinesOf(new, v) : new.lines[i] = runs.lines[n]
    BY <2>2
  <2> DEFINE N == LinesOf(new, v)
             O == LinesOf(runs, v)
  <2> HIDE DEF N, O
  <2>5. {new.lines[i] : i \in N} = {runs.lines[i] : i \in O}
    <3>1. \A i \in N : \E n \in O : new.lines[i] = runs.lines[n]
      BY <2>3 DEF N, O
    <3>2. \A n \in O : \E i \in N : new.lines[i] = runs.lines[n]
      BY <2>4 DEF N, O
    <3> QED
      BY <3>1, <3>2
  <2>6. {new.lines[i].arm : i \in N} = {runs.lines[i].arm : i \in O}
    <3>1. \A i \in N : \E n \in O : new.lines[i].arm = runs.lines[n].arm
      BY <2>3 DEF N, O
    <3>2. \A n \in O : \E i \in N : new.lines[i].arm = runs.lines[n].arm
      BY <2>4 DEF N, O
    <3> QED
      BY <3>1, <3>2
  <2>7. Arms(new, v) = Arms(runs, v)
    BY <2>6 DEF Arms, N, O
  <2>8. Arms(new, v) = 1..PerUnit(session.changes)
    BY <1>12, <2>7, WholeNow
  <2>9. \A i \in LinesOf(new, v) : PerUnit(new.lines[i].changes) = PerUnit(session.changes)
    <3>1. \A n \in LinesOf(runs, v) : PerUnit(runs.lines[n].changes) = PerUnit(session.changes)
      BY RowsMatch DEF UnitInv, LinesOf
    <3> QED
      BY <2>1, <3>1
  <2>10. Len(session.changes) \in Nat
    BY RowsMatch DEF UnitInv
  <2>11. Whole(new, v, session.changes)
    BY <1>9, <2>8, <2>9, <2>10, WholeArms
  <2> QED
    BY <2>5, <2>11 DEF N, O
<1> QED
  BY <1>9, <1>10, <1>11, <1>12

(* After the rewrite every unit is whole or absent, and the loop skips those that are whole. *)
LEMMA ReplaceUnits ==
  ASSUME UnitInv, ReplaceRuns
  PROVE  UnitInv'
<1>1. /\ part' = part /\ meta' = meta /\ summary' = summary /\ session' = session
      /\ done' = done /\ at' = at /\ pc = "replacing" /\ pc' = "measuring"
  BY DEF ReplaceRuns
<1>2. PICK new : new = [lines |-> Surviving, open |-> FALSE] /\ runs' = new
  BY DEF ReplaceRuns
<1>3. done = WholeUnits /\ at = 1
  BY <1>1 DEF UnitInv, LoopInv
<1>4. /\ Tidy(new) /\ ~HasJunk(new)
      /\ \A v : Whole(runs, v, session.changes) => Whole(new, v, session.changes)
      /\ \A v : ~Whole(runs, v, session.changes) => LinesOf(new, v) = {}
  BY <1>1, <1>2, Replaced
<1>5. ProvenanceInv' /\ SummaryInv'
  BY <1>1, ReplaceProvenance, SummaryStays DEF UnitInv
<1>6. Tidy(runs)'
  BY <1>1, <1>2, <1>4 DEF Tidy, PerUnit
<1>7. /\ \A v : LinesOf(runs, v)' = LinesOf(new, v)
      /\ HasJunk(runs)' <=> HasJunk(new)
      /\ \A v : Whole(runs, v, session.changes)' <=> Whole(new, v, session.changes)
  BY <1>1, <1>2 DEF LinesOf, HasJunk, Whole, PerUnit
<1>8. DOMAIN Units = 1..Len(Units) /\ \A i \in DOMAIN Units : Units[i] \in Range(Units)
  BY MeasuredAssumption DEF Range
<1>9. \A i \in Ahead' : LinesOf(new, Units[i]) = {}
  <2>1. \A i \in Ahead' : i \in DOMAIN Units /\ Units[i] \notin WholeUnits
    BY <1>1, <1>3, <1>8 DEF Ahead
  <2> QED
    BY <1>4, <1>8, <2>1 DEF WholeUnits
<1>10. \A i \in DOMAIN Units \ Ahead' : Whole(new, Units[i], session.changes)
  <2>1. \A i \in DOMAIN Units \ Ahead' : Units[i] \in WholeUnits
    BY <1>1, <1>3, <1>8 DEF Ahead
  <2> QED
    BY <1>4, <2>1 DEF WholeUnits
<1>11. \A v \in Range(Units) : LinesOf(new, v) = {} \/ Whole(new, v, session.changes)
  BY <1>4
<1>12. LoopInv'
  BY <1>1, <1>3, <1>7, <1>9, <1>10, <1>11 DEF LoopInv, NoPartials, ResumeCompletes
<1> QED
  BY <1>5, <1>6, <1>12 DEF UnitInv

(* Every step keeps what is known of the units. *)
LEMMA NextUnits ==
  ASSUME UnitInv, [Next]_measuredVars
  PROVE  UnitInv'
<1>1. CASE UNCHANGED measuredVars
  <2>1. /\ part' = part /\ runs' = runs /\ meta' = meta /\ summary' = summary /\ session' = session
        /\ done' = done /\ at' = at /\ pc' = pc
    BY <1>1 DEF measuredVars
  <2>2. ProvenanceInv' /\ Tidy(runs)' /\ SummaryInv'
    BY <1>1, <2>1, NextProvenance, TidyStays, SummaryStays DEF UnitInv
  <2>3. WholeUnits' = WholeUnits /\ Ahead' = Ahead
    BY <2>1, WholeStays DEF WholeUnits, Ahead
  <2>4. LoopInv'
    BY <2>1, <2>3, WholeStays DEF UnitInv, LoopInv, ResumeCompletes
  <2> QED
    BY <2>2, <2>4 DEF UnitInv
<1>2. CASE Next
  BY <1>2, LaunchUnits, DescribeUnits, LoadUnits1, LoadUnits2, SaveUnits, ReplaceUnits,
     MeasureUnits, ErrorUnits, FinishUnits, SummariseUnits, StoppedUnits, TornUnits DEF Next
<1> QED
  BY <1>1, <1>2

(* The rows that a step leaves of a unit that was whole. *)
LEMMA WholeUnitKept ==
  ASSUME UnitInv, Next, NEW unit, NEW i \in LinesOf(runs, unit),
         Cardinality(LinesOf(runs, unit)) = PerUnit(runs.lines[i].changes),
         runs.open => Len(runs.lines) \notin LinesOf(runs, unit), NEW new, new = runs'
  PROVE  /\ Cardinality(LinesOf(new, unit)) = Cardinality(LinesOf(runs, unit))
         /\ {new.lines[j] : j \in LinesOf(new, unit)} = {runs.lines[j] : j \in LinesOf(runs, unit)}
<1>1. CASE new = runs
  BY <1>1
<1>2. CASE ReplaceRuns
  <2>1. pc # "off" /\ new = [lines |-> Surviving, open |-> FALSE]
    BY <1>2 DEF ReplaceRuns
  <2>2. PerUnit(runs.lines[i].changes) = PerUnit(session.changes)
    BY <2>1, RowsMatch DEF UnitInv, LinesOf
  <2>3. Whole(runs, unit, session.changes)
    BY <2>2 DEF Whole
  <2>4. /\ Whole(new, unit, session.changes)
        /\ {new.lines[j] : j \in LinesOf(new, unit)} = {runs.lines[j] : j \in LinesOf(runs, unit)}
    BY <2>1, <2>3, Replaced
  <2> QED
    BY <2>3, <2>4 DEF Whole
<1>3. CASE MeasureUnit \/ KilledInAppend
  <2>1. PICK k \in DOMAIN Units :
          Due(k) /\ (runs' = Written(runs, RowsOf(Units[k])) \/ runs' \in Torn(runs, RowsOf(Units[k])))
    BY <1>3 DEF MeasureUnit, KilledInAppend
  <2>2. part' = part /\ pc = "measuring"
    BY <1>3 DEF MeasureUnit, KilledInAppend, Kill
  <2>3. /\ LinesOf(runs, Units[k]) = {} /\ Len(session.changes) \in Nat
        /\ Appended(runs, RowsOf(Units[k]), new)
    BY <2>1, <2>2, DueAppends
  <2>4. unit # Units[k]
    BY <2>3
  <2>5. LinesOf(new, unit) = LinesOf(runs, unit) /\ \A j \in LinesOf(new, unit) : new.lines[j] = runs.lines[j]
    BY <2>3, <2>4, AppendOthers
  <2> QED
    BY <2>5
<1>4. runs' = runs \/ ReplaceRuns \/ MeasureUnit \/ KilledInAppend
  BY DEF Next, Launch, WriteMetadata, LoadPart1, LoadDone, SaveBackup, GroupError, Finish, Summarise,
         KilledBetweenSteps, KilledInMetadata, KilledInBackup
<1> QED
  BY <1>1, <1>2, <1>3, <1>4

-----------------------------------------------------------------------------
(* A summary is made of whole units, each the rows of one measurement by one process: for any      *)
(* number of processes, units and changes, and kills anywhere (scripts/run_part2.py, _load_done).   *)
THEOREM SummariesAreOfWholeUnits == Spec => []SummaryTrustsWholeUnits
<1>1. Init => UnitInv
  BY InitUnits
<1>2. UnitInv /\ [Next]_measuredVars => UnitInv'
  BY NextUnits
<1>3. UnitInv => SummaryTrustsWholeUnits
  BY DEF UnitInv, SummaryInv, SummaryTrustsWholeUnits
<1> QED
  BY <1>1, <1>2, <1>3, PTL DEF Spec

(* A process that reaches its summary without a failed group, on a log whose lines all parse, has    *)
(* measured every unit that the log did not hold, and none twice (scripts/run_part1.py and           *)
(* run_part2.py, the loops of main).                                                                 *)
THEOREM ResumesComplete == Spec => []ResumeCompletes
<1>1. Init => UnitInv
  BY InitUnits
<1>2. UnitInv /\ [Next]_measuredVars => UnitInv'
  BY NextUnits
<1>3. UnitInv => ResumeCompletes
  BY DEF UnitInv, LoopInv
<1> QED
  BY <1>1, <1>2, <1>3, PTL DEF Spec

(* No step, kill or rewrite loses a row of a unit that is whole on disk, unless the log ends in that *)
(* unit without a newline (scripts/run_part2.py:54-74, 163).                                         *)
THEOREM WholeUnitsAreKept == Spec => WholeUnitsStay
<1>1. Init => UnitInv
  BY InitUnits
<1>2. UnitInv /\ [Next]_measuredVars => UnitInv'
  BY NextUnits
<1>3. UnitInv /\ [Next]_measuredVars
        => [\A unit \in Range(Units) :
              LET mine == LinesOf(runs, unit)
                  kept == LinesOf(runs', unit)
              IN /\ \E i \in mine : Cardinality(mine) = PerUnit(runs.lines[i].changes)
                 /\ runs.open => Len(runs.lines) \notin mine
                 => /\ Cardinality(kept) = Cardinality(mine)
                    /\ {runs'.lines[i] : i \in kept} = {runs.lines[i] : i \in mine}]_measuredVars
  BY WholeUnitKept
<1> QED
  BY <1>1, <1>2, <1>3, PTL DEF Spec, WholeUnitsStay
=============================================================================
