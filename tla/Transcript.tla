----------------------------- MODULE Transcript -----------------------------
(***************************************************************************)
(* Transcripts and how compaction cuts them (src/src/context_guard.rs).    *)
(*                                                                         *)
(* A message is a record of its role, its own id (for a tool result, the   *)
(* id of the call it answers) and the ids of the calls an assistant        *)
(* message makes.  The system message, always the first, is left out: it   *)
(* takes part in neither the validation nor the cut.                       *)
(***************************************************************************)
EXTENDS Integers, Sequences, SequencesExt, SequenceTheorems, WellFoundedInduction,
        TLAPS

User(id)             == [role |-> "user", id |-> id, calls |-> {}]
Assistant(id, calls) == [role |-> "assistant", id |-> id, calls |-> calls]
ToolResult(call)     == [role |-> "tool", id |-> call, calls |-> {}]

-----------------------------------------------------------------------------
(* validate_transcript *)

\* One message read with the calls still pending; ok turns FALSE for good.
Read(state, m) ==
    CASE m.role = "user"      -> [state EXCEPT !.ok = @ /\ state.pending = {}]
      [] m.role = "assistant" -> [ok      |-> state.ok /\ state.pending = {},
                                  pending |-> m.calls]
      [] m.role = "tool"      -> [ok      |-> state.ok /\ m.id \in state.pending,
                                  pending |-> state.pending \ {m.id}]

Unread == [ok |-> TRUE, pending |-> {}]

Scan(ms) == FoldLeft(Read, Unread, ms)

Valid(ms) == Scan(ms) = Unread

-----------------------------------------------------------------------------
(* Where a transcript may be cut: the first index of every range. *)

TurnStarts(ms) == {i \in 1..Len(ms) : i = 1 \/ ms[i].role = "user"}

\* The results of an assistant's calls belong to its span, up to the last one
\* it waits for.
InSpanOf(ms, a, i) ==
    /\ ms[a].role = "assistant" /\ ms[a].calls # {}
    /\ \A j \in (a + 1)..i : ms[j].role = "tool"
    /\ ms[a].calls \ {ms[j].id : j \in (a + 1)..(i - 1)} # {}
SpanStarts(ms) ==
    {i \in 1..Len(ms) : \A a \in 1..(i - 1) : ~InSpanOf(ms, a, i)}

Least(S) == CHOOSE x \in S : \A y \in S : x <= y
Most(S)  == CHOOSE x \in S : \A y \in S : x >= y

\* Mutant: a last range longer than keep is not cut free of the others.
CutAtFitting(ms, starts, keep) ==
    LET fits == {s \in starts : Len(ms) - s + 1 <= keep}
    IN  IF fits = {} THEN 0 ELSE Least(fits) - 1

\* The number of messages that are cut off, 0 when nothing can be: whole ranges
\* are kept from the end while they fit in keep, the last one in any case.
CutAt(ms, starts, keep) ==
    LET n      == Len(ms)
        fits   == {s \in starts : n - s + 1 <= keep}
        first  == Least(fits \cup {Most(starts)})
        from   == {s \in starts : s >= first /\ ms[s].role # "tool"}
        cut    == IF from = {} THEN n ELSE Least(from) - 1
    IN  IF starts = {} \/ first = 1 \/ ~Valid(SubSeq(ms, cut + 1, n)) THEN 0 ELSE cut

\* Whole turns, then spans inside them when the turns kept are too long.
Cut(ms, keep) ==
    LET turns  == CutAt(ms, TurnStarts(ms), keep)
        recent == SubSeq(ms, turns + 1, Len(ms))
        spans  == CutAt(recent, SpanStarts(recent), keep)
    IN  IF turns # 0 /\ Len(recent) <= keep THEN turns ELSE turns + spans

\* What compaction leaves of the transcript.
Kept(ms, keep) ==
    IF Len(ms) <= keep THEN ms ELSE SubSeq(ms, Cut(ms, keep) + 1, Len(ms))

-----------------------------------------------------------------------------
(* Lemmas about transcripts of any length. *)

\* A set of numbers has a least one.
LEMMA LeastNatural ==
  ASSUME NEW S, S \subseteq Nat, S # {}
  PROVE  \E m \in S : \A k \in S : m <= k
<1> DEFINE R == {ss \in Nat \X Nat : ss[1] < ss[2]}
<1>1. IsWellFoundedOn(R, Nat)
  BY NatLessThanWellFounded DEF OpToRel
<1>2. \E m \in S : \A k \in S : <<k, m>> \notin R
  <2> HIDE DEF R
  <2> QED
    BY <1>1, WFMin
<1>3. PICK m \in S : \A k \in S : <<k, m>> \notin R
  BY <1>2
<1>4. ASSUME NEW k \in S PROVE m <= k
  <2>1. k \in Nat /\ m \in Nat
    OBVIOUS
  <2>2. ~(k < m)
    BY <1>3, <2>1
  <2> QED
    BY <2>1, <2>2
<1> QED
  BY <1>4

\* A bounded set of numbers has a greatest one.
LEMMA GreatestNatural ==
  ASSUME NEW n \in Nat, NEW S \in SUBSET (0..n), S # {}
  PROVE  /\ Max(S) \in S /\ \A k \in S : k <= Max(S)
         /\ Most(S) \in S /\ \A k \in S : k <= Most(S)
<1> DEFINE T == {n - k : k \in S}
<1>1. T \subseteq Nat /\ T # {}
  <2>1. ASSUME NEW k \in S PROVE n - k \in Nat
    <3>1. k \in 0..n
      OBVIOUS
    <3> QED
      BY <3>1
  <2>2. PICK k : k \in S
    OBVIOUS
  <2>3. n - k \in T
    BY <2>2
  <2> QED
    BY <2>1, <2>3
<1>2. PICK t \in T : \A k \in T : t <= k
  <2> HIDE DEF T
  <2> QED
    BY <1>1, LeastNatural
<1>3. PICK m \in S : t = n - m
  OBVIOUS
<1>4. \A k \in S : m >= k
  BY <1>2, <1>3
<1> QED
  BY <1>4 DEF Max, Most

\* FoldLeft is a recursive function on sets of positions: there is one.
ReadsOver(f, ms, n) ==
    f = [s \in SUBSET (1..n) |-> IF s = {} THEN Unread
                                 ELSE Read(f[s \ {Max(s)}], ms[Max(s)])]

LEMMA FoldStep ==
  ASSUME NEW ms, NEW n \in Nat, NEW f, ReadsOver(f, ms, n)
  PROVE  \E g : ReadsOver(g, ms, n + 1)
<1> DEFINE g == [s \in SUBSET (1..(n + 1)) |->
                    IF n + 1 \in s THEN Read(f[s \ {n + 1}], ms[n + 1]) ELSE f[s]]
<1>1. ASSUME NEW s \in SUBSET (1..(n + 1))
      PROVE  g[s] = IF s = {} THEN Unread ELSE Read(g[s \ {Max(s)}], ms[Max(s)])
  <2>1. CASE n + 1 \in s
    <3>1. Max(s) = n + 1
      <4>1. s \in SUBSET (0..(n + 1)) /\ s # {} /\ n + 1 \in Nat
        BY <2>1
      <4>2. Max(s) \in s /\ n + 1 <= Max(s)
        BY <2>1, <4>1, GreatestNatural
      <4>3. Max(s) \in 1..(n + 1)
        BY <4>2
      <4> QED
        BY <4>2, <4>3
    <3>2. s \ {n + 1} \in SUBSET (1..(n + 1)) /\ n + 1 \notin s \ {n + 1}
      OBVIOUS
    <3>3. g[s \ {n + 1}] = f[s \ {n + 1}]
      BY <3>2
    <3> QED
      BY <2>1, <3>1, <3>3
  <2>2. CASE n + 1 \notin s
    <3>1. s \in SUBSET (1..n) /\ g[s] = f[s]
      BY <2>2
    <3>2. CASE s = {}
      BY <3>1, <3>2 DEF ReadsOver
    <3>3. CASE s # {}
      <4>1. f[s] = Read(f[s \ {Max(s)}], ms[Max(s)])
        BY <3>1, <3>3 DEF ReadsOver
      <4>2. s \ {Max(s)} \in SUBSET (1..(n + 1)) /\ n + 1 \notin s \ {Max(s)}
        BY <2>2
      <4>3. g[s \ {Max(s)}] = f[s \ {Max(s)}]
        BY <4>2
      <4> HIDE DEF g
      <4> QED
        BY <3>1, <3>3, <4>1, <4>3
    <3> QED
      BY <3>2, <3>3
  <2> QED
    BY <2>1, <2>2
<1>2. g = [s \in SUBSET (1..(n + 1)) |-> g[s]]
  OBVIOUS
<1> HIDE DEF g
<1>3. g = [s \in SUBSET (1..(n + 1)) |-> IF s = {} THEN Unread ELSE Read(g[s \ {Max(s)}], ms[Max(s)])]
  BY <1>1, <1>2
<1> QED
  BY <1>3 DEF ReadsOver

LEMMA FoldExists ==
  ASSUME NEW ms, NEW n \in Nat
  PROVE  \E f : ReadsOver(f, ms, n)
<1> DEFINE S == {k \in Nat : ~\E f : ReadsOver(f, ms, k)}
<1> SUFFICES ASSUME S # {} PROVE FALSE
  OBVIOUS
<1>1. PICK k \in S : \A j \in S : k <= j
  <2>1. S \subseteq Nat
    OBVIOUS
  <2> HIDE DEF S
  <2> QED
    BY <2>1, LeastNatural
<1>2. k \in Nat /\ ~\E f : ReadsOver(f, ms, k)
  OBVIOUS
<1>3. CASE k = 0
  <2> DEFINE f == [s \in SUBSET (1..0) |-> Unread]
  <2>1. f = [s \in SUBSET (1..0) |-> IF s = {} THEN Unread ELSE Read(f[s \ {Max(s)}], ms[Max(s)])]
    <3>1. \A s \in SUBSET (1..0) : s = {}
      OBVIOUS
    <3> QED
      BY <3>1
  <2> QED
    BY <1>2, <1>3, <2>1 DEF ReadsOver
<1>4. CASE k # 0
  <2>1. k - 1 \in Nat /\ (k - 1) + 1 = k
    BY <1>2, <1>4
  <2>2. k - 1 \notin S
    BY <1>1, <2>1
  <2>3. PICK f : ReadsOver(f, ms, k - 1)
    BY <2>1, <2>2
  <2>4. \E g : ReadsOver(g, ms, (k - 1) + 1)
    BY <2>1, <2>3, FoldStep
  <2> QED
    BY <1>2, <2>1, <2>4
<1> QED
  BY <1>3, <1>4

LEMMA ScanIsFold ==
  ASSUME NEW S, NEW ms \in Seq(S)
  PROVE  \E f : ReadsOver(f, ms, Len(ms)) /\ Scan(ms) = f[1..Len(ms)]
<1> DEFINE f == CHOOSE f : ReadsOver(f, ms, Len(ms))
<1>1. Len(ms) \in Nat /\ DOMAIN ms = 1..Len(ms)
  OBVIOUS
<1>2. ReadsOver(f, ms, Len(ms))
  BY <1>1, FoldExists
<1>3. Scan(ms) = f[1..Len(ms)]
  BY <1>1 DEF Scan, FoldLeft, MapThenFoldSet, ReadsOver
<1> QED
  BY <1>2, <1>3

\* Two transcripts whose first messages are read alike.
ReadAlike(ms, ns, l) == \A i \in 1..l : \A state : Read(state, ms[i]) = Read(state, ns[i])

\* Up to there they leave the same behind.
LEMMA SameFold ==
  ASSUME NEW ms, NEW ns, NEW m \in Nat, NEW n \in Nat, NEW f, ReadsOver(f, ms, m),
         NEW g, ReadsOver(g, ns, n), NEW l \in Nat, l <= m, l <= n,
         ReadAlike(ms, ns, l)
  PROVE  f[1..l] = g[1..l]
<1> DEFINE S == {k \in 0..l : f[1..k] # g[1..k]}
<1> SUFFICES ASSUME S # {} PROVE FALSE
  BY l \in 0..l
<1>1. PICK k \in S : \A j \in S : k <= j
  <2>1. S \subseteq Nat
    OBVIOUS
  <2> HIDE DEF S
  <2> QED
    BY <2>1, LeastNatural
<1>2. k \in 0..l /\ f[1..k] # g[1..k]
  OBVIOUS
<1>3. CASE k = 0
  <2>1. 1..k = {} /\ {} \in SUBSET (1..m) /\ {} \in SUBSET (1..n)
    BY <1>3
  <2>2. f[{}] = Unread /\ g[{}] = Unread
    BY <2>1 DEF ReadsOver
  <2> QED
    BY <1>2, <2>1, <2>2
<1>4. CASE k # 0
  <2>1. k - 1 \in 0..l /\ k \in 1..l
    BY <1>2, <1>4
  <2>2. f[1..(k - 1)] = g[1..(k - 1)]
    <3>1. k - 1 \notin S
      BY <1>1, <2>1
    <3> QED
      BY <2>1, <3>1
  <2>3. Max(1..k) = k
    <3>1. 1..k \in SUBSET (0..k) /\ k \in Nat /\ k \in 1..k
      BY <2>1
    <3>2. Max(1..k) \in 1..k /\ k <= Max(1..k)
      BY <3>1, GreatestNatural
    <3> QED
      BY <3>1, <3>2
  <2>4. (1..k) \ {k} = 1..(k - 1) /\ 1..k # {}
    <3>1. k \in Nat /\ k >= 1
      BY <2>1
    <3> HIDE DEF S
    <3>2. \A i : i \in (1..k) \ {k} <=> i \in 1..(k - 1)
      BY <3>1
    <3> QED
      BY <3>1, <3>2
  <2>5. f[1..k] = Read(f[1..(k - 1)], ms[k])
    <3>1. 1..k \in SUBSET (1..m)
      BY <2>1
    <3>2. \A s \in SUBSET (1..m) :
             f[s] = IF s = {} THEN Unread ELSE Read(f[s \ {Max(s)}], ms[Max(s)])
      BY DEF ReadsOver
    <3>3. f[1..k] = Read(f[(1..k) \ {Max(1..k)}], ms[Max(1..k)])
      BY <2>4, <3>1, <3>2
    <3> QED
      BY <2>3, <2>4, <3>3
  <2>6. g[1..k] = Read(g[1..(k - 1)], ns[k])
    <3>1. 1..k \in SUBSET (1..n)
      BY <2>1
    <3>2. \A s \in SUBSET (1..n) :
             g[s] = IF s = {} THEN Unread ELSE Read(g[s \ {Max(s)}], ns[Max(s)])
      BY DEF ReadsOver
    <3>3. g[1..k] = Read(g[(1..k) \ {Max(1..k)}], ns[Max(1..k)])
      BY <2>4, <3>1, <3>2
    <3> QED
      BY <2>3, <2>4, <3>3
  <2>7. Read(f[1..(k - 1)], ms[k]) = Read(f[1..(k - 1)], ns[k])
    BY <2>1 DEF ReadAlike
  <2> QED
    BY <1>2, <2>2, <2>5, <2>6, <2>7
<1> QED
  BY <1>3, <1>4

\* So what a transcript is read as depends on how its messages are read only.
LEMMA ScanAlike ==
  ASSUME NEW S, NEW ms \in Seq(S), NEW ns \in Seq(S), Len(ms) = Len(ns),
         ReadAlike(ms, ns, Len(ms))
  PROVE  Scan(ms) = Scan(ns) /\ (Valid(ms) <=> Valid(ns))
<1>1. PICK f : ReadsOver(f, ms, Len(ms)) /\ Scan(ms) = f[1..Len(ms)]
  BY ScanIsFold
<1>2. PICK g : ReadsOver(g, ns, Len(ns)) /\ Scan(ns) = g[1..Len(ns)]
  BY ScanIsFold
<1>3. PICK l \in Nat : l = Len(ms)
  OBVIOUS
<1>4. f[1..l] = g[1..l]
  BY <1>1, <1>2, <1>3, SameFold
<1> QED
  BY <1>1, <1>2, <1>3, <1>4 DEF Valid

LEMMA ScanOfNone == Scan(<< >>) = Unread /\ Valid(<< >>)
<1>1. << >> \in Seq({}) /\ Len(<< >>) = 0
  OBVIOUS
<1>2. PICK f : ReadsOver(f, << >>, 0) /\ Scan(<< >>) = f[1..0]
  BY <1>1, ScanIsFold
<1>3. 1..0 = {} /\ {} \in SUBSET (1..0)
  OBVIOUS
<1> QED
  BY <1>2, <1>3 DEF ReadsOver, Valid

\* A message more is one more read.
LEMMA ScanOfMore ==
  ASSUME NEW S, NEW ms \in Seq(S), NEW m \in S
  PROVE  Scan(Append(ms, m)) = Read(Scan(ms), m)
<1> DEFINE ns == Append(ms, m)
<1>1. /\ ns \in Seq(S) /\ Len(ns) = Len(ms) + 1 /\ Len(ms) \in Nat
      /\ \A i \in 1..Len(ms) : ns[i] = ms[i]
      /\ ns[Len(ms) + 1] = m
  OBVIOUS
<1> HIDE DEF ns
<1>2. PICK l \in Nat : l = Len(ms)
  BY <1>1
<1>3. PICK f : ReadsOver(f, ms, l) /\ Scan(ms) = f[1..l]
  BY <1>2, ScanIsFold
<1>4. PICK g : ReadsOver(g, ns, l + 1) /\ Scan(ns) = g[1..(l + 1)]
  BY <1>1, <1>2, ScanIsFold
<1>5. f[1..l] = g[1..l]
  <2>1. ReadAlike(ms, ns, l)
    BY <1>1, <1>2 DEF ReadAlike
  <2>2. l + 1 \in Nat /\ l <= l + 1 /\ l <= l
    OBVIOUS
  <2> QED
    BY <1>3, <1>4, <2>1, <2>2, SameFold
<1>6. Max(1..(l + 1)) = l + 1
  <2>1. 1..(l + 1) \in SUBSET (0..(l + 1)) /\ l + 1 \in Nat /\ l + 1 \in 1..(l + 1)
    OBVIOUS
  <2>2. Max(1..(l + 1)) \in 1..(l + 1) /\ l + 1 <= Max(1..(l + 1))
    BY <2>1, GreatestNatural
  <2> QED
    BY <2>2
<1>7. (1..(l + 1)) \ {l + 1} = 1..l /\ 1..(l + 1) # {} /\ 1..(l + 1) \in SUBSET (1..(l + 1))
  <2>1. \A i : i \in (1..(l + 1)) \ {l + 1} <=> i \in 1..l
    OBVIOUS
  <2>2. l + 1 \in 1..(l + 1)
    OBVIOUS
  <2> QED
    BY <2>1, <2>2
<1>8. g[1..(l + 1)] = Read(g[1..l], ns[l + 1])
  <2>1. \A s \in SUBSET (1..(l + 1)) :
           g[s] = IF s = {} THEN Unread ELSE Read(g[s \ {Max(s)}], ns[Max(s)])
    BY <1>4 DEF ReadsOver
  <2>2. g[1..(l + 1)] = Read(g[(1..(l + 1)) \ {Max(1..(l + 1))}], ns[Max(1..(l + 1))])
    BY <1>7, <2>1
  <2> QED
    BY <1>6, <1>7, <2>2
<1> QED
  BY <1>1, <1>2, <1>3, <1>4, <1>5, <1>8 DEF ns

\* The least of a set of numbers is one of them.
LEMMA LeastIsOne ==
  ASSUME NEW S, S \subseteq Nat, S # {}
  PROVE  Least(S) \in S /\ \A k \in S : Least(S) <= k
  BY LeastNatural DEF Least

\* A transcript is cut at one of its messages, if at all, and then what is left is valid.
LEMMA CutWithin ==
  ASSUME NEW S, NEW ms \in Seq(S), NEW starts, starts \subseteq 1..Len(ms), NEW keep
  PROVE  LET c == CutAt(ms, starts, keep) IN
         c \in 0..Len(ms) /\ (c # 0 => Valid(SubSeq(ms, c + 1, Len(ms))))
<1> DEFINE n     == Len(ms)
           fits  == {s \in starts : n - s + 1 <= keep}
           first == Least(fits \cup {Most(starts)})
           from  == {s \in starts : s >= first /\ ms[s].role # "tool"}
           cut   == IF from = {} THEN n ELSE Least(from) - 1
<1>1. n \in Nat
  OBVIOUS
<1>2. from \subseteq 1..n
  OBVIOUS
<1>3. cut \in 0..n
  <2> HIDE DEF from, n, fits, first
  <2>1. CASE from = {}
    BY <1>1, <2>1
  <2>2. CASE from # {}
    <3>0. from \subseteq Nat
      BY <1>1, <1>2
    <3>1. Least(from) \in from
      BY <2>2, <3>0, LeastIsOne
    <3>2. Least(from) \in 1..n
      BY <1>2, <3>1
    <3> QED
      BY <1>1, <2>2, <3>2
  <2> QED
    BY <2>1, <2>2
<1>4. \/ CutAt(ms, starts, keep) = 0
      \/ CutAt(ms, starts, keep) = cut /\ Valid(SubSeq(ms, cut + 1, n))
  BY DEF CutAt
<1> HIDE DEF cut, n
<1>5. 0 \in 0..n
  BY <1>1
<1> QED
  BY <1>3, <1>4, <1>5 DEF n

\* The end of the end of a sequence.
LEMMA EndOfEnd ==
  ASSUME NEW S, NEW ms \in Seq(S), NEW a \in 0..Len(ms), NEW b \in 0..(Len(ms) - a)
  PROVE  LET end == SubSeq(ms, a + 1, Len(ms)) IN
         /\ end \in Seq(S) /\ Len(end) = Len(ms) - a
         /\ SubSeq(end, b + 1, Len(end)) = SubSeq(ms, a + b + 1, Len(ms))
<1> DEFINE end  == SubSeq(ms, a + 1, Len(ms))
           one  == SubSeq(end, b + 1, Len(end))
           both == SubSeq(ms, a + b + 1, Len(ms))
<1>1. end \in Seq(S) /\ Len(end) = Len(ms) - a /\ \A i \in 1..(Len(ms) - a) : end[i] = ms[i + a]
  OBVIOUS
<1>2. both \in Seq(S) /\ Len(both) = Len(ms) - (a + b)
      /\ \A i \in 1..(Len(ms) - (a + b)) : both[i] = ms[i + (a + b)]
  OBVIOUS
<1> HIDE DEF end
<1>3. one \in Seq(S) /\ Len(one) = Len(end) - b /\ \A i \in 1..(Len(end) - b) : one[i] = end[i + b]
  BY <1>1
<1> HIDE DEF one, both
<1>4. Len(one) = Len(both)
  BY <1>1, <1>2, <1>3
<1>5. ASSUME NEW i \in 1..Len(both) PROVE one[i] = both[i]
  <2>1. one[i] = end[i + b] /\ i + b \in 1..(Len(ms) - a) /\ both[i] = ms[i + (a + b)]
    BY <1>1, <1>2, <1>3
  <2>2. end[i + b] = ms[(i + b) + a] /\ (i + b) + a = i + (a + b)
    BY <1>1, <2>1
  <2> QED
    BY <2>1, <2>2
<1>6. one = both
  BY <1>2, <1>3, <1>4, <1>5, SeqEqual
<1> QED
  BY <1>1, <1>6 DEF end, one, both

\* What compaction keeps is the end of the transcript, and of a valid one it is valid.
LEMMA KeptIsEnd ==
  ASSUME NEW S, NEW ms \in Seq(S), NEW keep
  PROVE  \E c \in 0..Len(ms) : /\ Kept(ms, keep) = SubSeq(ms, c + 1, Len(ms))
                               /\ Valid(ms) => Valid(Kept(ms, keep))
<1> DEFINE whole  == CutAt(ms, TurnStarts(ms), keep)
           recent == SubSeq(ms, whole + 1, Len(ms))
           spans  == CutAt(recent, SpanStarts(recent), keep)
<1>0. Len(ms) \in Nat /\ SubSeq(ms, 1, Len(ms)) = ms /\ SubSeq(ms, 0 + 1, Len(ms)) = ms
  OBVIOUS
<1>1. whole \in 0..Len(ms) /\ (whole # 0 => Valid(recent))
  <2>1. TurnStarts(ms) \subseteq 1..Len(ms)
    BY DEF TurnStarts
  <2> QED
    BY <2>1, CutWithin
<1>2. recent \in Seq(S) /\ Len(recent) = Len(ms) - whole
  <2> HIDE DEF whole
  <2> QED
    BY <1>1
<1>3. spans \in 0..Len(recent) /\ (spans # 0 => Valid(SubSeq(recent, spans + 1, Len(recent))))
  <2> HIDE DEF recent
  <2>1. SpanStarts(recent) \subseteq 1..Len(recent)
    BY DEF SpanStarts
  <2> QED
    BY <1>2, <2>1, CutWithin
<1>4. \/ Cut(ms, keep) = whole /\ whole # 0
      \/ Cut(ms, keep) = whole + spans
  BY DEF Cut
<1> HIDE DEF spans, whole
<1>5. SubSeq(recent, spans + 1, Len(recent)) = SubSeq(ms, whole + spans + 1, Len(ms))
  BY <1>1, <1>2, <1>3, EndOfEnd
<1>6. ASSUME Valid(ms) PROVE Valid(SubSeq(ms, Cut(ms, keep) + 1, Len(ms)))
  <2>1. CASE Cut(ms, keep) = whole /\ whole # 0
    BY <1>1, <2>1
  <2>2. CASE Cut(ms, keep) = whole + spans /\ spans # 0
    BY <1>3, <1>5, <2>2
  <2>3. CASE Cut(ms, keep) = whole + spans /\ spans = 0
    <3>1. Cut(ms, keep) = whole
      BY <1>1, <2>3
    <3> QED
      BY <1>0, <1>1, <1>6, <3>1
  <2> QED
    BY <1>4, <2>1, <2>2, <2>3
<1>7. Cut(ms, keep) \in 0..Len(ms)
  <2> HIDE DEF recent
  <2> QED
    BY <1>0, <1>1, <1>2, <1>3, <1>4
<1>8. CASE Len(ms) <= keep
  <2>1. Kept(ms, keep) = ms /\ 0 \in 0..Len(ms)
    BY <1>0, <1>8 DEF Kept
  <2> QED
    BY <1>0, <2>1
<1>9. CASE ~(Len(ms) <= keep)
  BY <1>6, <1>7, <1>9 DEF Kept
<1> QED
  BY <1>8, <1>9
=============================================================================
