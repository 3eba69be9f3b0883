-------------------------- MODULE LearnQueueProofs --------------------------
(***************************************************************************)
(* Proofs about LearnQueue: no teaching of a grep is lost without a cause  *)
(* or applied twice, for any number of greps, patterns, stops, crashes,    *)
(* failures and lines.                                                     *)
(*                                                                         *)
(* A teaching is in one line of one file (`EachInOnePlace'), so that what  *)
(* a drain takes is not left behind to be taken again; and it may be in    *)
(* the rotated file and in the batch at once only until that file is       *)
(* unlinked. What a drain applies is not the file but `Coalesce' of it.    *)
(* `MergeIs' says what adding one line to the merged records does, and     *)
(* `MergesExist' carries it over the whole file, by the least line at      *)
(* which it would fail.                                                    *)
(***************************************************************************)
EXTENDS LearnQueue, WellFoundedInduction, TLAPS

-----------------------------------------------------------------------------
(* Files *)

Apart(file) == \A i, j \in DOMAIN file : i # j => file[i].of \cap file[j].of = {}

LEMMA TeachingsInIs ==
  ASSUME NEW file, NEW g
  PROVE  g \in TeachingsIn(file) <=> \E i \in DOMAIN file : g \in file[i].of
  BY DEF TeachingsIn

LEMMA NoTeachings == TeachingsIn(<<>>) = {} /\ Apart(<<>>)
  BY DEF TeachingsIn, Apart

LEMMA AppendIs ==
  ASSUME NEW file \in Seq(Record), NEW line \in Record
  PROVE  /\ Append(file, line) \in Seq(Record)
         /\ TeachingsIn(Append(file, line)) = TeachingsIn(file) \cup line.of
         /\ Apart(file) /\ line.of \cap TeachingsIn(file) = {} => Apart(Append(file, line))
  <1> DEFINE after == Append(file, line)
             n == Len(file) + 1
  <1>1. /\ after \in Seq(Record) /\ Len(file) \in Nat /\ DOMAIN file = 1..Len(file)
        /\ DOMAIN after = 1..n /\ after[n] = line
        /\ \A i \in 1..Len(file) : after[i] = file[i]
    OBVIOUS
  <1>2. DOMAIN after = DOMAIN file \cup {n} /\ n \notin DOMAIN file
    BY <1>1
  <1>3. \A i \in DOMAIN file : after[i] = file[i]
    BY <1>1
  <1> HIDE DEF after, n
  <1>4. TeachingsIn(after) = TeachingsIn(file) \cup line.of
    <2>1. \A g : g \in TeachingsIn(after) <=> g \in line.of \/ \E i \in DOMAIN file : g \in file[i].of
      BY <1>1, <1>2, <1>3, TeachingsInIs
    <2>2. \A g : g \in TeachingsIn(after) <=> g \in line.of \/ g \in TeachingsIn(file)
      BY <2>1, TeachingsInIs
    <2> QED BY <2>2
  <1>5. ASSUME Apart(file), line.of \cap TeachingsIn(file) = {} PROVE Apart(after)
    <2> SUFFICES ASSUME NEW i \in DOMAIN after, NEW j \in DOMAIN after, i # j
                 PROVE  after[i].of \cap after[j].of = {}
      BY DEF Apart
    <2>1. \A k \in DOMAIN file : line.of \cap file[k].of = {}
      BY <1>5, TeachingsInIs
    <2>2. CASE i \in DOMAIN file /\ j \in DOMAIN file
      BY <1>3, <1>5, <2>2 DEF Apart
    <2>3. CASE i = n \/ j = n
      BY <1>1, <1>2, <1>3, <2>1, <2>3
    <2> QED BY <1>2, <2>2, <2>3
  <1> QED BY <1>1, <1>4, <1>5 DEF after

LEMMA TailIs ==
  ASSUME NEW file \in Seq(Record), file # <<>>
  PROVE  /\ Head(file) \in Record /\ Tail(file) \in Seq(Record)
         /\ TeachingsIn(file) = Head(file).of \cup TeachingsIn(Tail(file))
         /\ Apart(file) => Apart(Tail(file)) /\ Head(file).of \cap TeachingsIn(Tail(file)) = {}
  <1> DEFINE rest == Tail(file)
  <1>1. /\ Head(file) = file[1] /\ file[1] \in Record /\ rest \in Seq(Record)
        /\ Len(file) \in Nat /\ Len(file) >= 1 /\ DOMAIN file = 1..Len(file)
        /\ DOMAIN rest = 1..(Len(file) - 1)
        /\ \A i \in 1..(Len(file) - 1) : rest[i] = file[i + 1]
    <2>1. Len(file) \in Nat /\ Len(file) # 0
      OBVIOUS
    <2> QED BY <2>1
  <1>2. \A i \in DOMAIN rest : rest[i] = file[i + 1] /\ i + 1 \in DOMAIN file /\ i + 1 # 1 /\ i \in Nat
    BY <1>1
  <1>3. \A j \in DOMAIN file : j = 1 \/ (j - 1 \in DOMAIN rest /\ rest[j - 1] = file[j])
    BY <1>1
  <1>4. 1 \in DOMAIN file
    BY <1>1
  <1> HIDE DEF rest
  <1>5. TeachingsIn(file) = file[1].of \cup TeachingsIn(rest)
    BY <1>2, <1>3, <1>4, TeachingsInIs
  <1>6. ASSUME Apart(file) PROVE Apart(rest) /\ file[1].of \cap TeachingsIn(rest) = {}
    <2>1. ASSUME NEW i \in DOMAIN rest, NEW j \in DOMAIN rest, i # j
          PROVE  rest[i].of \cap rest[j].of = {}
      <3>1. i + 1 # j + 1
        BY <1>2, <2>1
      <3> QED BY <1>2, <1>6, <3>1 DEF Apart
    <2>2. \A i \in DOMAIN rest : file[1].of \cap rest[i].of = {}
      BY <1>2, <1>4, <1>6 DEF Apart
    <2> QED BY <2>1, <2>2, TeachingsInIs DEF Apart
  <1> QED BY <1>1, <1>5, <1>6 DEF rest

LEMMA NewestIs ==
  ASSUME NEW file \in Seq(Record)
  PROVE  /\ Newest(file) \in Seq(Record)
         /\ TeachingsIn(Newest(file)) \subseteq TeachingsIn(file)
         /\ Apart(file) => Apart(Newest(file))
  <1> DEFINE m == IF Len(file) > MaxLines THEN Len(file) - MaxLines + 1 ELSE 1
             last == SubSeq(file, m, Len(file))
  <1>1. Len(file) \in Nat /\ m \in 1..(Len(file) + 1) /\ m \in Nat
    BY BoundAssumption
  <1> HIDE DEF m
  <1>2. /\ last \in Seq(Record) /\ DOMAIN last = 1..(Len(file) - m + 1)
        /\ \A i \in 1..(Len(file) - m + 1) : last[i] = file[m + i - 1]
        /\ DOMAIN file = 1..Len(file)
    BY <1>1
  <1> HIDE DEF last
  <1>3. \A i \in DOMAIN last : i \in Nat /\ last[i] = file[m + i - 1] /\ m + i - 1 \in DOMAIN file
    BY <1>1, <1>2
  <1>4. TeachingsIn(last) \subseteq TeachingsIn(file)
    BY <1>3, TeachingsInIs
  <1>5. ASSUME Apart(file), NEW i \in DOMAIN last, NEW j \in DOMAIN last, i # j
        PROVE  last[i].of \cap last[j].of = {}
    <2>1. m + i - 1 # m + j - 1
      BY <1>1, <1>3, <1>5
    <2> QED BY <1>3, <1>5, <2>1 DEF Apart
  <1>6. Apart(file) => Apart(last)
    BY <1>5 DEF Apart
  <1>7. Newest(file) = last
    BY DEF Newest, last, m
  <1> QED BY <1>2, <1>4, <1>6, <1>7

-----------------------------------------------------------------------------
(* One entry per pattern *)

LEMMA LeastIs ==
  ASSUME NEW S, S \subseteq Nat, S # {}
  PROVE  \E n \in S : \A m \in S : n <= m
  <1>1. PICK n \in S : \A m \in S : ~ (<<m, n>> \in OpToRel(<, Nat))
    BY WFMin, NatLessThanWellFounded
  <1>2. ASSUME NEW m \in S, ~ (n <= m) PROVE FALSE
    <2>1. <<m, n>> \in Nat \X Nat /\ m < n
      BY <1>2
    <2>2. <<m, n>> \in OpToRel(<, Nat)
      BY <2>1 DEF OpToRel
    <2> QED BY <1>1, <2>2
  <1> QED BY <1>2

OnePerPattern(entries) == \A i, j \in DOMAIN entries : entries[i].pat = entries[j].pat => i = j

LEMMA MergeIs ==
  ASSUME NEW entries \in Seq(Record), NEW line \in Record, OnePerPattern(entries)
  PROVE  /\ Merge(entries, line) \in Seq(Record)
         /\ OnePerPattern(Merge(entries, line))
         /\ TeachingsIn(Merge(entries, line)) = TeachingsIn(entries) \cup line.of
         /\ Apart(entries) /\ line.of \cap TeachingsIn(entries) = {} => Apart(Merge(entries, line))
  <1> DEFINE same == {i \in DOMAIN entries : entries[i].pat = line.pat}
  <1>1. CASE same = {}
    <2> DEFINE after == Append(entries, line)
    <2>1. Merge(entries, line) = after
      BY <1>1 DEF Merge
    <2>2. /\ DOMAIN after = DOMAIN entries \cup {Len(entries) + 1}
          /\ after[Len(entries) + 1] = line
          /\ \A i \in DOMAIN entries : after[i] = entries[i]
      <3>1. Len(entries) \in Nat /\ DOMAIN entries = 1..Len(entries)
        OBVIOUS
      <3>2. /\ DOMAIN after = 1..(Len(entries) + 1) /\ after[Len(entries) + 1] = line
            /\ \A i \in 1..Len(entries) : after[i] = entries[i]
        OBVIOUS
      <3> HIDE DEF after
      <3> QED BY <3>1, <3>2
    <2> HIDE DEF after
    <2>3. OnePerPattern(after)
      BY <1>1, <2>2 DEF OnePerPattern
    <2> QED BY <2>1, <2>3, AppendIs DEF after
  <1>2. CASE same # {}
    <2> DEFINE after == [i \in DOMAIN entries |->
                           IF i \in same THEN [line EXCEPT !.of = @ \cup entries[i].of]
                           ELSE entries[i]]
    <2>1. Merge(entries, line) = after
      BY <1>2 DEF Merge
    <2>2. PICK k \in DOMAIN entries : entries[k].pat = line.pat
      BY <1>2
    <2>3. \A i \in DOMAIN entries : i \in same <=> i = k
      BY <2>2 DEF OnePerPattern
    <2>4. /\ DOMAIN after = DOMAIN entries
          /\ \A i \in DOMAIN entries : i # k => after[i] = entries[i]
          /\ after[k] = [line EXCEPT !.of = @ \cup entries[k].of]
      BY <2>2, <2>3
    <2>5. /\ \A i \in DOMAIN entries : entries[i] \in Record
          /\ Len(entries) \in Nat /\ DOMAIN entries = 1..Len(entries)
      OBVIOUS
    <2>6. /\ after[k] \in Record /\ after[k].pat = line.pat
          /\ after[k].of = line.of \cup entries[k].of
      BY <2>4, <2>5 DEF Record
    <2>7. after \in Seq(Record)
      <3>1. \A i \in DOMAIN entries : after[i] \in Record
        BY <2>4, <2>5, <2>6
      <3>2. after \in [1..Len(entries) -> Record]
        BY <2>5, <3>1
      <3> HIDE DEF after
      <3> QED BY <2>5, <3>2
    <2> HIDE DEF after, same
    <2>8. OnePerPattern(after)
      BY <2>2, <2>4, <2>6 DEF OnePerPattern
    <2>9. TeachingsIn(after) = TeachingsIn(entries) \cup line.of
      <3>1. ASSUME NEW g PROVE g \in TeachingsIn(after) <=> g \in TeachingsIn(entries) \cup line.of
        <4>1. g \in TeachingsIn(after) <=> \E i \in DOMAIN entries : g \in after[i].of
          BY <2>4, TeachingsInIs
        <4>2. \A i \in DOMAIN entries : g \in after[i].of =>
                g \in line.of \/ \E j \in DOMAIN entries : g \in entries[j].of
          BY <2>4, <2>6
        <4>3. \A i \in DOMAIN entries : g \in entries[i].of => g \in after[i].of
          BY <2>4, <2>6
        <4>4. g \in line.of => g \in after[k].of
          BY <2>6
        <4> QED BY <2>2, <4>1, <4>2, <4>3, <4>4, TeachingsInIs
      <3> QED BY <3>1
    <2>10. ASSUME Apart(entries), line.of \cap TeachingsIn(entries) = {},
                  NEW i \in DOMAIN entries, NEW j \in DOMAIN entries, i # j
           PROVE  after[i].of \cap after[j].of = {}
      <3>1. entries[i].of \cap entries[j].of = {}
        BY <2>10 DEF Apart
      <3>2. line.of \cap entries[i].of = {} /\ line.of \cap entries[j].of = {}
        BY <2>10, TeachingsInIs
      <3> QED BY <2>4, <2>6, <2>10, <3>1, <3>2
    <2>11. Apart(entries) /\ line.of \cap TeachingsIn(entries) = {} => Apart(after)
      BY <2>4, <2>10 DEF Apart
    <2> QED BY <2>1, <2>7, <2>8, <2>9, <2>11
  <1> QED BY <1>1, <1>2

\* The entries after each line of a file.
Merges(f, s, n) ==
  f = [m \in 0..n |-> IF m = 0 THEN <<>> ELSE Merge(f[m - 1], s[m])]

LEMMA MergesExist ==
  ASSUME NEW s \in Seq(Record), NEW n \in Nat
  PROVE  \E f : Merges(f, s, n)
  <1> DEFINE S == {k \in Nat : ~ \E f : Merges(f, s, k)}
  <1> SUFFICES ASSUME S # {} PROVE FALSE
    OBVIOUS
  <1>1. PICK k \in S : \A m \in S : k <= m
    BY LeastIs
  <1>2. k # 0
    <2>1. Merges([m \in 0..0 |-> <<>>], s, 0)
      BY DEF Merges
    <2> QED BY <1>1, <2>1
  <1>3. k \in Nat /\ k - 1 \in Nat
    BY <1>1, <1>2
  <1>4. PICK f : Merges(f, s, k - 1)
    BY <1>1, <1>3
  <1> DEFINE g == [m \in 0..k |-> IF m = k THEN Merge(f[k - 1], s[k]) ELSE f[m]]
  <1>5. DOMAIN f = 0..(k - 1) /\ \A m \in 0..(k - 1) : f[m] = IF m = 0 THEN <<>> ELSE Merge(f[m - 1], s[m])
    BY <1>4 DEF Merges
  <1>6. g[k] = Merge(f[k - 1], s[k]) /\ \A m \in 0..(k - 1) : g[m] = f[m]
    BY <1>3
  <1>7. \A m \in 0..k : g[m] = IF m = 0 THEN <<>> ELSE Merge(g[m - 1], s[m])
    <2> SUFFICES ASSUME NEW m \in 0..k PROVE g[m] = IF m = 0 THEN <<>> ELSE Merge(g[m - 1], s[m])
      OBVIOUS
    <2>1. CASE m = 0
      BY <1>2, <1>3, <1>5, <1>6, <2>1
    <2>2. CASE m = k
      <3>1. k - 1 \in 0..(k - 1)
        BY <1>3
      <3> QED BY <1>2, <1>6, <2>2, <3>1
    <2>3. CASE m # 0 /\ m # k
      <3>1. m \in 0..(k - 1) /\ m - 1 \in 0..(k - 1)
        BY <1>3, <2>3
      <3> QED BY <1>5, <1>6, <2>3, <3>1
    <2> QED BY <2>1, <2>2, <2>3
  <1>8. g = [m \in 0..k |-> IF m = 0 THEN <<>> ELSE Merge(g[m - 1], s[m])]
    <2>1. g = [m \in 0..k |-> g[m]]
      OBVIOUS
    <2> HIDE DEF g
    <2> QED BY <1>7, <2>1
  <1>9. Merges(g, s, k)
    BY <1>8 DEF Merges
  <1> QED BY <1>1, <1>9

LEMMA CoalesceIs ==
  ASSUME NEW s \in Seq(Record)
  PROVE  /\ Coalesce(s) \in Seq(Record)
         /\ TeachingsIn(Coalesce(s)) = TeachingsIn(s)
         /\ Apart(s) => Apart(Coalesce(s))
  <1> DEFINE f == CHOOSE f : Merges(f, s, Len(s))
  <1>1. Len(s) \in Nat /\ DOMAIN s = 1..Len(s) /\ \A i \in 1..Len(s) : s[i] \in Record
    OBVIOUS
  <1>2. Merges(f, s, Len(s))
    BY <1>1, MergesExist
  <1>3. Coalesce(s) = f[Len(s)]
    BY DEF Coalesce, Merges
  <1> HIDE DEF f
  <1>4. /\ f[0] = <<>>
        /\ \A n \in 1..Len(s) : f[n] = Merge(f[n - 1], s[n])
    BY <1>1, <1>2 DEF Merges
  <1> DEFINE Read(n) == UNION {s[i].of : i \in 1..n}
             Is(n) == /\ f[n] \in Seq(Record) /\ OnePerPattern(f[n])
                      /\ TeachingsIn(f[n]) = Read(n)
                      /\ Apart(s) => Apart(f[n])
             S == {n \in 0..Len(s) : ~Is(n)}
  <1>5. \A n \in 0..Len(s) : Is(n)
    <2> SUFFICES ASSUME S # {} PROVE FALSE
      OBVIOUS
    <2>1. PICK n \in S : \A m \in S : n <= m
      <3>1. S \subseteq Nat
        BY <1>1
      <3> HIDE DEF S
      <3> QED BY <3>1, LeastIs
    <2>2. n # 0
      <3>1. Read(0) = {}
        OBVIOUS
      <3>2. <<>> \in Seq(Record) /\ OnePerPattern(<<>>)
        BY DEF OnePerPattern
      <3> QED BY <1>4, <2>1, <3>1, <3>2, NoTeachings
    <2>3. n \in 1..Len(s) /\ n - 1 \in 0..Len(s)
      BY <1>1, <2>1, <2>2
    <2>4. Is(n - 1)
      <3> HIDE DEF Is
      <3>1. n \in Nat /\ ~(n <= n - 1)
        BY <2>3
      <3> QED BY <2>1, <2>3, <3>1
    <2>5. f[n] = Merge(f[n - 1], s[n]) /\ s[n] \in Record
      BY <1>1, <1>4, <2>3
    <2>6. Read(n) = Read(n - 1) \cup s[n].of
      <3>1. \A i : i \in 1..n <=> i \in 1..(n - 1) \/ i = n
        BY <2>3
      <3> QED BY <3>1
    <2>7. Apart(s) => s[n].of \cap Read(n - 1) = {}
      <3>1. \A i \in 1..(n - 1) : i \in DOMAIN s /\ i # n /\ n \in DOMAIN s
        BY <1>1, <2>3
      <3> QED BY <3>1 DEF Apart
    <2>8. Is(n)
      <3> DEFINE e == f[n - 1]
      <3>1. /\ e \in Seq(Record) /\ OnePerPattern(e) /\ TeachingsIn(e) = Read(n - 1)
            /\ Apart(s) => Apart(e)
        BY <2>4
      <3> HIDE DEF e, Read
      <3>2. /\ Merge(e, s[n]) \in Seq(Record) /\ OnePerPattern(Merge(e, s[n]))
            /\ TeachingsIn(Merge(e, s[n])) = TeachingsIn(e) \cup s[n].of
            /\ Apart(e) /\ s[n].of \cap TeachingsIn(e) = {} => Apart(Merge(e, s[n]))
        BY <2>5, <3>1, MergeIs
      <3>3. f[n] = Merge(e, s[n])
        BY <2>5 DEF e
      <3> QED BY <2>6, <2>7, <3>1, <3>2, <3>3
    <2> QED BY <2>1, <2>8
  <1>6. Len(s) \in 0..Len(s) /\ Read(Len(s)) = TeachingsIn(s)
    BY <1>1 DEF TeachingsIn
  <1> QED BY <1>3, <1>5, <1>6

-----------------------------------------------------------------------------
(* The invariant *)

Pcs == {"wait", "rotate", "read", "unlink", "apply", "requeue"}
Places == {"none", "live", "aside", "unlinked", "closed"}

Types ==
  /\ queue \in Seq(Record) /\ aside \in Seq(Record) /\ batch \in Seq(Record)
  /\ handle \in [Grep -> Places] /\ pattern \in [Grep -> Pattern]
  /\ enabled \in BOOLEAN /\ up \in BOOLEAN /\ stopping \in BOOLEAN
  /\ outages \in 0..MaxOutages /\ failures \in 0..MaxFailures
  /\ pc \in Pcs
  /\ applied \subseteq Grep /\ counted \subseteq Grep
  /\ gone \in [{"crash", "late"} -> SUBSET Grep]

\* Where the tick is tells which files there are, and who still has the rotated
\* one open.
TickInv ==
  /\ pc \notin {"read", "unlink"} => aside = <<>> /\ \A g \in Grep : handle[g] # "aside"
  /\ pc \in {"wait", "rotate", "read"} => batch = <<>>

\* Teachings are those of greps that have written.
OnlyWritten ==
  \A g : g \in TeachingsIn(queue) \cup TeachingsIn(aside) \cup TeachingsIn(batch) \cup applied \cup counted
           => g \in Grep /\ handle[g] = "closed"

\* A teaching is in one line of one file, or settled; what is in the rotated file
\* once it has been parsed does not count.
EachInOnePlace ==
  /\ Apart(queue) /\ Apart(aside) /\ Apart(batch)
  /\ TeachingsIn(queue) \cap TeachingsIn(aside) = {}
  /\ TeachingsIn(queue) \cap TeachingsIn(batch) = {}
  /\ applied \cap counted = {}
  /\ (applied \cup counted) \cap (TeachingsIn(queue) \cup TeachingsIn(batch)) = {}
  /\ pc = "read" => (applied \cup counted) \cap TeachingsIn(aside) = {}

LearnInv == Types /\ TickInv /\ OnlyWritten /\ EachInOnePlace /\ NothingDroppedQuietly

LEMMA TypesAreOK == Types => TypeOK
  <1> SUFFICES ASSUME Types PROVE TypeOK
    OBVIOUS
  <1>1. {enabled, up, stopping} \subseteq BOOLEAN
    BY Zenon DEF Types
  <1>2. /\ \A file \in {queue, aside, batch} : file \in Seq(Record)
        /\ handle \in [Grep -> {"none", "live", "aside", "unlinked", "closed"}]
        /\ pattern \in [Grep -> Pattern]
        /\ outages \in 0..MaxOutages /\ failures \in 0..MaxFailures
        /\ pc \in {"wait", "rotate", "read", "unlink", "apply", "requeue"}
        /\ applied \in SUBSET Grep /\ counted \in SUBSET Grep
        /\ gone \in [{"crash", "late"} -> SUBSET Grep]
    BY DEF Types, Pcs, Places
  <1> QED BY <1>1, <1>2 DEF TypeOK

LEMMA InitLearnInv == Init => LearnInv
  <1> SUFFICES ASSUME Init PROVE LearnInv
    OBVIOUS
  <1> USE DEF Init
  <1>1. Types
    <2>1. 0 \in 0..MaxOutages /\ 0 \in 0..MaxFailures
      BY BoundAssumption
    <2>2. enabled \in BOOLEAN /\ up \in BOOLEAN /\ stopping \in BOOLEAN
      BY Zenon
    <2>3. <<>> \in Seq(Record)
      OBVIOUS
    <2>4. gone \in [{"crash", "late"} -> SUBSET Grep]
      OBVIOUS
    <2>5. handle \in [Grep -> Places] /\ pc \in Pcs
      BY DEF Places, Pcs
    <2> QED BY <2>1, <2>2, <2>3, <2>4, <2>5 DEF Types
  <1>2. TickInv /\ OnlyWritten /\ EachInOnePlace
    BY NoTeachings DEF TickInv, OnlyWritten, EachInOnePlace
  <1>3. NothingDroppedQuietly
    BY DEF NothingDroppedQuietly
  <1> QED BY <1>1, <1>2, <1>3 DEF LearnInv

LEMMA OpenKeeps == ASSUME LearnInv, NEW g \in Grep, Open(g) PROVE LearnInv'
  <1>1. /\ handle[g] = "none" /\ handle' = [handle EXCEPT ![g] = "live"]
        /\ UNCHANGED <<queue, aside, pattern, enabled, up, stopping, outages, pc, batch,
                       failures, applied, counted, gone>>
    BY DEF Open, daemonVars, outcome
  <1>2. Types'
    <2>1. handle' \in [Grep -> Places]
      BY <1>1 DEF LearnInv, Types, Places
    <2> QED BY <1>1, <2>1 DEF LearnInv, Types
  <1>3. \A h \in Grep : h # g => handle'[h] = handle[h]
    BY <1>1 DEF LearnInv, Types
  <1>4. handle'[g] = "live"
    BY <1>1 DEF LearnInv, Types
  <1>5. TickInv'
    BY <1>1, <1>3, <1>4 DEF LearnInv, TickInv
  <1>6. OnlyWritten'
    BY <1>1, <1>3 DEF LearnInv, OnlyWritten
  <1>7. EachInOnePlace'
    BY <1>1 DEF LearnInv, EachInOnePlace
  <1>8. NothingDroppedQuietly'
    BY <1>1, <1>3, <1>4 DEF LearnInv, NothingDroppedQuietly, Outstanding, Lost
  <1> QED BY <1>2, <1>5, <1>6, <1>7, <1>8 DEF LearnInv

\* A grep's line is at the end of the queue, at the end of the rotated file, or
\* where nobody reads it.
LEMMA WriteKeeps == ASSUME LearnInv, NEW g \in Grep, Write(g) PROVE LearnInv'
  <1> DEFINE line == [pat |-> pattern[g], of |-> {g}]
  <1>1. /\ handle[g] \in {"live", "aside", "unlinked"}
        /\ handle' = [handle EXCEPT ![g] = "closed"]
        /\ UNCHANGED <<pattern, enabled, up, stopping, outages, pc, batch, failures, applied, counted>>
    BY DEF Write, daemonVars, outcome
  <1>2. line \in Record /\ line.of = {g}
    BY DEF LearnInv, Types, Record
  <1>3. /\ \A h \in Grep : h # g => handle'[h] = handle[h]
        /\ handle'[g] = "closed" /\ handle' \in [Grep -> Places]
    BY <1>1 DEF LearnInv, Types, Places
  <1>4. /\ g \notin TeachingsIn(queue) /\ g \notin TeachingsIn(aside) /\ g \notin TeachingsIn(batch)
        /\ g \notin applied /\ g \notin counted
    BY <1>1 DEF LearnInv, OnlyWritten
  <1>5. queue \in Seq(Record) /\ aside \in Seq(Record)
    BY DEF LearnInv, Types
  <1>6. CASE queue' = Append(queue, line) /\ UNCHANGED <<aside, gone>>
    <2>1. /\ queue' \in Seq(Record) /\ TeachingsIn(queue') = TeachingsIn(queue) \cup {g}
          /\ Apart(queue) => Apart(queue')
      <3> HIDE DEF line
      <3> QED BY <1>2, <1>4, <1>5, <1>6, AppendIs
    <2>2. Types'
      BY <1>1, <1>3, <1>6, <2>1 DEF LearnInv, Types
    <2>3. TickInv'
      BY <1>1, <1>3, <1>6 DEF LearnInv, TickInv
    <2>4. OnlyWritten'
      BY <1>1, <1>3, <1>6, <2>1 DEF LearnInv, OnlyWritten
    <2>5. EachInOnePlace'
      <3>1. EachInOnePlace
        BY DEF LearnInv
      <3>2. /\ Apart(queue') /\ Apart(aside) /\ Apart(batch)
            /\ (TeachingsIn(queue) \cup {g}) \cap TeachingsIn(aside) = {}
            /\ (TeachingsIn(queue) \cup {g}) \cap TeachingsIn(batch) = {}
            /\ applied \cap counted = {}
            /\ (applied \cup counted) \cap ((TeachingsIn(queue) \cup {g}) \cup TeachingsIn(batch)) = {}
            /\ pc = "read" => (applied \cup counted) \cap TeachingsIn(aside) = {}
        BY <1>4, <2>1, <3>1 DEF EachInOnePlace
      <3> QED BY <1>1, <1>6, <2>1, <3>2 DEF EachInOnePlace
    <2>6. NothingDroppedQuietly'
      BY <1>1, <1>3, <1>6, <2>1 DEF LearnInv, NothingDroppedQuietly, Outstanding, Lost
    <2> QED BY <2>2, <2>3, <2>4, <2>5, <2>6 DEF LearnInv
  <1>7. CASE handle[g] = "aside" /\ pc # "unlink" /\ aside' = Append(aside, line) /\ UNCHANGED <<queue, gone>>
    <2>1. /\ aside' \in Seq(Record) /\ TeachingsIn(aside') = TeachingsIn(aside) \cup {g}
          /\ Apart(aside) => Apart(aside')
      <3> HIDE DEF line
      <3> QED BY <1>2, <1>4, <1>5, <1>7, AppendIs
    <2>2. pc = "read"
      BY <1>7 DEF LearnInv, TickInv
    <2>3. Types'
      BY <1>1, <1>3, <1>7, <2>1 DEF LearnInv, Types
    <2>4. TickInv'
      BY <1>1, <1>7, <2>2 DEF LearnInv, TickInv
    <2>5. OnlyWritten'
      BY <1>1, <1>3, <1>7, <2>1 DEF LearnInv, OnlyWritten
    <2>6. EachInOnePlace'
      BY <1>1, <1>4, <1>7, <2>1 DEF LearnInv, EachInOnePlace
    <2>7. NothingDroppedQuietly'
      BY <1>1, <1>3, <1>7, <2>1, <2>2 DEF LearnInv, NothingDroppedQuietly, Outstanding, Lost
    <2> QED BY <2>3, <2>4, <2>5, <2>6, <2>7 DEF LearnInv
  <1>8. CASE Loses("late", {g}) /\ UNCHANGED <<queue, aside>>
    <2>1. /\ gone'["late"] = gone["late"] \cup {g} /\ gone'["crash"] = gone["crash"]
          /\ gone' \in [{"crash", "late"} -> SUBSET Grep]
      BY <1>8 DEF Loses, LearnInv, Types
    <2>2. Types'
      BY <1>1, <1>3, <1>8, <2>1 DEF LearnInv, Types
    <2>3. TickInv'
      BY <1>1, <1>3, <1>8 DEF LearnInv, TickInv
    <2>4. OnlyWritten'
      BY <1>1, <1>3, <1>8 DEF LearnInv, OnlyWritten
    <2>5. EachInOnePlace'
      BY <1>1, <1>8 DEF LearnInv, EachInOnePlace
    <2>6. NothingDroppedQuietly'
      BY <1>1, <1>3, <1>8, <2>1 DEF LearnInv, NothingDroppedQuietly, Outstanding, Lost
    <2> QED BY <2>2, <2>3, <2>4, <2>5, <2>6 DEF LearnInv
  <1> QED BY <1>6, <1>7, <1>8 DEF Write

\* A step of the switch or of the daemon's process that touches no teaching.
LEMMA StillKeeps ==
  ASSUME LearnInv, UNCHANGED <<queue, aside, handle, pattern, batch, failures, applied, counted, gone>>,
         enabled' \in BOOLEAN, up' \in BOOLEAN, stopping' \in BOOLEAN, outages' \in 0..MaxOutages,
         \/ pc' = pc
         \/ pc = "wait" /\ pc' = "rotate"
         \/ pc = "apply" /\ pc' = "requeue"
  PROVE  LearnInv'
  <1>1. Types'
    BY DEF LearnInv, Types, Pcs
  <1>2. TickInv'
    BY DEF LearnInv, TickInv
  <1>3. OnlyWritten'
    BY DEF LearnInv, OnlyWritten
  <1>4. EachInOnePlace'
    BY DEF LearnInv, EachInOnePlace
  <1>5. NothingDroppedQuietly'
    BY DEF LearnInv, NothingDroppedQuietly, Outstanding, Lost
  <1> QED BY <1>1, <1>2, <1>3, <1>4, <1>5 DEF LearnInv

LEMMA OneMoreOutage ==
  ASSUME LearnInv, outages < MaxOutages
  PROVE  outages + 1 \in 0..MaxOutages
  BY BoundAssumption DEF LearnInv, Types

LEMMA DaemonTypes ==
  ASSUME LearnInv
  PROVE  enabled \in BOOLEAN /\ up \in BOOLEAN /\ stopping \in BOOLEAN /\ outages \in 0..MaxOutages
  BY Zenon DEF LearnInv, Types

LEMMA FlipKeeps == ASSUME LearnInv, Flip PROVE LearnInv'
  <1>1. UNCHANGED <<queue, aside, handle, pattern, up, stopping, outages, pc, batch,
                    failures, applied, counted, gone>>
    BY DEF Flip, greps, outcome
  <1>2. enabled' \in BOOLEAN
    BY DEF Flip
  <1> QED BY <1>1, <1>2, DaemonTypes, StillKeeps

LEMMA TickKeeps == ASSUME LearnInv, Tick PROVE LearnInv'
  <1>1. /\ pc = "wait" /\ pc' = "rotate"
        /\ UNCHANGED <<queue, aside, handle, pattern, enabled, up, stopping, outages, batch,
                       failures, applied, counted, gone>>
    BY DEF Tick, Daemon, greps, daemonVars, outcome
  <1> QED BY <1>1, DaemonTypes, StillKeeps

LEMMA StopDrainKeeps == ASSUME LearnInv, StopDrain PROVE LearnInv'
  <1>1. /\ pc = "apply" /\ pc' = "requeue"
        /\ UNCHANGED <<queue, aside, handle, pattern, enabled, up, batch,
                       failures, applied, counted, gone>>
    BY DEF StopDrain, Daemon, greps, outcome
  <1>2. CASE UNCHANGED <<stopping, outages>>
    BY <1>1, <1>2, DaemonTypes, StillKeeps
  <1>3. CASE outages < MaxOutages /\ stopping' = TRUE /\ outages' = outages + 1
    <2>1. stopping' \in BOOLEAN
      BY <1>3
    <2>2. outages' \in 0..MaxOutages
      BY <1>3, OneMoreOutage
    <2> QED BY <1>1, <2>1, <2>2, DaemonTypes, StillKeeps
  <1> QED BY <1>2, <1>3 DEF StopDrain

LEMMA StopKeeps == ASSUME LearnInv, Stop PROVE LearnInv'
  <1>1. /\ outages < MaxOutages /\ stopping' = TRUE /\ outages' = outages + 1
        /\ UNCHANGED <<queue, aside, handle, pattern, enabled, up, pc, batch,
                       failures, applied, counted, gone>>
    BY DEF Stop, greps, outcome
  <1>2. stopping' \in BOOLEAN
    BY <1>1
  <1>3. outages' \in 0..MaxOutages
    BY <1>1, OneMoreOutage
  <1> QED BY <1>1, <1>2, <1>3, DaemonTypes, StillKeeps

LEMMA RestartKeeps == ASSUME LearnInv, Restart PROVE LearnInv'
  <1>1. UNCHANGED <<queue, aside, handle, pattern, enabled, stopping, outages, pc, batch,
                    failures, applied, counted, gone>>
    BY DEF Restart, greps, outcome
  <1>2. up' \in BOOLEAN
    BY DEF Restart
  <1> QED BY <1>1, <1>2, DaemonTypes, StillKeeps

LEMMA MovedIs ==
  ASSUME LearnInv, NEW from \in Places, NEW to \in Places, from # "closed", to # "closed", Moved(from, to)
  PROVE  /\ handle' \in [Grep -> Places]
         /\ \A g \in Grep : handle'[g] = "closed" <=> handle[g] = "closed"
         /\ \A g \in Grep : handle'[g] = IF handle[g] = from THEN to ELSE handle[g]
  <1>1. handle' = [g \in Grep |-> IF handle[g] = from THEN to ELSE handle[g]]
    BY DEF Moved
  <1>2. \A g \in Grep : handle'[g] = IF handle[g] = from THEN to ELSE handle[g]
    BY <1>1
  <1>3. \A g \in Grep : handle'[g] \in Places
    BY <1>2 DEF LearnInv, Types
  <1>4. handle' \in [Grep -> Places]
    BY <1>1, <1>3
  <1> QED BY <1>2, <1>4

LEMMA RotateKeeps == ASSUME LearnInv, Rotate PROVE LearnInv'
  <1>1. /\ pc = "rotate" /\ pc' = "read" /\ aside' = queue /\ queue' = <<>> /\ Moved("live", "aside")
        /\ UNCHANGED <<pattern, enabled, up, stopping, outages, batch, failures, applied, counted, gone>>
    BY DEF Rotate, Daemon, daemonVars, outcome
  <1>2. /\ handle' \in [Grep -> Places]
        /\ \A g \in Grep : handle'[g] = "closed" <=> handle[g] = "closed"
    BY <1>1, MovedIs DEF Places
  <1>3. TeachingsIn(queue') = {} /\ Apart(queue') /\ queue' \in Seq(Record)
    BY <1>1, NoTeachings
  <1>4. aside = <<>> /\ TeachingsIn(aside) = {} /\ batch = <<>> /\ TeachingsIn(batch) = {}
    BY <1>1, NoTeachings DEF LearnInv, TickInv
  <1>5. Types'
    BY <1>1, <1>2, <1>3 DEF LearnInv, Types, Pcs
  <1>6. TickInv'
    BY <1>1, <1>4 DEF TickInv
  <1>7. OnlyWritten'
    BY <1>1, <1>2, <1>3 DEF LearnInv, OnlyWritten
  <1>8. EachInOnePlace'
    BY <1>1, <1>3, <1>4 DEF LearnInv, EachInOnePlace
  <1>9. NothingDroppedQuietly'
    BY <1>1, <1>2, <1>3, <1>4 DEF LearnInv, NothingDroppedQuietly, Outstanding, Lost
  <1> QED BY <1>5, <1>6, <1>7, <1>8, <1>9 DEF LearnInv

\* The older lines are counted, the others are what the drain has in hand.
LEMMA ParseKeeps == ASSUME LearnInv, Parse PROVE LearnInv'
  <1> DEFINE kept == TeachingsIn(Newest(aside))
  <1>1. /\ pc = "read" /\ pc' = "unlink"
        /\ counted' = counted \cup (TeachingsIn(aside) \ kept)
        /\ UNCHANGED <<queue, aside, handle, pattern, enabled, up, stopping, outages, failures, applied, gone>>
    BY DEF Parse, Daemon, greps, daemonVars
  <1>2. batch' = Coalesce(Newest(aside))
    BY DEF Parse
  <1>3. aside \in Seq(Record) /\ Apart(aside)
    BY DEF LearnInv, Types, EachInOnePlace
  <1>4. Newest(aside) \in Seq(Record) /\ kept \subseteq TeachingsIn(aside) /\ Apart(Newest(aside))
    BY <1>3, NewestIs
  <1>5. batch' \in Seq(Record) /\ TeachingsIn(batch') = kept /\ Apart(batch')
    BY <1>2, <1>4, CoalesceIs
  <1> HIDE DEF kept
  <1>6. batch = <<>> /\ TeachingsIn(batch) = {}
    BY <1>1, NoTeachings DEF LearnInv, TickInv
  <1>7. \A g : g \in TeachingsIn(aside) => g \in Grep
    BY DEF LearnInv, OnlyWritten
  <1>8. Types'
    BY <1>1, <1>5, <1>7 DEF LearnInv, Types, Pcs
  <1>9. TickInv'
    BY <1>1 DEF TickInv
  <1>10. OnlyWritten'
    BY <1>1, <1>4, <1>5 DEF LearnInv, OnlyWritten
  <1>11. EachInOnePlace'
    BY <1>1, <1>4, <1>5 DEF LearnInv, EachInOnePlace
  <1>12. NothingDroppedQuietly'
    BY <1>1, <1>5, <1>6 DEF LearnInv, NothingDroppedQuietly, Outstanding, Lost
  <1> QED BY <1>8, <1>9, <1>10, <1>11, <1>12 DEF LearnInv

LEMMA UnlinkKeeps == ASSUME LearnInv, Unlink PROVE LearnInv'
  <1>1. /\ pc = "unlink" /\ pc' = "apply" /\ aside' = <<>> /\ Moved("aside", "unlinked")
        /\ UNCHANGED <<queue, pattern, enabled, up, stopping, outages, batch, failures, applied, counted, gone>>
    BY DEF Unlink, Daemon, daemonVars, outcome
  <1>2. /\ handle' \in [Grep -> Places]
        /\ \A g \in Grep : handle'[g] = "closed" <=> handle[g] = "closed"
        /\ \A g \in Grep : handle'[g] # "aside"
    BY <1>1, MovedIs DEF Places
  <1>3. TeachingsIn(aside') = {} /\ Apart(aside') /\ aside' \in Seq(Record)
    BY <1>1, NoTeachings
  <1>4. Types'
    BY <1>1, <1>2, <1>3 DEF LearnInv, Types, Pcs
  <1>5. TickInv'
    BY <1>1, <1>2 DEF TickInv
  <1>6. OnlyWritten'
    BY <1>1, <1>2, <1>3 DEF LearnInv, OnlyWritten
  <1>7. EachInOnePlace'
    BY <1>1, <1>3 DEF LearnInv, EachInOnePlace
  <1>8. NothingDroppedQuietly'
    BY <1>1, <1>2, <1>3 DEF LearnInv, NothingDroppedQuietly, Outstanding, Lost
  <1> QED BY <1>4, <1>5, <1>6, <1>7, <1>8 DEF LearnInv

LEMMA ApplyKeeps == ASSUME LearnInv, Apply PROVE LearnInv'
  <1> DEFINE these == Head(batch).of
  <1>1. /\ pc = "apply" /\ batch # <<>> /\ Settles(Head(batch)) /\ batch' = Tail(batch)
        /\ pc' = pc \/ pc' = "requeue"
        /\ UNCHANGED <<queue, aside, handle, pattern, enabled, up, stopping, outages, gone>>
    BY DEF Apply, Daemon, Rest, greps, daemonVars
  <1>2. batch \in Seq(Record) /\ Apart(batch)
    BY DEF LearnInv, Types, EachInOnePlace
  <1>3. /\ Head(batch) \in Record /\ batch' \in Seq(Record)
        /\ TeachingsIn(batch) = these \cup TeachingsIn(batch')
        /\ Apart(batch') /\ these \cap TeachingsIn(batch') = {}
    BY <1>1, <1>2, TailIs
  <1>4. these \subseteq Grep
    BY <1>3 DEF Record
  <1>5. /\ failures' \in 0..MaxFailures
        /\ \/ applied' = applied \cup these /\ counted' = counted
           \/ counted' = counted \cup these /\ applied' = applied
    <2>1. failures < MaxFailures => failures + 1 \in 0..MaxFailures
      BY BoundAssumption DEF LearnInv, Types
    <2> QED BY <1>1, <2>1 DEF Settles, LearnInv, Types
  <1> HIDE DEF these
  <1>6. aside = <<>> /\ TeachingsIn(aside) = {}
    BY <1>1, NoTeachings DEF LearnInv, TickInv
  <1>7. Types'
    BY <1>1, <1>3, <1>4, <1>5 DEF LearnInv, Types, Pcs
  <1>8. TickInv'
    BY <1>1 DEF LearnInv, TickInv
  <1>9. OnlyWritten'
    BY <1>1, <1>3, <1>5 DEF LearnInv, OnlyWritten
  <1>10. EachInOnePlace'
    <2>1. (applied' \cup counted') = applied \cup counted \cup these
      BY <1>5
    <2>2. applied' \cap counted' = {}
      BY <1>3, <1>5 DEF LearnInv, EachInOnePlace
    <2>3. pc' # "read"
      BY <1>1
    <2> QED BY <1>1, <1>3, <2>1, <2>2, <2>3 DEF LearnInv, EachInOnePlace
  <1>11. NothingDroppedQuietly'
    BY <1>1, <1>3, <1>5 DEF LearnInv, NothingDroppedQuietly, Outstanding, Lost
  <1> QED BY <1>7, <1>8, <1>9, <1>10, <1>11 DEF LearnInv

LEMMA RequeueKeeps == ASSUME LearnInv, Requeue PROVE LearnInv'
  <1>1. /\ pc = "requeue"
        /\ UNCHANGED <<aside, handle, pattern, enabled, up, stopping, outages,
                       failures, applied, counted, gone>>
    BY DEF Requeue, Daemon, greps, daemonVars, outcome
  <1>2. CASE batch = <<>>
    <2>1. pc' = "wait" /\ UNCHANGED <<queue, batch>>
      BY <1>2 DEF Requeue
    <2>2. Types'
      BY <1>1, <2>1 DEF LearnInv, Types, Pcs
    <2>3. TickInv'
      BY <1>1, <1>2, <2>1 DEF LearnInv, TickInv
    <2>4. OnlyWritten' /\ EachInOnePlace'
      BY <1>1, <2>1 DEF LearnInv, OnlyWritten, EachInOnePlace
    <2>5. NothingDroppedQuietly'
      BY <1>1, <2>1 DEF LearnInv, NothingDroppedQuietly, Outstanding, Lost
    <2> QED BY <2>2, <2>3, <2>4, <2>5 DEF LearnInv
  <1>3. CASE batch # <<>>
    <2> DEFINE line == Head(batch)
    <2>1. queue' = Append(queue, line) /\ batch' = Tail(batch) /\ pc' = pc
      BY <1>3 DEF Requeue
    <2>2. queue \in Seq(Record) /\ batch \in Seq(Record) /\ Apart(batch)
      BY DEF LearnInv, Types, EachInOnePlace
    <2>3. /\ line \in Record /\ batch' \in Seq(Record)
          /\ TeachingsIn(batch) = line.of \cup TeachingsIn(batch')
          /\ Apart(batch') /\ line.of \cap TeachingsIn(batch') = {}
      BY <1>3, <2>1, <2>2, TailIs
    <2> HIDE DEF line
    <2>4. line.of \cap TeachingsIn(queue) = {} /\ Apart(queue)
      BY <2>3 DEF LearnInv, EachInOnePlace
    <2>5. /\ queue' \in Seq(Record) /\ TeachingsIn(queue') = TeachingsIn(queue) \cup line.of
          /\ Apart(queue')
      BY <2>1, <2>2, <2>3, <2>4, AppendIs
    <2>6. aside = <<>> /\ TeachingsIn(aside) = {}
      BY <1>1, NoTeachings DEF LearnInv, TickInv
    <2>7. Types'
      BY <1>1, <2>1, <2>3, <2>5 DEF LearnInv, Types
    <2>8. TickInv'
      BY <1>1, <2>1 DEF LearnInv, TickInv
    <2>9. OnlyWritten'
      BY <1>1, <2>3, <2>5 DEF LearnInv, OnlyWritten
    <2>10. EachInOnePlace'
      BY <1>1, <2>1, <2>3, <2>5, <2>6 DEF LearnInv, EachInOnePlace
    <2>11. NothingDroppedQuietly'
      BY <1>1, <2>1, <2>3, <2>5 DEF LearnInv, NothingDroppedQuietly, Outstanding, Lost
    <2> QED BY <2>7, <2>8, <2>9, <2>10, <2>11 DEF LearnInv
  <1> QED BY <1>2, <1>3

LEMMA ExitKeeps == ASSUME LearnInv, Exit PROVE LearnInv'
  <1>1. /\ up' = FALSE /\ stopping' = FALSE
        /\ stopping \/ outages < MaxOutages
        /\ outages' = IF stopping THEN outages ELSE outages + 1
        /\ Loses("crash", TeachingsIn(batch) \cup TeachingsIn(aside))
        /\ batch' = <<>> /\ aside' = <<>> /\ Moved("aside", "unlinked") /\ pc' = "wait"
        /\ UNCHANGED <<queue, pattern, enabled, failures, applied, counted>>
    BY DEF Exit, outcome
  <1>2. /\ handle' \in [Grep -> Places]
        /\ \A g \in Grep : handle'[g] = "closed" <=> handle[g] = "closed"
        /\ \A g \in Grep : handle'[g] # "aside"
    BY <1>1, MovedIs DEF Places
  <1>3. TeachingsIn(<<>>) = {} /\ Apart(<<>>) /\ <<>> \in Seq(Record)
    BY NoTeachings
  <1>4. TeachingsIn(batch) \cup TeachingsIn(aside) \subseteq Grep
    BY DEF LearnInv, OnlyWritten
  <1>5. /\ gone'["crash"] = gone["crash"] \cup TeachingsIn(batch) \cup TeachingsIn(aside)
        /\ gone'["late"] = gone["late"] /\ gone' \in [{"crash", "late"} -> SUBSET Grep]
    BY <1>1, <1>4 DEF Loses, LearnInv, Types
  <1>6. Types'
    <2>1. outages' \in 0..MaxOutages
      BY <1>1, OneMoreOutage, DaemonTypes
    <2>2. enabled' \in BOOLEAN /\ up' \in BOOLEAN /\ stopping' \in BOOLEAN
      BY <1>1, DaemonTypes
    <2> QED BY <1>1, <1>2, <1>3, <1>5, <2>1, <2>2 DEF LearnInv, Types, Pcs
  <1>7. TickInv'
    BY <1>1, <1>2 DEF TickInv
  <1>8. OnlyWritten'
    BY <1>1, <1>2, <1>3 DEF LearnInv, OnlyWritten
  <1>9. EachInOnePlace'
    BY <1>1, <1>3 DEF LearnInv, EachInOnePlace
  <1>10. NothingDroppedQuietly'
    BY <1>1, <1>2, <1>3, <1>5 DEF LearnInv, NothingDroppedQuietly, Outstanding, Lost
  <1> QED BY <1>6, <1>7, <1>8, <1>9, <1>10 DEF LearnInv

LEMMA NextLearnInv == LearnInv /\ [Next]_vars => LearnInv'
  <1> SUFFICES ASSUME LearnInv, [Next]_vars PROVE LearnInv'
    OBVIOUS
  <1>1. CASE Next
    BY <1>1, OpenKeeps, WriteKeeps, FlipKeeps, TickKeeps, RotateKeeps, ParseKeeps, UnlinkKeeps,
       ApplyKeeps, StopDrainKeeps, RequeueKeeps, StopKeeps, ExitKeeps, RestartKeeps
       DEF Next, DrainStep
  <1>2. CASE UNCHANGED vars
    <2>1. UNCHANGED <<queue, aside, handle, pattern, enabled, up, stopping, outages, pc, batch,
                      failures, applied, counted, gone>>
      BY <1>2 DEF vars, greps, daemonVars, outcome
    <2> QED BY <2>1, DaemonTypes, StillKeeps
  <1> QED BY <1>1, <1>2

-----------------------------------------------------------------------------
(* Theorems *)

\* The files are sequences of records, and every other variable has its type.
\* (learn_queue.py:60-175, daemon.py:2283-2386)
THEOREM TypeCorrect == Spec => []TypeOK
  <1>1. LearnInv => TypeOK
    BY TypesAreOK DEF LearnInv
  <1> QED BY <1>1, InitLearnInv, NextLearnInv, PTL DEF Spec

\* Every teaching that a grep has written is applied, outstanding in one place,
\* reported as dropped, or one of the two named losses, whatever the number of
\* greps, patterns, lines, stops, crashes and failing teachings.
\* (learn_queue.py:60-175, daemon.py:2283-2386)
THEOREM NoTeachingIsLost == Spec => []TeachingsAccounted
  <1>1. LearnInv => TeachingsAccounted
    <2> SUFFICES ASSUME LearnInv PROVE TeachingsAccounted
      OBVIOUS
    <2>1. (applied \cup counted) \cap Outstanding = {}
      BY DEF LearnInv, EachInOnePlace, Outstanding
    <2>2. \A file \in {queue, batch} : \A i, j \in DOMAIN file :
            i # j => file[i].of \cap file[j].of = {}
      BY DEF LearnInv, EachInOnePlace, Apart
    <2>3. AppliedOnce
      BY <2>1, <2>2 DEF LearnInv, EachInOnePlace, AppliedOnce
    <2> QED BY <2>3 DEF LearnInv, TeachingsAccounted
  <1> QED BY <1>1, InitLearnInv, NextLearnInv, PTL DEF Spec

=============================================================================
