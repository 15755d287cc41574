--------------------------- MODULE PipelineProofs ---------------------------
(***************************************************************************)
(* Proofs about Pipeline, for every set of logs and machines, every batch, *)
(* capacity and bound.  First what removeDuplicates returns, then the      *)
(* invariant: one part for each log and its goroutine, one for each slot,  *)
(* a machine of the deduplicated list, and its goroutine.  A step changes  *)
(* the part of one log or slot; the frame lemmas carry over all others.    *)
(***************************************************************************)
EXTENDS PipelineRefinement, FiniteSetTheorems, SequenceTheorems, TLAPS

\* The members of F up to k, and the place of k in F.
upTo(F, k) == {i \in F : i <= k}
rank(F) == [k \in F |-> Cardinality(upTo(F, k))]

----------------------------------------------------------------------------
\* Ranks count from one and grow with the positions.
LEMMA RankMonotone ==
    ASSUME NEW n \in Nat, NEW F \in SUBSET (1 .. n)
    PROVE  /\ IsFiniteSet(F) /\ Cardinality(F) \in Nat
           /\ \A k \in F : rank(F)[k] \in 1 .. Cardinality(F)
           /\ \A i, k \in F : i < k => rank(F)[i] < rank(F)[k]
<1>1. IsFiniteSet(1 .. n)
  BY FS_Interval
<1>2. IsFiniteSet(F)
  BY <1>1, FS_Subset
<1>3. ASSUME NEW k \in F
      PROVE  /\ upTo(F, k) \in SUBSET F /\ IsFiniteSet(upTo(F, k))
             /\ rank(F)[k] = Cardinality(upTo(F, k))
             /\ Cardinality(upTo(F, k)) \in 1 .. Cardinality(F)
  <2>1. upTo(F, k) \in SUBSET F /\ k \in upTo(F, k)
    BY DEF upTo
  <2>2. IsFiniteSet(upTo(F, k)) /\ Cardinality(upTo(F, k)) <= Cardinality(F)
    BY <1>2, <2>1, FS_Subset
  <2>3. Cardinality(upTo(F, k)) \in Nat /\ Cardinality(F) \in Nat
    BY <1>2, <2>2, FS_CardinalityType
  <2>4. Cardinality(upTo(F, k)) # 0
    BY <2>1, <2>2, FS_EmptySet
  <2>5. rank(F)[k] = Cardinality(upTo(F, k))
    BY DEF rank
  <2> QED BY <2>1, <2>2, <2>3, <2>4, <2>5
<1>4. ASSUME NEW i \in F, NEW k \in F, i < k PROVE rank(F)[i] < rank(F)[k]
  <2>0. /\ \A x \in F : x <= i => x <= k
        /\ k <= k /\ ~(k <= i)
    <3>1. \A x \in F : x \in Nat
      OBVIOUS
    <3> QED BY <1>4, <3>1
  <2>1. upTo(F, i) \in SUBSET upTo(F, k) /\ k \in upTo(F, k) /\ k \notin upTo(F, i)
    BY <2>0, Zenon DEF upTo
  <2>2. /\ Cardinality(upTo(F, i)) <= Cardinality(upTo(F, k))
        /\ Cardinality(upTo(F, k)) # Cardinality(upTo(F, i))
    BY <1>3, <2>1, FS_Subset
  <2>3. Cardinality(upTo(F, i)) \in Nat /\ Cardinality(upTo(F, k)) \in Nat
    BY <1>3
  <2> QED BY <1>3, <2>2, <2>3
<1> QED BY <1>2, <1>3, <1>4, FS_CardinalityType

\* Every rank up to the number of members is that of exactly one member.
LEMMA RankOnto ==
    ASSUME NEW n \in Nat, NEW F \in SUBSET (1 .. n), NEW j \in 1 .. Cardinality(F)
    PROVE  nth(F, j) \in F /\ rank(F)[nth(F, j)] = j
<1> DEFINE c == Cardinality(F)
<1>1. /\ IsFiniteSet(F) /\ c \in Nat
      /\ \A k \in F : rank(F)[k] \in 1 .. c
      /\ \A i, k \in F : i < k => rank(F)[i] < rank(F)[k]
  BY RankMonotone
<1>2. \A i, k \in F : rank(F)[i] = rank(F)[k] => i = k
  <2> SUFFICES ASSUME NEW i \in F, NEW k \in F, i # k PROVE rank(F)[i] # rank(F)[k]
    OBVIOUS
  <2>1. i < k \/ k < i
    OBVIOUS
  <2>2. rank(F)[i] \in Nat /\ rank(F)[k] \in Nat
    BY <1>1
  <2> QED BY <1>1, <2>1, <2>2
<1>3. rank(F) \in Injection(F, 1 .. c)
  <2>1. DOMAIN rank(F) = F /\ rank(F) \in [F -> 1 .. c]
    BY <1>1 DEF rank
  <2> QED BY <1>2, <2>1 DEF Injection, IsInjective
<1>4. IsFiniteSet(1 .. c) /\ Cardinality(1 .. c) = c
  BY <1>1, FS_Interval
<1>5. rank(F) \in Surjection(F, 1 .. c)
  BY <1>3, <1>4, FS_Injection
<1>6. \E k \in F : rank(F)[k] = j
  BY <1>5 DEF Surjection
<1>7. \A k \in F : rank(F)[k] = Cardinality({i \in F : i <= k})
  BY DEF rank, upTo
<1>8. \E k \in F : Cardinality({i \in F : i <= k}) = j
  BY <1>6, <1>7
<1>9. nth(F, j) \in F /\ Cardinality({i \in F : i <= nth(F, j)}) = j
  BY <1>8, Zenon DEF nth
<1> QED BY <1>7, <1>9

\* A set of positions that is not empty has a least one.
LEMMA Least ==
    ASSUME NEW n \in Nat, NEW F \in SUBSET (1 .. n), F # {}
    PROVE  \E k \in F : \A i \in F : k <= i
<1>1. IsFiniteSet(F) /\ Cardinality(F) \in Nat
  BY RankMonotone
<1>2. Cardinality(F) # 0
  BY <1>1, FS_EmptySet
<1>3. 1 \in 1 .. Cardinality(F)
  BY <1>1, <1>2
<1>4. PICK k \in F : rank(F)[k] = 1
  BY <1>3, RankOnto
<1>5. \A i \in F : i < k => FALSE
  <2> SUFFICES ASSUME NEW i \in F, i < k PROVE FALSE
    OBVIOUS
  <2>1. rank(F)[i] < 1 /\ rank(F)[i] \in 1 .. Cardinality(F)
    BY <1>4, RankMonotone
  <2> QED BY <2>1
<1> QED BY <1>5

\* What removeDuplicates returns: every entry, once.
LEMMA Deduplicated ==
    ASSUME NEW S, NEW s \in Seq(S)
    PROVE  LET u == removeDuplicates(s) IN
           /\ u \in Seq(S) /\ Len(u) \in Nat /\ DOMAIN u = 1 .. Len(u) /\ Len(u) <= Len(s)
           /\ \A i, j \in DOMAIN u : u[i] = u[j] => i = j
           /\ \A x : (\E k \in DOMAIN s : s[k] = x) <=> (\E j \in DOMAIN u : u[j] = x)
<1> DEFINE F == {k \in DOMAIN s : \A i \in DOMAIN s : s[i] = s[k] => k <= i}
           u == removeDuplicates(s)
           c == Cardinality(F)
<1>1. Len(s) \in Nat /\ DOMAIN s = 1 .. Len(s) /\ \A k \in DOMAIN s : s[k] \in S
  BY LenProperties, ElementOfSeq
<1>2. F \in SUBSET (1 .. Len(s))
  BY <1>1
<1>3. c \in Nat /\ \A k \in F : rank(F)[k] \in 1 .. c
  BY <1>1, <1>2, RankMonotone
<1>4. u = [j \in 1 .. c |-> s[nth(F, j)]]
  BY Zenon DEF removeDuplicates, entries
<1>5. \A j \in 1 .. c : nth(F, j) \in F /\ rank(F)[nth(F, j)] = j
  BY <1>1, <1>2, RankOnto
<1> HIDE DEF u, c
<1>6. u \in [1 .. c -> S]
  <2>1. \A j \in 1 .. c : s[nth(F, j)] \in S
    BY <1>1, <1>5
  <2> HIDE DEF F
  <2> QED BY <1>4, <2>1
<1>7. u \in Seq(S)
  BY <1>3, <1>6, SeqDef
<1>8. Len(u) = c /\ DOMAIN u = 1 .. c
  BY <1>3, <1>6, <1>7, LenProperties
<1>9. c <= Len(s)
  <2>1. IsFiniteSet(1 .. Len(s)) /\ Cardinality(1 .. Len(s)) = Len(s)
    BY <1>1, FS_Interval
  <2> QED BY <1>2, <2>1, FS_Subset DEF c
<1>10. ASSUME NEW i \in DOMAIN u, NEW j \in DOMAIN u, u[i] = u[j] PROVE i = j
  <2>1. s[nth(F, i)] = s[nth(F, j)] /\ nth(F, i) \in F /\ nth(F, j) \in F
    BY <1>4, <1>5, <1>8, <1>10
  <2>2. nth(F, i) <= nth(F, j) /\ nth(F, j) <= nth(F, i)
    BY <2>1
  <2>3. nth(F, i) = nth(F, j)
    BY <1>2, <2>1, <2>2
  <2> QED BY <1>5, <1>8, <2>3
<1>11. ASSUME NEW k \in DOMAIN s PROVE \E j \in DOMAIN u : u[j] = s[k]
  <2> DEFINE G == {i \in DOMAIN s : s[i] = s[k]}
  <2>1. PICK m \in G : \A i \in G : m <= i
    BY <1>1, Least
  <2>2. m \in F /\ s[m] = s[k]
    BY <2>1
  <2> DEFINE j == rank(F)[m]
  <2>3. j \in 1 .. c /\ nth(F, j) \in F /\ rank(F)[nth(F, j)] = rank(F)[m]
    BY <1>3, <1>5, <2>2
  <2>4. nth(F, j) = m
    <3> HIDE DEF F, j
    <3>1. ~(nth(F, j) < m) /\ ~(m < nth(F, j))
      <4>1. \A a, b \in F : a < b => rank(F)[a] < rank(F)[b]
        BY <1>1, <1>2, RankMonotone
      <4>2. rank(F)[m] \in Nat
        BY <1>3, <2>2
      <4> QED BY <2>2, <2>3, <4>1, <4>2
    <3>2. nth(F, j) \in Nat /\ m \in Nat
      BY <1>2, <2>2, <2>3
    <3> QED BY <3>1, <3>2
  <2>5. u[j] = s[k]
    BY <1>4, <2>2, <2>3, <2>4
  <2> QED BY <1>8, <2>3, <2>5
<1>12. ASSUME NEW j \in DOMAIN u PROVE \E k \in DOMAIN s : s[k] = u[j]
  BY <1>4, <1>5, <1>8
<1>13. \A x : (\E k \in DOMAIN s : s[k] = x) <=> (\E j \in DOMAIN u : u[j] = x)
  BY <1>11, <1>12, Zenon
<1>14. \A i, j \in DOMAIN u : u[i] = u[j] => i = j
  BY <1>10
<1>15. Len(u) \in Nat /\ DOMAIN u = 1 .. Len(u) /\ Len(u) <= Len(s)
  BY <1>3, <1>8, <1>9
<1> QED BY <1>7, <1>13, <1>14, <1>15, Zenon DEF u

----------------------------------------------------------------------------
(* Sequences without repetition.                                            *)
LEMMA TailFacts ==
    ASSUME NEW S, NEW q \in Seq(S), q # << >>, IsInjective(q)
    PROVE  /\ Head(q) \in S /\ Head(q) \in Range(q)
           /\ Tail(q) \in Seq(S) /\ Len(Tail(q)) = Len(q) - 1
           /\ IsInjective(Tail(q))
           /\ Range(Tail(q)) = Range(q) \ {Head(q)}
<1>1. /\ Len(q) \in Nat /\ Len(q) # 0 /\ DOMAIN q = 1 .. Len(q)
      /\ Head(q) = q[1] /\ Head(q) \in S
      /\ Tail(q) \in Seq(S) /\ Len(Tail(q)) = Len(q) - 1
      /\ DOMAIN Tail(q) = 1 .. Len(q) - 1
      /\ \A i \in 1 .. Len(q) - 1 : Tail(q)[i] = q[i + 1]
  OBVIOUS
<1>2. IsInjective(Tail(q))
  <2> SUFFICES ASSUME NEW i \in 1 .. Len(q) - 1, NEW j \in 1 .. Len(q) - 1,
                      Tail(q)[i] = Tail(q)[j]
               PROVE  i = j
    BY <1>1 DEF IsInjective
  <2>1. q[i + 1] = q[j + 1] /\ i + 1 \in DOMAIN q /\ j + 1 \in DOMAIN q
    BY <1>1
  <2>2. i + 1 = j + 1
    BY <2>1 DEF IsInjective
  <2> QED BY <2>2
<1>3. ASSUME NEW x \in Range(q) \ {Head(q)} PROVE x \in Range(Tail(q))
  <2>1. PICK i \in DOMAIN q : q[i] = x
    BY DEF Range
  <2>2. i - 1 \in 1 .. Len(q) - 1 /\ Tail(q)[i - 1] = x
    BY <1>1, <1>3, <2>1
  <2> QED BY <1>1, <2>2 DEF Range
<1>4. ASSUME NEW x \in Range(Tail(q)) PROVE x \in Range(q) \ {Head(q)}
  <2>1. PICK i \in 1 .. Len(q) - 1 : Tail(q)[i] = x
    BY <1>1 DEF Range
  <2>2. q[i + 1] = x /\ i + 1 \in DOMAIN q /\ i + 1 # 1 /\ 1 \in DOMAIN q
    BY <1>1, <2>1
  <2>3. q[i + 1] # q[1]
    BY <2>2 DEF IsInjective
  <2> QED BY <1>1, <2>2, <2>3 DEF Range
<1>5. Head(q) \in Range(q)
  BY <1>1 DEF Range
<1>6. Range(Tail(q)) = Range(q) \ {Head(q)}
  BY <1>3, <1>4
<1> QED BY <1>1, <1>2, <1>5, <1>6

\* A new entry at the end.
LEMMA AppendFacts ==
    ASSUME NEW S, NEW q \in Seq(S), NEW x \in S, x \notin Range(q), IsInjective(q)
    PROVE  /\ Append(q, x) \in Seq(S) /\ Len(Append(q, x)) = Len(q) + 1
           /\ IsInjective(Append(q, x))
           /\ Range(Append(q, x)) = Range(q) \cup {x}
<1> DEFINE a == Append(q, x)
<1>1. /\ Len(q) \in Nat /\ DOMAIN q = 1 .. Len(q)
      /\ a \in Seq(S) /\ Len(a) = Len(q) + 1 /\ DOMAIN a = 1 .. Len(q) + 1
      /\ \A i \in 1 .. Len(q) : a[i] = q[i]
      /\ a[Len(q) + 1] = x
  OBVIOUS
<1> HIDE DEF a
<1>2. \A i \in DOMAIN a : i \in DOMAIN q \/ i = Len(q) + 1
  BY <1>1
<1>3. \A i \in DOMAIN q : a[i] = q[i] /\ a[i] # x
  BY <1>1 DEF Range
<1>4. IsInjective(a)
  BY <1>1, <1>2, <1>3 DEF IsInjective
<1>5. Range(a) = Range(q) \cup {x}
  BY <1>1, <1>2, <1>3 DEF Range
<1> QED BY <1>1, <1>4, <1>5 DEF a

----------------------------------------------------------------------------
(* The machines of a log, without duplicates.                               *)
Machine == [teeId : STRING, url : STRING]

\* What ParseInstruction keeps of the machines of an event: each of them, once.
LEMMA TeesFacts ==
    ASSUME NEW l \in Logs
    PROVE  /\ Tees(l) \in Seq(Machine) /\ Len(Tees(l)) \in Nat
           /\ DOMAIN Tees(l) = 1 .. Len(Tees(l)) /\ Len(Tees(l)) <= Len(TeeMachines[l])
           /\ IsInjective(Tees(l))
           /\ Range(Tees(l)) = Range(TeeMachines[l])
           /\ \A j \in DOMAIN Tees(l) : Tees(l)[j] \in Machine /\ <<l, j>> \in Slots
<1>1. TeeMachines[l] \in Seq(Machine)
  BY PipelineAssumption DEF Machine
<1>2. /\ Tees(l) \in Seq(Machine) /\ Len(Tees(l)) \in Nat
      /\ DOMAIN Tees(l) = 1 .. Len(Tees(l)) /\ Len(Tees(l)) <= Len(TeeMachines[l])
  BY <1>1, Deduplicated DEF Tees
<1>3. IsInjective(Tees(l))
  BY <1>1, Deduplicated DEF Tees, IsInjective
<1>4. \A x : (\E k \in DOMAIN TeeMachines[l] : TeeMachines[l][k] = x)
                <=> (\E j \in DOMAIN Tees(l) : Tees(l)[j] = x)
  BY <1>1, Deduplicated DEF Tees
<1>5. Range(Tees(l)) = Range(TeeMachines[l])
  BY <1>4 DEF Range
<1>6. ASSUME NEW j \in DOMAIN Tees(l) PROVE Tees(l)[j] \in Machine /\ <<l, j>> \in Slots
  <2>1. Len(TeeMachines[l]) \in Nat
    BY <1>1, LenProperties
  <2>2. j \in 1 .. Len(TeeMachines[l])
    BY <1>2, <2>1
  <2> QED BY <1>2, <2>2, ElementOfSeq DEF Slots
<1> QED BY <1>2, <1>3, <1>5, <1>6

\* A slot is a log and a position.
LEMMA SlotFacts ==
    ASSUME NEW s \in Slots
    PROVE  s = <<s[1], s[2]>> /\ s[1] \in Logs /\ s[2] \in Nat
<1>1. PICK l \in Logs : \E j \in 1 .. Len(TeeMachines[l]) : s = <<l, j>>
  BY DEF Slots
<1>2. Len(TeeMachines[l]) \in Nat
  BY PipelineAssumption, LenProperties
<1> QED BY <1>1, <1>2

\* What is signed for a log is a sequence in step with its machines.
Signature == [log : Logs, teeId : STRING, extra : Extras \cup {NoExtra}]
LEMMA HashesFacts ==
    ASSUME NEW l \in Logs, extra \in [Logs -> Extras \cup {NoExtra}]
    PROVE  /\ hashesForSigning(l) \in Seq(Signature)
           /\ DOMAIN hashesForSigning(l) = DOMAIN Tees(l)
           /\ Len(hashesForSigning(l)) = Len(Tees(l))
           /\ \A j \in DOMAIN Tees(l) :
                 hashesForSigning(l)[j] =
                     [log |-> l, teeId |-> Tees(l)[j].teeId, extra |-> extra[l]]
<1> DEFINE h == hashesForSigning(l)
<1>1. /\ DOMAIN h = DOMAIN Tees(l)
      /\ \A j \in DOMAIN Tees(l) :
            h[j] = [log |-> l, teeId |-> Tees(l)[j].teeId, extra |-> extra[l]]
      /\ h = [j \in DOMAIN Tees(l) |-> h[j]]
  BY DEF hashesForSigning, HashForSigning
<1> HIDE DEF h
<1>2. Len(Tees(l)) \in Nat /\ DOMAIN Tees(l) = 1 .. Len(Tees(l))
  BY TeesFacts
<1>3. \A j \in DOMAIN Tees(l) : h[j] \in Signature
  <2> SUFFICES ASSUME NEW j \in DOMAIN Tees(l) PROVE h[j] \in Signature
    OBVIOUS
  <2>1. Tees(l)[j].teeId \in STRING
    BY TeesFacts DEF Machine
  <2>2. extra[l] \in Extras \cup {NoExtra}
    OBVIOUS
  <2> QED BY <1>1, <2>1, <2>2 DEF Signature
<1>4. h \in [1 .. Len(Tees(l)) -> Signature]
  BY <1>1, <1>2, <1>3
<1>5. h \in Seq(Signature)
  BY <1>2, <1>4, SeqDef
<1>6. Len(h) = Len(Tees(l))
  BY <1>2, <1>4, <1>5, LenProperties
<1> QED BY <1>1, <1>5, <1>6 DEF h
----------------------------------------------------------------------------
(* The inductive invariant.                                                 *)
taken == collected - Len(cToR)

Chans ==
    /\ collected \in 0 .. Len(Batches)
    /\ cToR \in Seq(Seq(Logs)) /\ Len(cToR) <= CToRCap /\ Len(cToR) <= collected
    /\ \A i \in DOMAIN cToR : cToR[i] = Batches[taken + i]
    /\ todo \in Seq(Logs) /\ IsInjective(todo)
    /\ rToS \in Seq(Logs) /\ Len(rToS) <= RToSCap /\ IsInjective(rToS)
Loops == /\ routerPc \in {"run", "exited"} /\ senderPc \in {"run", "exited"}
         /\ cancelled \in BOOLEAN
Funs ==
    /\ phase \in [Logs -> Phases]
    /\ extra \in [Logs -> Extras \cup {NoExtra}]
    /\ DOMAIN sigs = Logs
    /\ post \in [Slots -> Posting]
    /\ posts \in [Slots -> 0 .. MaxPosts]
    /\ DOMAIN msg = Slots

\* The sender has taken the instance of l.
Out(l) == phase[l] = "emitted" /\ l \notin Range(rToS)

LogInv(l) ==
    /\ l \notin Taken \/ l \in Range(todo) => phase[l] = "none"
    /\ l \in Range(todo) => l \in Taken
    /\ phase[l] \in {"complete", "sign", "emit", "emitted"} => Routable(l)
    /\ phase[l] \in {"emit", "emitted"} => sigs[l] = hashesForSigning(l)
    /\ l \in Range(rToS) => phase[l] = "emitted"

SlotInv(s) ==
    /\ post[s] # "none" <=> Out(s[1]) /\ s[2] \in DOMAIN Tees(s[1])
    /\ post[s] # "panic"
    /\ post[s] \in {"post", "delivered", "failed"} => msg[s] = PrepareInstruction(s[1], s[2])
    /\ post[s] \in {"none", "prepare"} => posts[s] = 0
    /\ post[s] \in {"post", "delivered", "failed"} => posts[s] > 0

Good(m) ==
    /\ Routable(m.log)
    /\ m.machine \in Range(TeeMachines[m.log])
    /\ m.signature = [log |-> m.log, teeId |-> m.machine.teeId, extra |-> m.extra]
GoodReceived == \A m \in received : m \in Messages /\ Good(m)

Inv == /\ Chans /\ Loops /\ Funs /\ GoodReceived
       /\ \A l \in Logs : LogInv(l)
       /\ \A s \in Slots : SlotInv(s)

\* What the invariant says to the properties.
LEMMA InvSound == Inv => /\ TypeOK /\ ReceivedIsSignedForReceiver /\ SenderNeverPanics
<1> SUFFICES ASSUME Inv PROVE TypeOK /\ ReceivedIsSignedForReceiver /\ SenderNeverPanics
  OBVIOUS
<1>1. TypeOK
  BY DEF Inv, Chans, Loops, Funs, GoodReceived, TypeOK
<1>2. ReceivedIsSignedForReceiver
  BY DEF Inv, GoodReceived, Good, ReceivedIsSignedForReceiver
<1>3. SenderNeverPanics
  BY DEF Inv, SlotInv, SenderNeverPanics
<1> QED BY <1>1, <1>2, <1>3

----------------------------------------------------------------------------
(* Frames: what a step leaves alone keeps its invariant.                    *)
SameData(l) == extra'[l] = extra[l] /\ sigs'[l] = sigs[l]
SamePlace(l) == /\ (l \in Taken)' <=> l \in Taken
                /\ (l \in Range(todo))' <=> l \in Range(todo)
                /\ (l \in Range(rToS))' <=> l \in Range(rToS)
SamePost(s) == post'[s] = post[s] /\ posts'[s] = posts[s] /\ msg'[s] = msg[s]

\* What is signed depends on nothing but the instance.
LEMMA SameHashes ==
    ASSUME NEW l \in Logs, SameData(l) PROVE hashesForSigning(l)' = hashesForSigning(l)
  BY DEF SameData, hashesForSigning, HashForSigning, Tees

\* Steps elsewhere leave the part of a log alone.
LEMMA LogFrame ==
    ASSUME NEW l \in Logs, LogInv(l), SameData(l), SamePlace(l), phase'[l] = phase[l]
    PROVE  LogInv(l)'
<1>1. hashesForSigning(l)' = hashesForSigning(l)
  BY SameHashes
<1>2. sigs'[l] = sigs[l] /\ (Routable(l)' <=> Routable(l))
  BY DEF SameData, Routable
<1> QED BY <1>1, <1>2 DEF LogInv, SamePlace

\* Steps elsewhere leave the part of a slot alone.
LEMMA SlotFrame ==
    ASSUME NEW s \in Slots, SlotInv(s), SamePost(s), Out(s[1])' <=> Out(s[1]),
           post[s] = "none" \/ SameData(s[1])
    PROVE  SlotInv(s)'
<1>1. post'[s] = post[s] /\ posts'[s] = posts[s] /\ msg'[s] = msg[s]
  BY DEF SamePost
<1>2. Tees(s[1])' = Tees(s[1])
  BY DEF Tees
<1>3. CASE post[s] = "none"
  BY <1>1, <1>2, <1>3 DEF SlotInv
<1>4. CASE SameData(s[1])
  <2>1. PrepareInstruction(s[1], s[2])' = PrepareInstruction(s[1], s[2])
    BY <1>2, <1>4 DEF PrepareInstruction, SameData
  <2> QED BY <1>1, <1>2, <2>1 DEF SlotInv
<1> QED BY <1>3, <1>4

\* Steps of a log's own goroutine before the sender has its instance.
LEMMA LogStep ==
    ASSUME Inv, NEW l \in Logs,
           UNCHANGED <<collected, cToR, routerPc, todo, rToS, sender, cancelled>>,
           Funs', phase[l] # "emitted", phase'[l] # "emitted", LogInv(l)',
           \A k \in Logs \ {l} : SameData(k) /\ phase'[k] = phase[k]
    PROVE  Inv'
<1>1. Chans' /\ Loops'
  BY DEF Inv, Chans, Loops, taken, sender
<1>2. GoodReceived'
  BY DEF Inv, GoodReceived, Good, Routable, Messages, sender
<1>3. \A k \in Logs : SamePlace(k)
  BY DEF SamePlace, Taken
<1>4. ASSUME NEW k \in Logs \ {l} PROVE LogInv(k)'
  BY <1>3, <1>4, LogFrame DEF Inv
<1>5. ASSUME NEW s \in Slots PROVE SlotInv(s)'
  <2>1. s[1] \in Logs
    BY SlotFacts
  <2>2. Out(s[1])' <=> Out(s[1])
    BY <1>3, <2>1 DEF Out, SamePlace
  <2>3. post[s] = "none" \/ SameData(s[1])
    BY <2>1 DEF Inv, SlotInv, Out
  <2>4. SamePost(s)
    BY DEF SamePost, sender
  <2> QED BY <2>2, <2>3, <2>4, SlotFrame DEF Inv
<1> QED BY <1>1, <1>2, <1>4, <1>5 DEF Inv

\* Steps of the sender's goroutine for one machine.
LEMMA SlotStep ==
    ASSUME Inv, NEW s \in Slots,
           UNCHANGED <<router, senderPc, phase, instance, rToS, cancelled>>,
           Funs', GoodReceived', SlotInv(s)',
           \A t \in Slots \ {s} : SamePost(t)
    PROVE  Inv'
<1> USE DEF router, instance
<1>1. Chans' /\ Loops'
  BY DEF Inv, Chans, Loops, taken
<1>2. \A k \in Logs : SamePlace(k) /\ SameData(k) /\ phase'[k] = phase[k]
  BY DEF SamePlace, SameData, Taken
<1>3. ASSUME NEW k \in Logs PROVE LogInv(k)'
  BY <1>2, LogFrame DEF Inv
<1>4. ASSUME NEW t \in Slots \ {s} PROVE SlotInv(t)'
  <2>1. t[1] \in Logs /\ SamePost(t)
    BY SlotFacts
  <2>2. Out(t[1])' <=> Out(t[1])
    BY <1>2, <2>1 DEF Out, SamePlace
  <2> QED BY <1>2, <2>1, <2>2, SlotFrame DEF Inv
<1> QED BY <1>1, <1>3, <1>4 DEF Inv
----------------------------------------------------------------------------
(* The collector and the router.                                            *)

\* Steps that move batches and logs between the channel and the router only.
LEMMA RouterStep ==
    ASSUME Inv, UNCHANGED <<phase, instance, rToS, sender>>, Chans', Loops',
           \A l \in Logs : LogInv(l)'
    PROVE  Inv'
<1> USE DEF instance, sender
<1>1. Funs' /\ GoodReceived'
  BY DEF Inv, Funs, GoodReceived, Good, Routable, Messages
<1>2. ASSUME NEW s \in Slots PROVE SlotInv(s)'
  <2>1. SamePost(s) /\ (Out(s[1])' <=> Out(s[1])) /\ SameData(s[1])
    BY DEF SamePost, Out, SameData
  <2> QED BY <2>1, SlotFrame DEF Inv
<1> QED BY <1>1, <1>2 DEF Inv

\* The collector sends a batch; the channel stays a window of Batches.
LEMMA CollectInv == ASSUME Inv, Collect PROVE Inv' /\ UNCHANGED taken
<1>1. /\ collected \in 0 .. Len(Batches) /\ collected < Len(Batches)
      /\ cToR \in Seq(Seq(Logs)) /\ Len(cToR) < CToRCap /\ Len(cToR) <= collected
      /\ cToR' = Append(cToR, Batches[collected + 1]) /\ collected' = collected + 1
      /\ \A i \in DOMAIN cToR : cToR[i] = Batches[taken + i]
      /\ Batches \in Seq(Seq(Logs)) /\ CToRCap \in Nat
  BY PipelineAssumption DEF Inv, Chans, Collect
<1>2. Len(Batches) \in Nat /\ Batches[collected + 1] \in Seq(Logs)
  BY <1>1, LenProperties, ElementOfSeq
<1>3. /\ cToR' \in Seq(Seq(Logs)) /\ Len(cToR') = Len(cToR) + 1 /\ Len(cToR) \in Nat
      /\ \A i \in DOMAIN cToR' : cToR'[i] = IF i = Len(cToR) + 1 THEN Batches[collected + 1] ELSE cToR[i]
      /\ \A i \in DOMAIN cToR' : i = Len(cToR) + 1 \/ i \in DOMAIN cToR
  BY <1>1, <1>2
<1>4. taken' = taken
  BY <1>1, <1>3 DEF taken
<1>5. taken + (Len(cToR) + 1) = collected + 1
  BY <1>1, <1>3 DEF taken
<1>6. \A i \in DOMAIN cToR' : cToR'[i] = Batches[taken' + i]
  BY <1>1, <1>3, <1>4, <1>5
<1>7. UNCHANGED <<routerPc, todo, phase, instance, rToS, sender, cancelled>>
  BY DEF Collect
<1>8. Chans'
  <2>1. todo' \in Seq(Logs) /\ IsInjective(todo') /\ rToS' \in Seq(Logs)
        /\ Len(rToS') <= RToSCap /\ IsInjective(rToS')
    BY <1>7 DEF Inv, Chans
  <2>2. collected' \in 0 .. Len(Batches) /\ Len(cToR') <= CToRCap /\ Len(cToR') <= collected'
    BY <1>1, <1>2, <1>3
  <2> QED BY <1>3, <1>6, <2>1, <2>2 DEF Chans
<1>9. ASSUME NEW l \in Logs PROVE LogInv(l)'
  <2>1. SamePlace(l) /\ SameData(l) /\ phase'[l] = phase[l]
    BY <1>4, <1>7 DEF SamePlace, SameData, Taken, taken, instance
  <2> QED BY <2>1, LogFrame DEF Inv
<1>10. Loops'
  BY <1>7 DEF Inv, Loops, sender
<1> QED BY <1>4, <1>7, <1>8, <1>9, <1>10, RouterStep

\* The router takes a batch, of which it has seen no log before: here it is that
\* the collector sends no log twice.
LEMMA RouterTakesInv ==
    ASSUME Inv, RouterTakes
    PROVE  /\ Inv'
           /\ Range(todo') \subseteq Logs
           /\ \A l \in Range(todo') : l \notin Taken
           /\ \A l \in Logs : (l \in Taken)' <=> l \in Taken \/ l \in Range(todo')
<1>1. /\ collected \in 0 .. Len(Batches) /\ cToR \in Seq(Seq(Logs)) /\ cToR # << >>
      /\ Len(cToR) <= CToRCap /\ Len(cToR) <= collected
      /\ \A i \in DOMAIN cToR : cToR[i] = Batches[taken + i]
      /\ Batches \in Seq(Seq(Logs)) /\ CToRCap \in Nat
      /\ todo = << >> /\ todo' = Head(cToR) /\ cToR' = Tail(cToR)
      /\ UNCHANGED <<collected, routerPc, phase, instance, rToS, sender, cancelled>>
  BY PipelineAssumption DEF Inv, Chans, RouterTakes
<1>2. /\ Len(cToR) \in Nat \ {0} /\ DOMAIN cToR = 1 .. Len(cToR) /\ Head(cToR) = cToR[1]
      /\ Tail(cToR) \in Seq(Seq(Logs)) /\ Len(Tail(cToR)) = Len(cToR) - 1
      /\ DOMAIN Tail(cToR) = 1 .. Len(cToR) - 1
      /\ \A i \in 1 .. Len(cToR) - 1 : Tail(cToR)[i] = cToR[i + 1]
  BY <1>1
<1>3. /\ Len(Batches) \in Nat /\ DOMAIN Batches = 1 .. Len(Batches)
      /\ taken \in Nat /\ taken + 1 \in DOMAIN Batches
      /\ Batches[taken + 1] \in Seq(Logs)
  <2>1. Len(Batches) \in Nat /\ DOMAIN Batches = 1 .. Len(Batches)
    BY <1>1, LenProperties
  <2>2. taken \in Nat /\ taken + 1 \in 1 .. Len(Batches)
    BY <1>1, <1>2, <2>1 DEF taken
  <2> QED BY <1>1, <2>1, <2>2, ElementOfSeq
<1>4. todo' = Batches[taken + 1]
  <2>1. 1 \in DOMAIN cToR
    BY <1>2
  <2>2. cToR[1] = Batches[taken + 1]
    BY <1>1, <2>1
  <2> QED BY <1>1, <1>2, <2>2
<1>5. taken' = taken + 1
  BY <1>1, <1>2 DEF taken
<1>6. \A i \in DOMAIN cToR' : cToR'[i] = Batches[taken' + i]
  <2> SUFFICES ASSUME NEW i \in 1 .. Len(cToR) - 1 PROVE Tail(cToR)[i] = Batches[(taken + 1) + i]
    BY <1>1, <1>2, <1>5
  <2>1. i + 1 \in DOMAIN cToR /\ (taken + 1) + i = taken + (i + 1)
    BY <1>2, <1>3
  <2> QED BY <1>1, <1>2, <2>1
<1>7. todo' \in Seq(Logs) /\ IsInjective(todo')
  BY <1>3, <1>4, BatchesAssumption DEF IsInjective
<1>8. Chans'
  <2>1. /\ rToS' \in Seq(Logs) /\ Len(rToS') <= RToSCap /\ IsInjective(rToS')
        /\ collected' \in 0 .. Len(Batches)
    BY <1>1 DEF Inv, Chans
  <2>2. cToR' \in Seq(Seq(Logs)) /\ Len(cToR') <= CToRCap /\ Len(cToR') <= collected'
    BY <1>1, <1>2
  <2> QED BY <1>6, <1>7, <2>1, <2>2 DEF Chans
<1>9. Loops'
  BY <1>1 DEF Inv, Loops, sender
<1>10. Range(todo') \subseteq Logs
  BY <1>3, <1>4, LenProperties, ElementOfSeq DEF Range
<1>11. \A l : (l \in Taken)' <=> l \in Taken \/ l \in Range(todo')
  <2>1. 1 .. taken + 1 = (1 .. taken) \cup {taken + 1}
    BY <1>3
  <2>2. Taken = UNION {Range(Batches[k]) : k \in 1 .. taken}
    BY DEF Taken, taken
  <2>3. Taken' = UNION {Range(Batches[k]) : k \in 1 .. taken + 1}
    BY <1>5 DEF Taken, taken
  <2> QED BY <1>4, <2>1, <2>2, <2>3, Zenon
<1>12. ASSUME NEW l \in Range(todo') PROVE l \notin Taken
  <2> SUFFICES ASSUME l \in Taken PROVE FALSE
    OBVIOUS
  <2>1. PICK k \in 1 .. taken : l \in Range(Batches[k])
    BY DEF Taken, taken
  <2>2. PICK i \in DOMAIN Batches[k] : Batches[k][i] = l
    BY <2>1 DEF Range
  <2>3. PICK j \in DOMAIN Batches[taken + 1] : Batches[taken + 1][j] = l
    BY <1>4, <1>12 DEF Range
  <2>4. k \in DOMAIN Batches /\ k # taken + 1
    BY <1>3
  <2> QED BY <1>3, <2>2, <2>3, <2>4, BatchesAssumption
<1>13. ASSUME NEW l \in Logs PROVE LogInv(l)'
  <2>1. Range(todo) = {}
    BY <1>1 DEF Range
  <2>2. CASE l \in Range(todo')
    <3>1. phase[l] = "none" /\ l \notin Range(rToS)
      BY <1>12, <2>2 DEF Inv, LogInv
    <3> QED BY <1>1, <1>11, <2>2, <3>1 DEF LogInv
  <2>3. CASE l \notin Range(todo')
    <3>1. SamePlace(l) /\ SameData(l) /\ phase'[l] = phase[l]
      BY <1>1, <1>11, <2>1, <2>3 DEF SamePlace, SameData, instance
    <3> QED BY <3>1, LogFrame DEF Inv
  <2> QED BY <2>2, <2>3
<1> QED BY <1>1, <1>8, <1>9, <1>10, <1>11, <1>12, <1>13, RouterStep

\* Handle ignores the first log of its batch, or starts a goroutine for it.
LEMMA HandleInv ==
    ASSUME Inv, Handle, NEW l, l = Head(todo)
    PROVE  /\ Inv' /\ l \in Logs /\ l \in Taken /\ phase[l] = "none"
           /\ phase'[l] \in {"ignored", "sign", "complete"}
           /\ \A k \in Logs \ {l} : phase'[k] = phase[k]
<1>1. /\ todo \in Seq(Logs) /\ todo # << >> /\ IsInjective(todo) /\ todo' = Tail(todo)
      /\ UNCHANGED <<collected, cToR, routerPc, instance, rToS, sender, cancelled>>
  BY DEF Inv, Chans, Handle
<1>2. /\ l \in Logs /\ l \in Range(todo) /\ todo' \in Seq(Logs) /\ IsInjective(todo')
      /\ Range(todo') = Range(todo) \ {l}
  BY <1>1, TailFacts
<1>3. phase[l] = "none" /\ l \in Taken /\ l \notin Range(rToS)
  BY <1>2 DEF Inv, LogInv
<1>4. phase \in [Logs -> Phases]
  BY DEF Inv, Funs
<1>5. /\ phase' = [phase EXCEPT ![l] = phase'[l]]
      /\ phase'[l] \in {"ignored", "sign", "complete"}
      /\ phase'[l] # "ignored" => Routable(l)
  BY <1>2, <1>4 DEF Handle, Routable, Filter, instClass
<1>6. phase' \in [Logs -> Phases] /\ \A k \in Logs \ {l} : phase'[k] = phase[k]
  BY <1>2, <1>4, <1>5 DEF Phases
<1>7. Chans'
  BY <1>1, <1>2 DEF Inv, Chans, taken
<1>8. Loops' /\ Funs' /\ GoodReceived'
  BY <1>1, <1>6 DEF Inv, Loops, Funs, GoodReceived, Good, Routable, Messages, sender, instance
<1>9. \A k \in Logs : ((k \in Taken)' <=> k \in Taken) /\ SameData(k)
  BY <1>1 DEF Taken, SameData, instance
<1>10. LogInv(l)'
  <2>1. (l \in Taken)' /\ l \notin Range(todo') /\ l \notin Range(rToS')
    BY <1>1, <1>2, <1>3, <1>9
  <2>2. phase'[l] # "ignored" => Routable(l)'
    BY <1>5 DEF Routable
  <2> QED BY <1>5, <2>1, <2>2 DEF LogInv
<1>11. ASSUME NEW k \in Logs \ {l} PROVE LogInv(k)'
  <2>1. SamePlace(k)
    BY <1>1, <1>2, <1>9 DEF SamePlace
  <2> QED BY <1>6, <1>9, <2>1, LogFrame DEF Inv
<1>12. ASSUME NEW s \in Slots PROVE SlotInv(s)'
  <2>1. s[1] \in Logs /\ SamePost(s) /\ SameData(s[1])
    BY <1>1, <1>9, SlotFacts DEF SamePost, sender
  <2>2. Out(s[1])' <=> Out(s[1])
    BY <1>1, <1>3, <1>5, <1>6, <2>1 DEF Out
  <2> QED BY <2>1, <2>2, SlotFrame DEF Inv
<1>13. Inv'
  <2>1. \A k \in Logs : LogInv(k)'
    BY <1>10, <1>11
  <2> QED BY <1>7, <1>8, <1>12, <2>1 DEF Inv
<1> QED BY <1>2, <1>3, <1>5, <1>6, <1>13
----------------------------------------------------------------------------
(* The goroutine of an instruction.                                         *)

\* Nothing has been sent of a log before its instance is out.
LEMMA NotOut ==
    ASSUME Inv, NEW l \in Logs, phase[l] # "emitted"
    PROVE  l \notin Range(rToS) /\ \A s \in Slots : s[1] = l => post[s] = "none"
<1>1. l \notin Range(rToS)
  BY DEF Inv, LogInv
<1>2. \A s \in Slots : SlotInv(s)
  BY DEF Inv
<1> QED BY <1>1, <1>2 DEF SlotInv, Out

\* FDC and backup processing add to the instance before it is signed.
LEMMA CompleteInv ==
    ASSUME Inv, NEW l \in Logs, Complete(l)
    PROVE  /\ Inv' /\ phase[l] = "complete" /\ phase'[l] = "sign"
           /\ \A k \in Logs \ {l} : phase'[k] = phase[k]
<1>1. PICK x \in Extras : extra' = [extra EXCEPT ![l] = x]
  BY DEF Complete
<1>2. /\ phase[l] = "complete" /\ phase' = [phase EXCEPT ![l] = "sign"]
      /\ UNCHANGED <<collected, cToR, routerPc, todo, sigs, rToS, sender, cancelled>>
  BY DEF Complete, router
<1>3. /\ phase \in [Logs -> Phases] /\ extra \in [Logs -> Extras \cup {NoExtra}]
      /\ Funs
  BY DEF Inv, Funs
<1>4. /\ phase' \in [Logs -> Phases] /\ phase'[l] = "sign"
      /\ \A k \in Logs \ {l} : phase'[k] = phase[k]
  BY <1>2, <1>3 DEF Phases
<1>5. /\ extra' \in [Logs -> Extras \cup {NoExtra}]
      /\ \A k \in Logs \ {l} : SameData(k)
  BY <1>1, <1>2, <1>3 DEF SameData
<1>6. Funs'
  BY <1>2, <1>3, <1>4, <1>5 DEF Funs, sender
<1>7. LogInv(l)'
  <2>1. LogInv(l) /\ (Routable(l)' <=> Routable(l))
    BY DEF Inv, Routable
  <2>2. SamePlace(l)
    BY <1>2 DEF SamePlace, Taken
  <2> QED BY <1>2, <1>4, <2>1, <2>2 DEF LogInv, SamePlace
<1>8. Inv'
  BY <1>2, <1>4, <1>5, <1>6, <1>7, LogStep
<1> QED BY <1>2, <1>4, <1>8

\* A log's goroutine ends without an instance.
LEMMA FailedStep ==
    ASSUME Inv, NEW l \in Logs, phase[l] \in {"complete", "sign", "emit"},
           phase' = [phase EXCEPT ![l] = "failed"],
           UNCHANGED <<router, instance, rToS, sender, cancelled>>
    PROVE  /\ Inv' /\ phase'[l] = "failed"
           /\ \A k \in Logs \ {l} : phase'[k] = phase[k]
<1>1. phase \in [Logs -> Phases] /\ Funs
  BY DEF Inv, Funs
<1>2. /\ phase' \in [Logs -> Phases] /\ phase'[l] = "failed"
      /\ \A k \in Logs \ {l} : phase'[k] = phase[k]
  BY <1>1 DEF Phases
<1>3. Funs'
  BY <1>1, <1>2 DEF Funs, sender, instance
<1>4. LogInv(l)'
  <2>1. LogInv(l) /\ l \notin Range(rToS)
    BY NotOut DEF Inv
  <2>2. SamePlace(l)
    BY DEF SamePlace, Taken, router
  <2> QED BY <1>2, <2>1, <2>2 DEF LogInv, SamePlace
<1>5. \A k \in Logs \ {l} : SameData(k)
  BY DEF SameData, instance
<1>6. Inv'
  BY <1>2, <1>3, <1>4, <1>5, LogStep DEF router
<1> QED BY <1>2, <1>6

\* Signatures that are accepted are those of the hashes that were to be signed.
LEMMA AcceptedIsSigned ==
    ASSUME Inv, NEW l \in Logs, NEW answer \in SignerAnswers(hashesForSigning(l)),
           SignAccepts(hashesForSigning(l), answer)
    PROVE  answer = hashesForSigning(l)
<1> DEFINE h == hashesForSigning(l)
<1>1. h \in Seq(Signature) /\ Len(h) \in Nat /\ DOMAIN h = 1 .. Len(h)
  BY HashesFacts, LenProperties DEF Inv, Funs
<1>2. /\ Len(answer) = Len(h)
      /\ answer = h \/ answer = SubSeq(h, 1, Len(h) - 1) \/ answer = Append(h, "surplus")
  BY DEF SignerAnswers, SignAccepts
<1> HIDE DEF h
<1>3. answer # Append(h, "surplus")
  <2>1. h \in Seq(Signature \cup {"surplus"})
    BY <1>1, SeqMonotonic
  <2>2. Len(Append(h, "surplus")) = Len(h) + 1
    BY <2>1
  <2> QED BY <1>1, <1>2, <2>2
<1>4. CASE answer = SubSeq(h, 1, Len(h) - 1)
  <2>1. \A i \in 1 .. Len(h) - 1 : h[i] \in Signature
    BY <1>1, ElementOfSeq
  <2> DEFINE n == Len(h) - 1
  <2>2. n \in Int
    BY <1>1
  <2> HIDE DEF n
  <2>3. /\ SubSeq(h, 1, n) \in Seq(Signature)
        /\ Len(SubSeq(h, 1, n)) = IF 1 <= n THEN n - 1 + 1 ELSE 0
    BY <2>1, <2>2, SubSeqProperties DEF n
  <2>4. answer \in Seq(Signature) /\ Len(answer) = IF 1 <= n THEN n - 1 + 1 ELSE 0
    BY <1>4, <2>3, Zenon DEF n
  <2>5. Len(h) = 0 /\ Len(answer) = 0 /\ answer \in Seq(Signature)
    <3>1. Len(answer) = n + 1
      BY <1>1, <1>2 DEF n
    <3>2. n = -1 /\ Len(answer) = 0
      BY <2>2, <2>4, <3>1
    <3>3. Len(h) = 0
      BY <1>1, <3>2 DEF n
    <3> QED BY <2>4, <3>2, <3>3
  <2> QED BY <1>1, <2>5, SeqEqual DEF h
<1> QED BY <1>2, <1>3, <1>4 DEF h

\* Base.Sign keeps one signature for each hash, in their order, or fails.
LEMMA SignInv ==
    ASSUME Inv, NEW l \in Logs, Sign(l)
    PROVE  /\ Inv' /\ phase[l] = "sign" /\ phase'[l] \in {"emit", "failed"}
           /\ \A k \in Logs \ {l} : phase'[k] = phase[k]
<1> USE DEF router
<1>1. /\ phase[l] = "sign"
      /\ UNCHANGED <<router, extra, rToS, sender, cancelled>>
  BY DEF Sign
<1>2. PICK answer \in SignerAnswers(hashesForSigning(l)) :
          IF SignAccepts(hashesForSigning(l), answer)
          THEN /\ sigs' = [sigs EXCEPT ![l] = answer]
               /\ phase' = [phase EXCEPT ![l] = "emit"]
          ELSE /\ phase' = [phase EXCEPT ![l] = "failed"]
               /\ UNCHANGED sigs
  BY DEF Sign
<1>3. CASE ~SignAccepts(hashesForSigning(l), answer)
  BY <1>1, <1>2, <1>3, FailedStep DEF instance
<1>4. CASE SignAccepts(hashesForSigning(l), answer)
  <2>1. sigs' = [sigs EXCEPT ![l] = hashesForSigning(l)] /\ phase' = [phase EXCEPT ![l] = "emit"]
    BY <1>2, <1>4, AcceptedIsSigned
  <2>2. phase \in [Logs -> Phases] /\ Funs /\ DOMAIN sigs = Logs
    BY DEF Inv, Funs
  <2>3. /\ phase' \in [Logs -> Phases] /\ phase'[l] = "emit"
        /\ \A k \in Logs \ {l} : phase'[k] = phase[k]
    BY <2>1, <2>2 DEF Phases
  <2>4. /\ DOMAIN sigs' = Logs /\ sigs'[l] = hashesForSigning(l)
        /\ \A k \in Logs \ {l} : SameData(k)
    BY <1>1, <2>1, <2>2 DEF SameData
  <2>5. Funs'
    BY <1>1, <2>2, <2>3, <2>4 DEF Funs, sender
  <2>6. hashesForSigning(l)' = hashesForSigning(l)
    BY <1>1 DEF hashesForSigning, HashForSigning, Tees
  <2>7. LogInv(l)'
    <3>1. LogInv(l) /\ (Routable(l)' <=> Routable(l))
      BY DEF Inv, Routable
    <3>2. SamePlace(l)
      BY <1>1 DEF SamePlace, Taken
    <3>3. l \notin Range(rToS)
      BY <1>1, NotOut
    <3> QED BY <1>1, <2>3, <2>4, <2>6, <3>1, <3>2, <3>3 DEF LogInv, SamePlace
  <2>8. Inv'
    BY <1>1, <2>3, <2>4, <2>5, <2>7, LogStep
  <2> QED BY <1>1, <2>3, <2>8
<1> QED BY <1>3, <1>4

\* The instance goes out, once; or the context is done.
LEMMA EmitInv ==
    ASSUME Inv, NEW l \in Logs, Emit(l)
    PROVE  /\ Inv' /\ phase[l] = "emit" /\ phase'[l] = "emitted"
           /\ Range(rToS') = Range(rToS) \cup {l}
           /\ \A k \in Logs \ {l} : phase'[k] = phase[k]
<1> USE DEF router, instance, sender
<1>1. /\ phase[l] = "emit" /\ Len(rToS) < RToSCap /\ rToS' = Append(rToS, l)
      /\ phase' = [phase EXCEPT ![l] = "emitted"]
      /\ UNCHANGED <<router, instance, sender, cancelled>>
  BY DEF Emit
<1>2. phase \in [Logs -> Phases] /\ Funs /\ rToS \in Seq(Logs) /\ IsInjective(rToS)
  BY DEF Inv, Funs, Chans
<1>3. l \notin Range(rToS) /\ \A s \in Slots : s[1] = l => post[s] = "none"
  BY <1>1, NotOut
<1>4. /\ rToS' \in Seq(Logs) /\ Len(rToS') = Len(rToS) + 1 /\ IsInjective(rToS')
      /\ Range(rToS') = Range(rToS) \cup {l}
  BY <1>1, <1>2, <1>3, AppendFacts
<1>5. /\ phase' \in [Logs -> Phases] /\ phase'[l] = "emitted"
      /\ \A k \in Logs \ {l} : phase'[k] = phase[k]
  BY <1>1, <1>2 DEF Phases
<1>6. Chans'
  <2>1. Len(rToS') <= RToSCap
    BY <1>1, <1>2, <1>4, PipelineAssumption
  <2> QED BY <1>1, <1>4, <2>1 DEF Inv, Chans, taken
<1>7. Loops' /\ Funs' /\ GoodReceived'
  BY <1>1, <1>2, <1>5 DEF Inv, Loops, Funs, GoodReceived, Good, Routable, Messages
<1>8. \A k \in Logs : SameData(k) /\ ((k \in Taken)' <=> k \in Taken)
                      /\ ((k \in Range(todo))' <=> k \in Range(todo))
  BY <1>1 DEF SameData, Taken
<1>9. LogInv(l)'
  <2>1. LogInv(l) /\ (Routable(l)' <=> Routable(l))
    BY DEF Inv, Routable
  <2>2. hashesForSigning(l)' = hashesForSigning(l) /\ sigs'[l] = sigs[l]
    BY <1>8, SameHashes DEF SameData
  <2> QED BY <1>1, <1>5, <1>8, <2>1, <2>2 DEF LogInv
<1>10. ASSUME NEW k \in Logs \ {l} PROVE LogInv(k)'
  <2>1. SamePlace(k)
    BY <1>4, <1>8 DEF SamePlace
  <2> QED BY <1>5, <1>8, <2>1, LogFrame DEF Inv
<1>11. ASSUME NEW s \in Slots PROVE SlotInv(s)'
  <2>1. s[1] \in Logs /\ SamePost(s) /\ SameData(s[1])
    BY <1>1, <1>8, SlotFacts DEF SamePost
  <2>2. Out(s[1])' <=> Out(s[1])
    BY <1>1, <1>4, <1>5, <2>1 DEF Out
  <2> QED BY <2>1, <2>2, SlotFrame DEF Inv
<1>12. \A k \in Logs : LogInv(k)'
  BY <1>9, <1>10
<1>13. Inv'
  BY <1>6, <1>7, <1>11, <1>12 DEF Inv
<1> QED BY <1>1, <1>4, <1>5, <1>13

\* An error of the processor ends its goroutine.
LEMMA ProcessFailsInv ==
    ASSUME Inv, NEW l \in Logs, ProcessFails(l) \/ EmitCancelled(l)
    PROVE  /\ Inv' /\ phase[l] \in {"complete", "sign", "emit"} /\ phase'[l] = "failed"
           /\ \A k \in Logs \ {l} : phase'[k] = phase[k]
  BY FailedStep DEF ProcessFails, EmitCancelled

----------------------------------------------------------------------------
(* The sender.                                                              *)
\* The sender starts one goroutine for each machine of the instance.
LEMMA SenderTakesInv ==
    ASSUME Inv, SenderTakes, NEW l, l = Head(rToS)
    PROVE  /\ Inv' /\ l \in Logs /\ l \in Range(rToS) /\ phase[l] = "emitted"
           /\ Range(rToS') = Range(rToS) \ {l}
           /\ \A s \in Slots : post'[s] = IF s[1] = l /\ s[2] \in DOMAIN Tees(l)
                                          THEN "prepare" ELSE post[s]
           /\ \A s \in Slots : s[1] = l => post[s] = "none"
<1>1. /\ rToS \in Seq(Logs) /\ rToS # << >> /\ IsInjective(rToS) /\ rToS' = Tail(rToS)
      /\ Len(rToS) <= RToSCap
      /\ UNCHANGED <<router, senderPc, phase, instance, posts, msg, received, cancelled>>
  BY DEF Inv, Chans, SenderTakes
<1>2. /\ l \in Logs /\ l \in Range(rToS) /\ rToS' \in Seq(Logs) /\ Len(rToS') = Len(rToS) - 1
      /\ IsInjective(rToS') /\ Range(rToS') = Range(rToS) \ {l}
  BY <1>1, TailFacts
<1>3. phase[l] = "emitted" /\ ~Out(l)
  BY <1>2 DEF Inv, LogInv, Out
<1>4. \A s \in Slots : s[1] = l => post[s] = "none"
  <2>1. \A s \in Slots : SlotInv(s)
    BY DEF Inv
  <2> QED BY <1>3, <2>1 DEF SlotInv
<1>5. post' = [s \in Slots |-> IF s[1] = l /\ s[2] \in DOMAIN Tees(s[1])
                                THEN "prepare" ELSE post[s]]
  BY DEF SenderTakes
<1>6. \A s \in Slots : post'[s] = IF s[1] = l /\ s[2] \in DOMAIN Tees(l)
                                  THEN "prepare" ELSE post[s]
  BY <1>5
<1>7. post' \in [Slots -> Posting]
  <2>1. post \in [Slots -> Posting]
    BY DEF Inv, Funs
  <2> QED BY <1>5, <2>1 DEF Posting
<1>8. Chans'
  <2>1. Len(rToS') <= RToSCap
    BY <1>1, <1>2, PipelineAssumption
  <2> QED BY <1>1, <1>2, <2>1 DEF Inv, Chans, taken, router
<1>9. Loops' /\ Funs' /\ GoodReceived'
  BY <1>1, <1>7 DEF Inv, Loops, Funs, GoodReceived, Good, Routable, Messages, router, instance
<1>10. \A k \in Logs : /\ SameData(k) /\ phase'[k] = phase[k]
                       /\ ((k \in Taken)' <=> k \in Taken)
                       /\ ((k \in Range(todo))' <=> k \in Range(todo))
  BY <1>1 DEF SameData, Taken, router, instance
<1>11. ASSUME NEW k \in Logs PROVE LogInv(k)'
  <2>1. CASE k # l
    <3>1. SamePlace(k)
      BY <1>2, <1>10, <2>1 DEF SamePlace
    <3> QED BY <1>10, <3>1, LogFrame DEF Inv
  <2>2. CASE k = l
    <3>1. LogInv(l) /\ (Routable(l)' <=> Routable(l))
      BY <1>2 DEF Inv, Routable
    <3>2. hashesForSigning(l)' = hashesForSigning(l) /\ sigs'[l] = sigs[l]
      BY <1>2, <1>10, SameHashes DEF SameData
    <3> QED BY <1>2, <1>3, <1>10, <2>2, <3>1, <3>2 DEF LogInv
  <2> QED BY <2>1, <2>2
<1>12. ASSUME NEW s \in Slots PROVE SlotInv(s)'
  <2>1. s[1] \in Logs
    BY SlotFacts
  <2>2. CASE s[1] # l
    <3>1. SamePost(s) /\ (Out(s[1])' <=> Out(s[1]))
      BY <1>1, <1>2, <1>6, <1>10, <2>1, <2>2 DEF SamePost, Out
    <3> QED BY <1>10, <2>1, <3>1, SlotFrame DEF Inv
  <2>3. CASE s[1] = l
    <3>1. post[s] = "none" /\ SlotInv(s) /\ posts'[s] = posts[s]
      BY <1>1, <1>4, <2>3 DEF Inv
    <3>2. Out(l)' /\ Tees(l)' = Tees(l)
      BY <1>2, <1>3, <1>10 DEF Out, Tees
    <3>3. posts'[s] = 0
      BY <3>1 DEF SlotInv
    <3> QED BY <1>6, <2>3, <3>1, <3>2, <3>3 DEF SlotInv
  <2> QED BY <2>2, <2>3
<1>13. Inv'
  BY <1>8, <1>9, <1>11, <1>12 DEF Inv
<1> QED BY <1>2, <1>3, <1>4, <1>6, <1>13

\* What a machine is posted.
LEMMA PostedIsGood ==
    ASSUME Inv, NEW s \in Slots, post[s] \in {"post", "delivered", "failed"}
    PROVE  /\ s[1] \in Logs /\ s[2] \in DOMAIN Tees(s[1]) /\ phase[s[1]] = "emitted"
           /\ msg[s] \in Messages /\ Good(msg[s])
           /\ msg[s].log = s[1] /\ msg[s].machine = Tees(s[1])[s[2]]
<1> DEFINE l == s[1]
           j == s[2]
<1>1. l \in Logs
  BY SlotFacts
<1>2. /\ Out(l) /\ j \in DOMAIN Tees(l)
      /\ msg[s] = [log |-> l, machine |-> Tees(l)[j], extra |-> extra[l], signature |-> sigs[l][j]]
  BY DEF Inv, SlotInv, PrepareInstruction
<1>3. phase[l] = "emitted" /\ Routable(l) /\ sigs[l] = hashesForSigning(l)
  BY <1>1, <1>2 DEF Inv, LogInv, Out
<1>4. extra \in [Logs -> Extras \cup {NoExtra}]
  BY DEF Inv, Funs
<1>5. sigs[l][j] = [log |-> l, teeId |-> Tees(l)[j].teeId, extra |-> extra[l]]
  BY <1>1, <1>2, <1>3, <1>4, HashesFacts
<1>6. /\ Tees(l)[j] \in Range(TeeMachines[l])
      /\ Tees(l)[j].teeId \in STRING /\ extra[l] \in Extras \cup {NoExtra}
  <2>1. Tees(l)[j] \in Machine /\ Tees(l)[j] \in Range(Tees(l))
    BY <1>1, <1>2, TeesFacts DEF Range
  <2> QED BY <1>1, <1>4, <2>1, TeesFacts DEF Machine
<1>7. msg[s] \in Messages
  <2>1. Tees(l)[j] \in UNION {Range(TeeMachines[k]) : k \in Logs}
    BY <1>1, <1>6
  <2>2. sigs[l][j] \in [log : Logs, teeId : STRING, extra : Extras \cup {NoExtra}]
    BY <1>1, <1>5, <1>6
  <2> HIDE DEF l, j
  <2> QED BY <1>1, <1>2, <1>6, <2>1, <2>2 DEF Messages
<1>8. Good(msg[s])
  <2> HIDE DEF l, j
  <2>1. msg[s].log = l /\ msg[s].machine = Tees(l)[j] /\ msg[s].extra = extra[l]
        /\ msg[s].signature = sigs[l][j]
    BY <1>2
  <2> QED BY <1>3, <1>5, <1>6, <2>1 DEF Good
<1> QED BY <1>1, <1>2, <1>3, <1>7, <1>8

\* PrepareInstruction finds machine and signature at the same position.
LEMMA PrepareInv ==
    ASSUME Inv, NEW s \in Slots, Prepare(s)
    PROVE  /\ Inv' /\ post[s] = "prepare" /\ post'[s] = "post"
           /\ \A t \in Slots \ {s} : post'[t] = post[t]
           /\ posts[s] = 0 /\ posts' = [posts EXCEPT ![s] = 1]
<1>1. /\ post[s] = "prepare"
      /\ UNCHANGED <<router, senderPc, phase, instance, rToS, received, cancelled>>
  BY DEF Prepare
<1>2. s[1] \in Logs /\ Out(s[1]) /\ s[2] \in DOMAIN Tees(s[1]) /\ posts[s] = 0
  BY <1>1, SlotFacts DEF Inv, SlotInv
<1>3. sigs[s[1]] = hashesForSigning(s[1]) /\ extra \in [Logs -> Extras \cup {NoExtra}]
  BY <1>2 DEF Inv, LogInv, Out, Funs
<1>4. s[2] \in DOMAIN sigs[s[1]]
  BY <1>2, <1>3, HashesFacts
<1>5. /\ msg' = [msg EXCEPT ![s] = PrepareInstruction(s[1], s[2])]
      /\ post' = [post EXCEPT ![s] = "post"]
      /\ posts' = [posts EXCEPT ![s] = 1]
  BY <1>4 DEF Prepare
<1>6. Funs
  BY DEF Inv
<1>7. /\ post' \in [Slots -> Posting] /\ post'[s] = "post"
      /\ posts' \in [Slots -> 0 .. MaxPosts] /\ posts'[s] = 1
      /\ DOMAIN msg' = Slots /\ msg'[s] = PrepareInstruction(s[1], s[2])
      /\ \A t \in Slots \ {s} : SamePost(t)
  <2>1. 1 \in 0 .. MaxPosts
    BY PipelineAssumption
  <2> QED BY <2>1, <1>1, <1>2, <1>5, <1>6 DEF Funs, Posting, SamePost
<1>8. Funs'
  BY <1>1, <1>6, <1>7 DEF Funs, instance
<1>9. GoodReceived'
  BY <1>1 DEF Inv, GoodReceived, Good, Routable, Messages
<1>10. SlotInv(s)'
  <2>1. Out(s[1])' /\ Tees(s[1])' = Tees(s[1])
    BY <1>1, <1>2 DEF Out, Tees
  <2>2. PrepareInstruction(s[1], s[2])' = PrepareInstruction(s[1], s[2])
    BY <1>1, <2>1 DEF PrepareInstruction, instance
  <2> QED BY <1>2, <1>7, <2>1, <2>2 DEF SlotInv
<1>11. Inv'
  BY <1>1, <1>7, <1>8, <1>9, <1>10, SlotStep
<1> QED BY <1>1, <1>2, <1>5, <1>7, <1>11 DEF SamePost

\* An attempt ends, with or without another one.
LEMMA PostStep ==
    ASSUME Inv, NEW s \in Slots, post[s] = "post",
           UNCHANGED <<router, senderPc, phase, instance, rToS, msg, received, cancelled>>,
           NEW where \in {"post", "delivered", "failed"}, NEW tried \in 1 .. MaxPosts,
           post' = [post EXCEPT ![s] = where], posts' = [posts EXCEPT ![s] = tried]
    PROVE  /\ Inv' /\ post'[s] = where
           /\ \A t \in Slots \ {s} : post'[t] = post[t]
<1>1. Funs
  BY DEF Inv
<1>2. /\ post' \in [Slots -> Posting] /\ post'[s] = where
      /\ posts' \in [Slots -> 0 .. MaxPosts] /\ posts'[s] = tried
      /\ \A t \in Slots \ {s} : SamePost(t)
  <2>1. tried \in 0 .. MaxPosts
    BY PipelineAssumption
  <2> QED BY <1>1, <2>1 DEF Funs, Posting, SamePost
<1>3. Funs'
  BY <1>1, <1>2 DEF Funs, instance
<1>4. GoodReceived'
  BY DEF Inv, GoodReceived, Good, Routable, Messages
<1>5. SlotInv(s)'
  <2>1. SlotInv(s)
    BY DEF Inv
  <2>2. /\ (Out(s[1])' <=> Out(s[1])) /\ Tees(s[1])' = Tees(s[1]) /\ msg'[s] = msg[s]
        /\ PrepareInstruction(s[1], s[2])' = PrepareInstruction(s[1], s[2])
    BY DEF Out, Tees, PrepareInstruction, instance
  <2>3. tried > 0
    BY PipelineAssumption
  <2> QED BY <1>2, <2>1, <2>2, <2>3 DEF SlotInv
<1>6. Inv'
  BY <1>2, <1>3, <1>4, <1>5, SlotStep
<1> QED BY <1>2, <1>6 DEF SamePost

\* An attempt that is seen to succeed.
LEMMA PostDeliveredInv ==
    ASSUME Inv, NEW s \in Slots, PostDelivered(s)
    PROVE  /\ Inv' /\ post[s] = "post" /\ post'[s] = "delivered"
           /\ \A t \in Slots \ {s} : post'[t] = post[t]
<1>1. posts \in [Slots -> 0 .. MaxPosts]
  BY DEF Inv, Funs
<1>2. /\ post[s] = "post" /\ post' = [post EXCEPT ![s] = "delivered"] /\ posts' = posts
      /\ UNCHANGED <<router, senderPc, phase, instance, rToS, msg, received, cancelled>>
  BY DEF PostDelivered
<1>3. posts[s] \in 1 .. MaxPosts
  BY <1>1, <1>2, PipelineAssumption DEF Inv, SlotInv
<1>4. posts' = [posts EXCEPT ![s] = posts[s]]
  BY <1>1, <1>2
<1> QED BY <1>2, <1>3, <1>4, PostStep

\* An attempt that fails or is given up: another one, or the last.
LEMMA PostFailsInv ==
    ASSUME Inv, NEW s \in Slots, PostFails(s)
    PROVE  /\ Inv' /\ post[s] = "post"
           /\ \/ post' = post /\ posts' = [posts EXCEPT ![s] = posts[s] + 1]
              \/ post'[s] = "failed" /\ posts' = posts
           /\ \A t \in Slots \ {s} : post'[t] = post[t]
<1>1. posts \in [Slots -> 0 .. MaxPosts] /\ post \in [Slots -> Posting] /\ MaxPosts \in Nat
  BY PipelineAssumption DEF Inv, Funs
<1>2. /\ post[s] = "post"
      /\ UNCHANGED <<router, senderPc, phase, instance, rToS, msg, received, cancelled>>
  BY DEF PostFails
<1>3. posts[s] \in 1 .. MaxPosts
  BY <1>1, <1>2 DEF Inv, SlotInv
<1>4. CASE /\ posts[s] < MaxPosts /\ posts' = [posts EXCEPT ![s] = posts[s] + 1]
           /\ post' = post
  <2>1. posts[s] + 1 \in 1 .. MaxPosts
    BY <1>1, <1>3, <1>4
  <2>2. post' = [post EXCEPT ![s] = "post"]
    BY <1>1, <1>2, <1>4
  <2> QED BY <1>2, <1>4, <2>1, <2>2, PostStep
<1>5. CASE post' = [post EXCEPT ![s] = "failed"] /\ posts' = posts
  <2>1. posts' = [posts EXCEPT ![s] = posts[s]]
    BY <1>1, <1>5
  <2> QED BY <1>2, <1>3, <1>5, <2>1, PostStep
<1> QED BY <1>4, <1>5 DEF PostFails

\* A request arrives, whether its goroutine is still there or not.
LEMMA PostArrivesInv ==
    ASSUME Inv, NEW s \in Slots, PostArrives(s)
    PROVE  /\ Inv' /\ post[s] \in {"post", "delivered", "failed"}
           /\ received' = received \cup {msg[s]}
<1>1. /\ posts[s] > 0 /\ received' = received \cup {msg[s]}
      /\ UNCHANGED <<router, senderPc, phase, instance, rToS, post, posts, msg, cancelled>>
  BY DEF PostArrives
<1>2. post[s] \in Posting /\ post[s] # "panic" /\ post[s] \notin {"none", "prepare"}
  BY <1>1 DEF Inv, Funs, SlotInv
<1>3. post[s] \in {"post", "delivered", "failed"}
  BY <1>2 DEF Posting
<1>4. GoodReceived'
  <2>1. \A m \in received' : m \in Messages /\ Good(m)
    BY <1>1, <1>3, PostedIsGood DEF Inv, GoodReceived
  <2> QED BY <2>1 DEF GoodReceived, Good, Routable, Messages
<1>5. Funs' /\ \A t \in Slots : SamePost(t)
  BY <1>1 DEF Inv, Funs, SamePost, instance
<1>6. SlotInv(s)'
  <2>1. /\ (Out(s[1])' <=> Out(s[1])) /\ Tees(s[1])' = Tees(s[1])
        /\ PrepareInstruction(s[1], s[2])' = PrepareInstruction(s[1], s[2])
    BY <1>1 DEF Out, Tees, PrepareInstruction, instance
  <2> QED BY <1>1, <2>1 DEF Inv, SlotInv
<1>7. Inv'
  BY <1>1, <1>4, <1>5, <1>6, SlotStep
<1> QED BY <1>1, <1>3, <1>7

----------------------------------------------------------------------------
\* Nothing has happened yet.
LEMMA InitInv == Init => Inv
<1> SUFFICES ASSUME Init PROVE Inv
  OBVIOUS
<1>1. Range(<< >>) = {} /\ IsInjective(<< >>)
  BY DEF Range, IsInjective
<1>2. Len(Batches) \in Nat /\ RToSCap \in Nat /\ CToRCap \in Nat /\ MaxPosts \in Nat
  BY PipelineAssumption, LenProperties
<1>3. Chans
  BY <1>1, <1>2 DEF Init, Chans
<1>4. Loops /\ GoodReceived
  BY DEF Init, Loops, GoodReceived
<1>5. Funs
  BY <1>2 DEF Init, Funs, Phases, Posting
<1>6. ASSUME NEW l \in Logs PROVE LogInv(l)
  BY <1>1 DEF Init, LogInv
<1>7. ASSUME NEW s \in Slots PROVE SlotInv(s)
  BY SlotFacts DEF Init, SlotInv, Out
<1> QED BY <1>3, <1>4, <1>5, <1>6, <1>7 DEF Inv

\* Steps that change no more than the loops and the cancellation.
LEMMA LoopStep ==
    ASSUME Inv, UNCHANGED <<collected, cToR, todo, phase, instance, rToS, post, posts, msg, received>>,
           Loops'
    PROVE  Inv' /\ UNCHANGED taken
<1> USE DEF instance
<1>1. Chans' /\ Funs' /\ UNCHANGED taken
  BY DEF Inv, Chans, Funs, taken
<1>2. GoodReceived'
  BY DEF Inv, GoodReceived, Good, Routable, Messages
<1>3. \A l \in Logs : SameData(l) /\ SamePlace(l) /\ phase'[l] = phase[l]
  BY DEF SameData, SamePlace, Taken
<1>4. ASSUME NEW l \in Logs PROVE LogInv(l)'
  BY <1>3, LogFrame DEF Inv
<1>5. ASSUME NEW s \in Slots PROVE SlotInv(s)'
  <2>1. SamePost(s) /\ SameData(s[1]) /\ (Out(s[1])' <=> Out(s[1]))
    BY DEF SamePost, SameData, Out
  <2> QED BY <2>1, SlotFrame DEF Inv
<1> QED BY <1>1, <1>2, <1>4, <1>5 DEF Inv

\* Both loops may end at any time after the cancellation.
LEMMA ExitsInv ==
    ASSUME Inv, RouterExits \/ SenderExits \/ Cancel \/ UNCHANGED vars
    PROVE  Inv' /\ UNCHANGED taken
<1>1. Loops'
  <2>1. routerPc' \in {"run", "exited"} /\ senderPc' \in {"run", "exited"}
    BY DEF Inv, Loops, RouterExits, SenderExits, Cancel, vars, router, sender
  <2>2. cancelled' \in BOOLEAN
    <3>1. cancelled' = cancelled \/ cancelled' = TRUE
      BY DEF RouterExits, SenderExits, Cancel, vars
    <3> QED BY <3>1 DEF Inv, Loops
  <2> QED BY <2>1, <2>2 DEF Loops
<1>2. UNCHANGED <<collected, cToR, todo, phase, instance, rToS, post, posts, msg, received>>
  BY DEF RouterExits, SenderExits, Cancel, vars, router, sender, instance
<1> QED BY <1>1, <1>2, LoopStep

\* Every step keeps the invariant.
LEMMA StepInv == Inv /\ [Next]_vars => Inv'
<1> SUFFICES ASSUME Inv, [Next]_vars PROVE Inv'
  OBVIOUS
<1>1. CASE Collect \/ RouterTakes \/ Handle
  BY <1>1, CollectInv, RouterTakesInv, HandleInv
<1>2. CASE RouterExits \/ SenderExits \/ Cancel \/ UNCHANGED vars
  BY <1>2, ExitsInv
<1>3. ASSUME NEW l \in Logs, Process(l) PROVE Inv'
  BY <1>3, CompleteInv, SignInv, ProcessFailsInv, EmitInv DEF Process
<1>4. CASE SenderTakes
  BY <1>4, SenderTakesInv
<1>5. ASSUME NEW s \in Slots, Deliver(s) \/ PostArrives(s) PROVE Inv'
  BY <1>5, PrepareInv, PostDeliveredInv, PostFailsInv, PostArrivesInv DEF Deliver
<1> QED BY <1>1, <1>2, <1>3, <1>4, <1>5 DEF Next

(* The inductive invariant of router, goroutines and sender.                *)
THEOREM SpecInv == Spec => []Inv
<1> QED BY InitInv, StepInv, PTL DEF Spec

(* The types of Pipeline.                                                   *)
THEOREM Typing == Spec => []TypeOK
<1> QED BY SpecInv, InvSound, PTL

(* Each machine receives the instruction meant for it, signed for it: the    *)
(* positions of machines, hashes and signatures agree after removeDuplicates *)
(* and whatever number of signatures the remote signer answers with.         *)
THEOREM SignedForReceiver == Spec => []ReceivedIsSignedForReceiver
<1> QED BY SpecInv, InvSound, PTL

(* No goroutine of SendToTEE indexes beyond the signatures.                  *)
THEOREM NoPanic == Spec => []SenderNeverPanics
<1> QED BY SpecInv, InvSound, PTL
----------------------------------------------------------------------------
\* Machines that differ are served through slots that differ.
LEMMA InvServesOnce == Inv => EachMachineOnce
<1> SUFFICES ASSUME Inv, NEW l \in Logs,
                    \E s \in Slots : s[1] = l /\ post[s] # "none",
                    \A s \in Slots : s[1] = l => post[s] \notin {"prepare", "post"}
             PROVE  /\ {msg[<<l, j>>].machine : j \in Served(l)} = Range(TeeMachines[l])
                    /\ Cardinality(Served(l)) = Cardinality(Range(TeeMachines[l]))
  BY DEF EachMachineOnce
<1> DEFINE u == Tees(l)
           n == Len(u)
<1>1. Out(l)
  BY DEF Inv, SlotInv
<1>2. /\ n \in Nat /\ DOMAIN u = 1 .. n /\ n <= Len(TeeMachines[l])
      /\ u \in Seq(Machine) /\ IsInjective(u) /\ Range(u) = Range(TeeMachines[l])
      /\ Len(TeeMachines[l]) \in Nat
  BY TeesFacts, LenProperties, PipelineAssumption
<1>3. ASSUME NEW j \in 1 .. Len(TeeMachines[l])
      PROVE  /\ <<l, j>> \in Slots
             /\ post[<<l, j>>] \in {"delivered", "failed"} <=> j \in DOMAIN u
             /\ j \in DOMAIN u => msg[<<l, j>>].machine = u[j]
  <2>1. <<l, j>> \in Slots /\ <<l, j>>[1] = l /\ <<l, j>>[2] = j
    BY DEF Slots
  <2>2. SlotInv(<<l, j>>) /\ post[<<l, j>>] \in Posting
    BY <2>1 DEF Inv, Funs
  <2>3. post[<<l, j>>] \notin {"prepare", "post", "panic"}
    BY <2>1, <2>2 DEF SlotInv
  <2>4. post[<<l, j>>] # "none" <=> j \in DOMAIN u
    BY <1>1, <2>1, <2>2 DEF SlotInv
  <2>5. post[<<l, j>>] \in {"delivered", "failed"} <=> j \in DOMAIN u
    BY <2>2, <2>3, <2>4 DEF Posting
  <2>6. ASSUME j \in DOMAIN u PROVE msg[<<l, j>>].machine = u[j]
    BY <2>1, <2>2, <2>5, <2>6 DEF SlotInv, PrepareInstruction
  <2> QED BY <2>1, <2>5, <2>6
<1>4. Served(l) = 1 .. n
  <2>1. \A j \in 1 .. n : j \in 1 .. Len(TeeMachines[l])
    BY <1>2
  <2>2. Served(l) = {j \in 1 .. Len(TeeMachines[l]) : j \in DOMAIN u}
    BY <1>3 DEF Served
  <2> HIDE DEF u, n
  <2> QED BY <1>2, <2>1, <2>2
<1>5. {msg[<<l, j>>].machine : j \in Served(l)} = Range(TeeMachines[l])
  <2>1. \A j \in 1 .. n : msg[<<l, j>>].machine = u[j]
    BY <1>2, <1>3
  <2>2. Range(u) = {u[j] : j \in 1 .. n}
    BY <1>2 DEF Range
  <2>3. {msg[<<l, j>>].machine : j \in 1 .. n} = {u[j] : j \in 1 .. n}
    BY <2>1
  <2> QED BY <1>2, <1>4, <2>2, <2>3
<1>6. Cardinality(Served(l)) = Cardinality(Range(TeeMachines[l]))
  <2> HIDE DEF u, n
  <2>1. u \in [1 .. n -> Range(u)]
    <3>1. \A j \in DOMAIN u : u[j] \in Range(u)
      BY DEF Range
    <3>2. u = [j \in DOMAIN u |-> u[j]]
      BY <1>2, LenProperties DEF n
    <3> QED BY <1>2, <3>1, <3>2
  <2>2. u \in Bijection(1 .. n, Range(u))
    BY <1>2, <2>1 DEF Bijection, Injection, Surjection, Range
  <2>3. IsFiniteSet(1 .. n) /\ ExistsBijection(1 .. n, Range(u))
    BY <1>2, <2>2, FS_Interval DEF ExistsBijection
  <2>4. Cardinality(Range(u)) = Cardinality(1 .. n)
    BY <2>3, FS_Bijection
  <2> QED BY <1>2, <1>4, <2>4
<1> QED BY <1>5, <1>6

(* Each machine of an event is served by exactly one goroutine of the        *)
(* sender, however often the event names it.                                 *)
THEOREM ServedOnce == Spec => []EachMachineOnce
<1> QED BY SpecInv, InvServesOnce, PTL

----------------------------------------------------------------------------
(* The refinement: what a step does to the stages and the offers.           *)
stages == [l \in Logs |-> stageOf(l)]
offering == {t \in Slots : post[t] \in {"prepare", "post"}}
offers == {<<s[1], Tees(s[1])[s[2]]>> : s \in offering}
requests == UNION {{<<<<msg[s].log, msg[s].machine>>, n>> : n \in 1 .. posts[s]} : s \in Slots}
reached == {<<m.log, m.machine>> : m \in received}
offerOf(s) == <<s[1], Tees(s[1])[s[2]]>>

\* What the stage of a log depends on.
LEMMA StageSame ==
    ASSUME NEW l \in Logs, (l \in Taken)' <=> l \in Taken, phase'[l] = phase[l],
           (l \in Range(rToS))' <=> l \in Range(rToS)
    PROVE  stageOf(l)' = stageOf(l)
  BY DEF stageOf

\* The stage of one log changes.
LEMMA StageStep ==
    ASSUME NEW l \in Logs, \A k \in Logs \ {l} : stageOf(k)' = stageOf(k)
    PROVE  stages' = [stages EXCEPT ![l] = stageOf(l)']
<1>1. stages = [k \in Logs |-> stageOf(k)] /\ stages' = [k \in Logs |-> stageOf(k)']
  BY DEF stages
<1>2. [stages EXCEPT ![l] = stageOf(l)']
         = [k \in Logs |-> IF k = l THEN stageOf(l)' ELSE stageOf(k)]
  BY <1>1
<1>3. [k \in Logs |-> stageOf(k)'] = [k \in Logs |-> IF k = l THEN stageOf(l)' ELSE stageOf(k)]
  OBVIOUS
<1> QED BY <1>1, <1>2, <1>3

\* No stage changes.
LEMMA StagesUnchanged ==
    ASSUME \A k \in Logs : stageOf(k)' = stageOf(k) PROVE stages' = stages
  BY DEF stages

\* No offer is opened or closed.
LEMMA OffersUnchanged ==
    ASSUME \A s \in Slots : post'[s] \in {"prepare", "post"} <=> post[s] \in {"prepare", "post"}
    PROVE  offers' = offers
<1>1. offering' = offering
  BY DEF offering
<1>2. \A s : Tees(s[1])' = Tees(s[1])
  BY DEF Tees
<1> QED BY <1>1, <1>2 DEF offers

\* An offer is made by one slot only.
LEMMA OffersClose ==
    ASSUME Inv, NEW s \in Slots, post[s] = "post", post'[s] \in {"delivered", "failed"},
           \A t \in Slots \ {s} : post'[t] = post[t]
    PROVE  offers' = offers \ {<<s[1], Tees(s[1])[s[2]]>>}
<1>1. offering' = offering \ {s} /\ s \in offering
  BY DEF offering
<1>2. \A t \in offering : t \in Slots /\ t = <<t[1], t[2]>> /\ t[1] \in Logs /\ t[2] \in DOMAIN Tees(t[1])
  <2>1. \A t \in offering : t \in Slots /\ post[t] # "none"
    BY DEF offering
  <2> QED BY <2>1, SlotFacts DEF Inv, SlotInv
<1>3. ASSUME NEW t \in offering,
             <<t[1], Tees(t[1])[t[2]]>> = <<s[1], Tees(s[1])[s[2]]>>
      PROVE  t = s
  <2>1. t[1] = s[1] /\ Tees(s[1])[t[2]] = Tees(s[1])[s[2]]
    BY <1>3
  <2>2. t[2] = s[2]
    BY <1>1, <1>2, <2>1, TeesFacts DEF IsInjective
  <2> QED BY <1>1, <1>2, <2>1, <2>2
<1>4. \A t : Tees(t[1])' = Tees(t[1])
  BY DEF Tees
<1>5. offers' = {<<t[1], Tees(t[1])[t[2]]>> : t \in offering \ {s}}
  BY <1>1, <1>4 DEF offers
<1> QED BY <1>1, <1>3, <1>5, Zenon DEF offers

\* Slots that are served have different offers.
LEMMA OfferOfOne ==
    ASSUME NEW s \in Slots, NEW t \in Slots,
           s[2] \in DOMAIN Tees(s[1]), t[2] \in DOMAIN Tees(t[1]), offerOf(s) = offerOf(t)
    PROVE  s = t
<1>1. s = <<s[1], s[2]>> /\ t = <<t[1], t[2]>> /\ s[1] \in Logs
  BY SlotFacts
<1>2. t[1] = s[1] /\ Tees(s[1])[t[2]] = Tees(s[1])[s[2]]
  BY DEF offerOf
<1>3. t[2] = s[2]
  BY <1>1, <1>2, TeesFacts DEF IsInjective
<1> QED BY <1>1, <1>2, <1>3

\* What a machine is asked is its own offer.
LEMMA RequestOfSlot ==
    ASSUME Inv, NEW s \in Slots, posts[s] > 0
    PROVE  /\ <<msg[s].log, msg[s].machine>> = offerOf(s)
           /\ s[1] \in Logs /\ s[2] \in DOMAIN Tees(s[1])
           /\ offerOf(s) \in {s[1]} \X Range(TeeMachines[s[1]])
<1>1. post[s] \in Posting /\ post[s] # "panic" /\ post[s] \notin {"none", "prepare"}
  BY DEF Inv, Funs, SlotInv
<1>2. post[s] \in {"post", "delivered", "failed"}
  BY <1>1 DEF Posting
<1>3. s[1] \in Logs /\ s[2] \in DOMAIN Tees(s[1])
      /\ msg[s].log = s[1] /\ msg[s].machine = Tees(s[1])[s[2]]
  BY <1>2, PostedIsGood
<1>4. Tees(s[1])[s[2]] \in Range(TeeMachines[s[1]])
  <2>1. Tees(s[1])[s[2]] \in Range(Tees(s[1]))
    BY <1>3 DEF Range
  <2> QED BY <1>3, <2>1, TeesFacts
<1> QED BY <1>3, <1>4 DEF offerOf

\* The requests made, slot by slot.
RequestsBySlot == UNION {{<<offerOf(s), n>> : n \in 1 .. posts[s]} : s \in Slots}
OwnRequests == requests = RequestsBySlot
LEMMA RequestsAre == Inv => OwnRequests
<1> SUFFICES ASSUME Inv PROVE requests = RequestsBySlot
  BY DEF OwnRequests
<1> DEFINE sent(s) == {<<<<msg[s].log, msg[s].machine>>, n>> : n \in 1 .. posts[s]}
           own(s) == {<<offerOf(s), n>> : n \in 1 .. posts[s]}
<1>1. ASSUME NEW s \in Slots PROVE sent(s) = own(s)
  <2>1. posts[s] \in Nat
    BY PipelineAssumption DEF Inv, Funs
  <2>2. CASE posts[s] = 0
    BY <2>2
  <2>3. CASE posts[s] > 0
    BY <2>3, RequestOfSlot
  <2> QED BY <2>1, <2>2, <2>3
<1>2. requests = UNION {sent(s) : s \in Slots}
  BY DEF requests
<1>3. RequestsBySlot = UNION {own(s) : s \in Slots}
  BY DEF RequestsBySlot
<1> HIDE DEF sent, own
<1>4. {sent(s) : s \in Slots} = {own(s) : s \in Slots}
  BY <1>1
<1> QED BY <1>2, <1>3, <1>4

\* The same of the next state.
LEMMA RequestsAreNext == Inv' => OwnRequests'
<1> QED BY RequestsAre, PTL

\* One attempt more is one request more.
LEMMA RequestsStep ==
    ASSUME Inv, Inv', NEW s \in Slots, s[2] \in DOMAIN Tees(s[1]),
           posts' = [posts EXCEPT ![s] = posts[s] + 1]
    PROVE  /\ posts[s] + 1 \in 1 .. MaxPosts
           /\ <<offerOf(s), posts[s] + 1>> \notin requests
           /\ requests' = requests \cup {<<offerOf(s), posts[s] + 1>>}
<1> DEFINE k == posts[s] + 1
           made(u, n) == {<<offerOf(u), i>> : i \in 1 .. n}
<1>1. /\ MaxPosts \in Nat /\ posts \in [Slots -> 0 .. MaxPosts]
      /\ posts' \in [Slots -> 0 .. MaxPosts]
  BY PipelineAssumption DEF Inv, Funs
<1>2. posts'[s] = k /\ \A u \in Slots \ {s} : posts'[u] = posts[u]
  BY <1>1
<1>3. k \in 1 .. MaxPosts
  BY <1>1, <1>2
<1>4. \A u \in Slots : offerOf(u)' = offerOf(u)
  BY DEF offerOf, Tees
<1>5. /\ requests = UNION {made(u, posts[u]) : u \in Slots}
      /\ requests' = UNION {made(u, posts'[u]) : u \in Slots}
  <2>1. requests = UNION {made(u, posts[u]) : u \in Slots}
    BY RequestsAre DEF OwnRequests, RequestsBySlot
  <2>2. requests' = RequestsBySlot'
    BY RequestsAreNext DEF OwnRequests
  <2> QED BY <1>4, <2>1, <2>2 DEF RequestsBySlot
<1>6. made(s, k) = made(s, posts[s]) \cup {<<offerOf(s), k>>}
  <2>1. 1 .. k = (1 .. posts[s]) \cup {k}
    BY <1>1
  <2> QED BY <2>1
<1>7. <<offerOf(s), k>> \notin requests
  <2> SUFFICES ASSUME NEW u \in Slots, NEW i \in 1 .. posts[u],
                      <<offerOf(s), k>> = <<offerOf(u), i>>
               PROVE  FALSE
    BY <1>5
  <2>1. posts[u] \in Nat /\ posts[s] \in Nat
    BY <1>1
  <2>2. offerOf(u) = offerOf(s) /\ k = i /\ posts[u] > 0
    BY <2>1
  <2>3. u = s
    BY <2>2, RequestOfSlot, OfferOfOne
  <2> QED BY <2>1, <2>2, <2>3
<1> HIDE DEF made, k
<1>8. requests' = requests \cup {<<offerOf(s), k>>}
  BY <1>2, <1>5, <1>6
<1> QED BY <1>3, <1>7, <1>8 DEF k

\* No attempt more is no request more.
LEMMA RequestsUnchanged == ASSUME UNCHANGED <<msg, posts>> PROVE requests' = requests
  BY DEF requests

\* The sender takes an instance: one offer for each machine.
LEMMA OffersOpen ==
    ASSUME Inv, NEW l \in Logs,
           \A s \in Slots : post'[s] = IF s[1] = l /\ s[2] \in DOMAIN Tees(l)
                                       THEN "prepare" ELSE post[s]
    PROVE  offers' = offers \cup ({l} \X Range(TeeMachines[l]))
<1>1. \A s : Tees(s[1])' = Tees(s[1])
  BY DEF Tees
<1>2. offering' = offering \cup {s \in Slots : s[1] = l /\ s[2] \in DOMAIN Tees(l)}
  BY DEF offering
<1> DEFINE new == {s \in Slots : s[1] = l /\ s[2] \in DOMAIN Tees(l)}
<1>3. offers' = offers \cup {<<s[1], Tees(s[1])[s[2]]>> : s \in new}
  BY <1>1, <1>2 DEF offers
<1>4. ASSUME NEW s \in new PROVE <<s[1], Tees(s[1])[s[2]]>> \in {l} \X Range(TeeMachines[l])
  <2>1. Tees(l)[s[2]] \in Range(Tees(l))
    BY DEF Range
  <2> QED BY <2>1, TeesFacts
<1>5. ASSUME NEW o \in {l} \X Range(TeeMachines[l])
      PROVE  \E s \in new : o = <<s[1], Tees(s[1])[s[2]]>>
  <2>1. o = <<l, o[2]>> /\ o[2] \in Range(Tees(l))
    BY TeesFacts
  <2>2. PICK j \in DOMAIN Tees(l) : Tees(l)[j] = o[2]
    BY <2>1 DEF Range
  <2>3. <<l, j>> \in new /\ <<l, j>>[1] = l /\ <<l, j>>[2] = j
    BY <2>2, TeesFacts
  <2> QED BY <2>1, <2>2, <2>3
<1>6. {<<s[1], Tees(s[1])[s[2]]>> : s \in new} = {l} \X Range(TeeMachines[l])
  <2> HIDE DEF new
  <2> QED BY <1>4, <1>5, Zenon
<1> QED BY <1>3, <1>6

\* A log's goroutine drops it, or goes on with it.
LEMMA LogStages ==
    ASSUME Inv, Inv', NEW l \in Logs, phase[l] \in {"complete", "sign", "emit"},
           UNCHANGED <<collected, cToR>>,
           \/ phase'[l] \in {"sign", "emit", "failed"} /\ Range(rToS') = Range(rToS)
           \/ phase'[l] = "emitted" /\ Range(rToS') = Range(rToS) \cup {l},
           \A k \in Logs \ {l} : phase'[k] = phase[k]
    PROVE  \/ stages' = stages
           \/ stages[l] = "taken" /\ stages' = [stages EXCEPT ![l] = "dropped"]
<1>1. \A k \in Logs : (k \in Taken)' <=> k \in Taken
  BY DEF Taken
<1>2. \A k \in Logs \ {l} : stageOf(k)' = stageOf(k)
  BY <1>1, StageSame
<1>3. l \in Taken
  BY DEF Inv, LogInv
<1>4. stageOf(l) = "taken"
  BY <1>3 DEF stageOf
<1>5. CASE phase'[l] = "failed"
  <2>1. stageOf(l)' = "dropped"
    BY <1>1, <1>3, <1>5 DEF stageOf
  <2> QED BY <1>2, <1>4, <2>1, StageStep DEF stages
<1>6. CASE phase'[l] # "failed"
  <2>1. stageOf(l)' = "taken"
    BY <1>1, <1>3, <1>6 DEF stageOf
  <2> QED BY <1>2, <1>4, <2>1, StagesUnchanged
<1> QED BY <1>5, <1>6

\* Every step of router, goroutines and sender is one of Delivery, or none.
LEMMA DeliveryStep ==
    ASSUME Inv, Inv', [Next]_vars
    PROVE  [D!Next]_<<stages, offers, requests, reached>>
<1> USE DEF D!Next, D!Work, D!Network, D!Offers
<1>1. CASE Collect \/ RouterExits \/ SenderExits \/ Cancel \/ UNCHANGED vars
  <2>1. /\ taken' = taken
        /\ UNCHANGED <<phase, rToS, post, posts, msg, received>>
    BY <1>1, CollectInv, ExitsInv DEF Collect, RouterExits, SenderExits, Cancel, vars, router, sender
  <2>2. \A l \in Logs : stageOf(l)' = stageOf(l)
    BY <2>1, StageSame DEF Taken, taken
  <2>3. offers' = offers /\ requests' = requests /\ reached' = reached
    BY <2>1, OffersUnchanged, RequestsUnchanged DEF reached
  <2> QED BY <2>2, <2>3, StagesUnchanged
<1>2. CASE RouterTakes
  <2>1. /\ Range(todo') \in SUBSET Logs
        /\ \A l \in Range(todo') : l \notin Taken
        /\ \A l \in Logs : (l \in Taken)' <=> l \in Taken \/ l \in Range(todo')
    BY <1>2, RouterTakesInv
  <2>2. UNCHANGED <<phase, rToS, post, posts, msg, received>>
    BY <1>2 DEF RouterTakes, sender
  <2>3. \A l \in Range(todo') : stageOf(l) = "none" /\ stageOf(l)' = "taken"
    <3>1. \A l \in Range(todo') : phase[l] = "none"
      BY <2>1 DEF Inv, LogInv
    <3> QED BY <2>1, <2>2, <3>1 DEF stageOf
  <2>4. \A l \in Logs \ Range(todo') : stageOf(l)' = stageOf(l)
    BY <2>1, <2>2, StageSame
  <2>5. /\ \A l \in Range(todo') : stages[l] = "none"
        /\ stages' = [l \in Logs |-> IF l \in Range(todo') THEN "taken" ELSE stages[l]]
    BY <2>1, <2>3, <2>4 DEF stages
  <2>6. offers' = offers /\ requests' = requests /\ reached' = reached
    BY <2>2, OffersUnchanged, RequestsUnchanged DEF reached
  <2>7. D!Accept(Range(todo'))
    BY <2>5, <2>6 DEF D!Accept, stages, offers, offering, requests, reached
  <2> QED BY <2>1, <2>7
<1>3. CASE Handle
  <2> DEFINE l == Head(todo)
  <2>1. /\ l \in Logs /\ l \in Taken /\ phase[l] = "none"
        /\ phase'[l] \in {"ignored", "sign", "complete"}
        /\ \A k \in Logs \ {l} : phase'[k] = phase[k]
    BY <1>3, HandleInv
  <2>2. UNCHANGED <<collected, cToR, rToS, post, posts, msg, received>>
    BY <1>3 DEF Handle, sender
  <2>3. PICK a \in Logs : a = l
    BY <2>1
  <2> HIDE DEF l
  <2>4. \A k \in Logs : (k \in Taken)' <=> k \in Taken
    BY <2>2 DEF Taken
  <2>5. \A k \in Logs \ {a} : stageOf(k)' = stageOf(k)
    BY <2>1, <2>2, <2>3, <2>4, StageSame
  <2>6. stageOf(a) = "taken"
    BY <2>1, <2>3 DEF stageOf
  <2>7. stageOf(a)' \in {"dropped", "taken"}
    BY <2>1, <2>3, <2>4 DEF stageOf
  <2>8. offers' = offers /\ requests' = requests /\ reached' = reached
    BY <2>2, OffersUnchanged, RequestsUnchanged DEF reached
  <2>9. CASE stageOf(a)' = "taken"
    BY <2>5, <2>6, <2>8, <2>9, StagesUnchanged
  <2>10. CASE stageOf(a)' = "dropped"
    <3>1. stages[a] = "taken" /\ stages' = [stages EXCEPT ![a] = "dropped"]
      BY <2>5, <2>6, <2>10, StageStep DEF stages
    <3>2. D!Drop(a)
      BY <2>8, <3>1 DEF D!Drop, stages, offers, offering, requests, reached
    <3> QED BY <3>2
  <2> QED BY <2>7, <2>9, <2>10
<1>4. ASSUME NEW l \in Logs, Process(l) PROVE [D!Next]_<<stages, offers, requests, reached>>
  <2>1. UNCHANGED <<collected, cToR, post, posts, msg, received>>
    BY <1>4 DEF Process, Complete, Sign, ProcessFails, Emit, EmitCancelled, router, sender
  <2>2. \/ stages' = stages
        \/ stages[l] = "taken" /\ stages' = [stages EXCEPT ![l] = "dropped"]
    <3>1. CASE Complete(l) \/ Sign(l) \/ ProcessFails(l) \/ EmitCancelled(l)
      <4>1. rToS' = rToS
        BY <3>1 DEF Complete, Sign, ProcessFails, EmitCancelled
      <4> QED BY <2>1, <3>1, <4>1, CompleteInv, SignInv, ProcessFailsInv, LogStages
    <3>2. CASE Emit(l)
      BY <2>1, <3>2, EmitInv, LogStages
    <3> QED BY <1>4, <3>1, <3>2 DEF Process
  <2>3. offers' = offers /\ requests' = requests /\ reached' = reached
    BY <2>1, OffersUnchanged, RequestsUnchanged DEF reached
  <2>4. ASSUME stages[l] = "taken", stages' = [stages EXCEPT ![l] = "dropped"] PROVE D!Drop(l)
    BY <2>3, <2>4 DEF D!Drop, stages, offers, offering, requests, reached
  <2> QED BY <2>2, <2>3, <2>4
<1>5. CASE SenderTakes
  <2>1. PICK l \in Logs : l = Head(rToS)
    BY <1>5, SenderTakesInv
  <2>2. /\ l \in Range(rToS) /\ phase[l] = "emitted"
        /\ Range(rToS') = Range(rToS) \ {l}
        /\ \A s \in Slots : post'[s] = IF s[1] = l /\ s[2] \in DOMAIN Tees(l)
                                       THEN "prepare" ELSE post[s]
    BY <1>5, <2>1, SenderTakesInv
  <2>3. UNCHANGED <<collected, cToR, phase, posts, msg, received>>
    BY <1>5 DEF SenderTakes, router
  <2>4. \A k \in Logs : (k \in Taken)' <=> k \in Taken
    BY <2>3 DEF Taken
  <2>5. \A k \in Logs \ {l} : stageOf(k)' = stageOf(k)
    BY <2>2, <2>3, <2>4, StageSame
  <2>6. l \in Taken
    BY <2>2 DEF Inv, LogInv
  <2>7. stageOf(l) = "taken" /\ stageOf(l)' = "dispatched"
    BY <2>2, <2>3, <2>4, <2>6 DEF stageOf
  <2>8. stages[l] = "taken" /\ stages' = [stages EXCEPT ![l] = "dispatched"]
    BY <2>5, <2>7, StageStep DEF stages
  <2>9. /\ offers' = offers \cup ({l} \X Range(TeeMachines[l]))
        /\ requests' = requests /\ reached' = reached
    BY <2>2, <2>3, OffersOpen, RequestsUnchanged DEF reached
  <2>10. D!Dispatch(l)
    BY <2>8, <2>9 DEF D!Dispatch, stages, offers, offering, requests, reached
  <2> QED BY <2>10
<1>6. ASSUME NEW s \in Slots, Deliver(s) \/ PostArrives(s)
      PROVE  [D!Next]_<<stages, offers, requests, reached>>
  <2>1. UNCHANGED <<collected, cToR, phase, rToS>>
    BY <1>6 DEF Deliver, Prepare, PostDelivered, PostFails, PostArrives, router
  <2>2. stages' = stages
    BY <2>1, StageSame, StagesUnchanged DEF Taken
  <2> DEFINE l == s[1]
             o == offerOf(s)
  <2>3. post[s] # "none"
    <3>1. CASE PostArrives(s)
      BY <3>1, PostArrivesInv
    <3>2. CASE Deliver(s)
      BY <3>2 DEF Deliver, Prepare, PostDelivered, PostFails
    <3> QED BY <1>6, <3>1, <3>2
  <2>4. l \in Logs /\ s[2] \in DOMAIN Tees(l)
    BY <2>3, SlotFacts DEF Inv, SlotInv
  <2>5. o \in {l} \X Range(TeeMachines[l])
    <3>1. Tees(l)[s[2]] \in Range(Tees(l))
      BY <2>4 DEF Range
    <3> QED BY <2>4, <3>1, TeesFacts DEF offerOf
  <2>6. post[s] \in {"prepare", "post"} => o \in offers
    BY DEF offers, offering, offerOf
  <2>7. ASSUME posts' = [posts EXCEPT ![s] = posts[s] + 1], o \in offers,
               offers' = offers, reached' = reached
        PROVE  \E a \in {l} \X Range(TeeMachines[l]) : D!Ask(a)
    <3>1. D!Ask(o)
      BY <2>2, <2>4, <2>7, RequestsStep
         DEF D!Ask, stages, offers, offering, requests, reached
    <3> QED BY <2>5, <3>1
  <2>8. ASSUME o \in offers, offers' = offers \ {o}, UNCHANGED <<msg, posts, received>>
        PROVE  \E a \in {l} \X Range(TeeMachines[l]) : D!Close(a)
    <3>1. requests' = requests /\ reached' = reached
      BY <2>8, RequestsUnchanged DEF reached
    <3>2. D!Close(o)
      BY <2>2, <2>8, <3>1 DEF D!Close, stages, offers, offering, requests, reached
    <3> QED BY <2>5, <3>2
  <2>9. CASE Prepare(s)
    <3>1. received' = received
      BY <2>9 DEF Prepare
    <3>2. offers' = offers /\ post[s] = "prepare"
      BY <2>9, PrepareInv, OffersUnchanged
    <3>3. posts' = [posts EXCEPT ![s] = posts[s] + 1]
      BY <2>9, PrepareInv
    <3> QED BY <2>4, <2>6, <2>7, <3>1, <3>2, <3>3 DEF reached
  <2>10. CASE PostDelivered(s)
    <3>1. UNCHANGED <<msg, posts, received>>
      BY <2>10 DEF PostDelivered
    <3>2. offers' = offers \ {o} /\ post[s] = "post"
      BY <2>10, PostDeliveredInv, OffersClose DEF offerOf
    <3> QED BY <2>4, <2>6, <2>8, <3>1, <3>2
  <2>11. CASE PostFails(s)
    <3>1. UNCHANGED <<msg, received>> /\ post[s] = "post"
      BY <2>11 DEF PostFails
    <3>2. CASE post' = post /\ posts' = [posts EXCEPT ![s] = posts[s] + 1]
      <4>1. offers' = offers /\ reached' = reached
        BY <3>1, <3>2, OffersUnchanged DEF reached
      <4> QED BY <2>4, <2>6, <2>7, <3>1, <3>2, <4>1
    <3>3. CASE post'[s] = "failed" /\ posts' = posts
      <4>1. offers' = offers \ {o}
        BY <2>11, <3>3, PostFailsInv, OffersClose DEF offerOf
      <4> QED BY <2>4, <2>6, <2>8, <3>1, <3>3, <4>1
    <3> QED BY <2>11, <3>2, <3>3, PostFailsInv
  <2>12. CASE PostArrives(s)
    <3>1. posts[s] > 0 /\ UNCHANGED <<post, posts, msg>>
      BY <2>12 DEF PostArrives
    <3>2. offers' = offers /\ requests' = requests
      BY <3>1, OffersUnchanged, RequestsUnchanged
    <3>3. reached' = reached \cup {o}
      BY <2>12, <3>1, PostArrivesInv, RequestOfSlot DEF reached
    <3>4. <<o, 1>> \in requests /\ 1 \in 1 .. MaxPosts
      <4>1. 1 \in 1 .. posts[s] /\ posts[s] \in 0 .. MaxPosts
        BY <3>1, PipelineAssumption DEF Inv, Funs
      <4> QED BY <4>1, RequestsAre, PipelineAssumption DEF OwnRequests, RequestsBySlot
    <3>5. D!Arrive(o)
      BY <2>2, <3>2, <3>3, <3>4 DEF D!Arrive, stages, offers, offering, requests, reached
    <3> QED BY <2>4, <2>5, <3>5
  <2> QED BY <1>6, <2>9, <2>10, <2>11, <2>12 DEF Deliver
<1> QED BY <1>1, <1>2, <1>3, <1>4, <1>5, <1>6 DEF Next

(* Router, goroutines and sender implement Delivery.                        *)
THEOREM Refinement == Spec => KeepsDelivery
<1>1. Init => D!Init
  <2> SUFFICES ASSUME Init PROVE D!Init
    OBVIOUS
  <2>1. Taken = {}
    BY DEF Init, Taken
  <2>2. \A l \in Logs : stageOf(l) = "none"
    BY <2>1 DEF stageOf
  <2> QED BY <2>2 DEF Init, D!Init
<1>2. Inv /\ Inv' /\ [Next]_vars => [D!Next]_<<stages, offers, requests, reached>>
  BY DeliveryStep
<1>3. Inv /\ Inv' /\ [Next]_vars => [D!Next]_D!delivery
  BY <1>2 DEF stages, offers, offering, requests, reached, D!delivery
<1> QED BY <1>1, <1>3, SpecInv, PTL DEF Spec, KeepsDelivery, D!Spec

(* A machine whose offer is closed is asked no more, and hears nothing it    *)
(* was not asked while the offer was open.                                   *)
THEOREM Closure == Spec => NoRequestAfterClose
<1> DEFINE Asked(l, m) == \E n \in 1 .. MaxPosts : <<<<l, m>>, n>> \in requests
           Quiet(l, m) ==
               /\ stages'[l] = "dispatched" /\ <<l, m>> \notin offers'
               /\ \A n \in 1 .. MaxPosts :
                     <<<<l, m>>, n>> \in requests' => <<<<l, m>>, n>> \in requests
               /\ <<l, m>> \in reached' \ reached => Asked(l, m)
<1>1. ASSUME [D!Next]_<<stages, offers, requests, reached>>,
             NEW l \in Logs, NEW m \in Range(TeeMachines[l]),
             stages[l] = "dispatched", <<l, m>> \notin offers
      PROVE  Quiet(l, m)
  <2>1. ASSUME NEW b \in SUBSET Logs, D!Accept(b)
        PROVE  stages'[l] = "dispatched" /\ UNCHANGED <<offers, requests, reached>>
    BY <1>1, <2>1 DEF D!Accept, stages, offers, offering, requests, reached
  <2>2. ASSUME NEW e \in Logs, D!Drop(e)
        PROVE  stages'[l] = "dispatched" /\ UNCHANGED <<offers, requests, reached>>
    BY <1>1, <2>2 DEF D!Drop, stages, offers, offering, requests, reached
  <2>3. ASSUME NEW e \in Logs, D!Dispatch(e)
        PROVE  /\ stages'[l] = "dispatched" /\ e # l
               /\ offers' = offers \cup ({e} \X Range(TeeMachines[e]))
               /\ UNCHANGED <<requests, reached>>
    BY <1>1, <2>3 DEF D!Dispatch, D!Offers, stages, offers, offering, requests, reached
  <2>4. ASSUME NEW o, D!Ask(o)
        PROVE  /\ o \in offers /\ UNCHANGED <<stages, offers, reached>>
               /\ \E n \in 1 .. MaxPosts : requests' = requests \cup {<<o, n>>}
    BY <2>4 DEF D!Ask, stages, offers, offering, requests, reached
  <2>5. ASSUME NEW o, D!Close(o)
        PROVE  offers' = offers \ {o} /\ UNCHANGED <<stages, requests, reached>>
    BY <2>5 DEF D!Close, stages, offers, offering, requests, reached
  <2>6. ASSUME NEW o, D!Arrive(o)
        PROVE  /\ \E n \in 1 .. MaxPosts : <<o, n>> \in requests
               /\ reached' = reached \cup {o} /\ UNCHANGED <<stages, offers, requests>>
    BY <2>6 DEF D!Arrive, stages, offers, offering, requests, reached
  <2> HIDE DEF stages, offers, requests, reached
  <2>7. ASSUME UNCHANGED <<offers, requests, reached>>, stages'[l] = "dispatched"
        PROVE  Quiet(l, m)
    BY <1>1, <2>7
  <2>8. ASSUME NEW e \in Logs, D!Dispatch(e) PROVE Quiet(l, m)
    <3>1. <<l, m>> \notin {e} \X Range(TeeMachines[e])
      BY <2>3, <2>8
    <3> QED BY <1>1, <2>3, <2>8, <3>1
  <2>9. ASSUME NEW o, D!Ask(o) PROVE Quiet(l, m)
    <3>1. o # <<l, m>> /\ UNCHANGED <<stages, offers, reached>>
      BY <1>1, <2>4, <2>9
    <3>2. \A n : <<<<l, m>>, n>> \in requests' => <<<<l, m>>, n>> \in requests
      BY <2>4, <2>9, <3>1
    <3> QED BY <1>1, <3>1, <3>2
  <2>10. ASSUME NEW o, D!Close(o) PROVE Quiet(l, m)
    BY <1>1, <2>5, <2>10
  <2>11. ASSUME NEW o, D!Arrive(o) PROVE Quiet(l, m)
    <3>1. <<l, m>> \in reached' \ reached => o = <<l, m>>
      BY <2>6, <2>11
    <3>2. UNCHANGED <<stages, offers, requests>>
      BY <2>6, <2>11
    <3>3. <<l, m>> \in reached' \ reached => Asked(l, m)
      BY <2>6, <2>11, <3>1
    <3> QED BY <1>1, <3>2, <3>3
  <2>12. ASSUME NEW b \in SUBSET Logs, D!Accept(b) PROVE Quiet(l, m)
    BY <2>1, <2>7, <2>12
  <2>13. ASSUME NEW e \in Logs, D!Work(e) \/ D!Network(e) PROVE Quiet(l, m)
    <3>1. ASSUME D!Drop(e) PROVE Quiet(l, m)
      BY <2>2, <2>7, <3>1
    <3> HIDE DEF Quiet
    <3> QED BY <2>8, <2>9, <2>10, <2>11, <2>13, <3>1 DEF D!Work, D!Network
  <2>14. CASE UNCHANGED <<stages, offers, requests, reached>>
    BY <1>1, <2>7, <2>14
  <2> HIDE DEF Quiet
  <2> QED BY <1>1, <2>12, <2>13, <2>14 DEF D!Next
<1>2. Inv /\ Inv' /\ [Next]_vars => [D!ClosedForGood]_vars
  <2> SUFFICES ASSUME Inv, Inv', [Next]_vars PROVE D!ClosedForGood
    OBVIOUS
  <2> SUFFICES ASSUME NEW l \in Logs, NEW m \in Range(TeeMachines[l]),
                      stages[l] = "dispatched", <<l, m>> \notin offers
               PROVE  Quiet(l, m)
    BY DEF D!ClosedForGood, stages, offers, offering, requests, reached
  <2> HIDE DEF Quiet
  <2> QED BY <1>1, DeliveryStep
<1> QED BY <1>2, SpecInv, PTL DEF Spec, NoRequestAfterClose
=============================================================================
