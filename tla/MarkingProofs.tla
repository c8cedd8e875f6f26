---------------------------- MODULE MarkingProofs ----------------------------
(***************************************************************************)
(* Proofs about Marking, for any heap, stripes, workers and mutators.      *)
(***************************************************************************)
EXTENDS Marking, FiniteSetTheorems, SequenceTheorems, TLAPS

-----------------------------------------------------------------------------
(* Stacks of objects.                                                      *)

LEMMA Pushed ==
  ASSUME NEW S, NEW s \in Seq(S), NEW e \in S
  PROVE  Append(s, e) \in Seq(S) /\ Range(Append(s, e)) = Range(s) \cup {e}
<1>1. /\ Append(s, e) \in Seq(S) /\ Len(Append(s, e)) = Len(s) + 1
      /\ \A i \in 1 .. Len(s) : Append(s, e)[i] = s[i]
      /\ Append(s, e)[Len(s) + 1] = e
  OBVIOUS
<1>2. DOMAIN s = 1 .. Len(s) /\ DOMAIN Append(s, e) = 1 .. Len(s) + 1 /\ Len(s) \in Nat
  BY <1>1
<1> QED BY <1>1, <1>2 DEF Range

LEMMA Popped ==
  ASSUME NEW S, NEW s \in Seq(S), s # <<>>
  PROVE  /\ Front(s) \in Seq(S) /\ Last(s) \in S
         /\ Range(s) = Range(Front(s)) \cup {Last(s)}
<1>1. Len(s) \in Nat \ {0} /\ DOMAIN s = 1 .. Len(s)
  OBVIOUS
<1>2. /\ Front(s) \in Seq(S) /\ Len(Front(s)) = Len(s) - 1
      /\ \A i \in 1 .. Len(s) - 1 : Front(s)[i] = s[i]
  BY <1>1 DEF Front
<1>3. DOMAIN Front(s) = 1 .. Len(s) - 1
  BY <1>2
<1>4. Last(s) \in S
  BY <1>1 DEF Last
<1> QED BY <1>1, <1>2, <1>3, <1>4 DEF Range, Last

\* The first stack of a list, and the others.
LEMMA Taken ==
  ASSUME NEW S, NEW s \in Seq(S), s # <<>>
  PROVE  /\ Head(s) \in S /\ Tail(s) \in Seq(S)
         /\ \A j \in DOMAIN s : s[j] = Head(s) \/ \E i \in DOMAIN Tail(s) : s[j] = Tail(s)[i]
<1>1. Len(s) \in Nat \ {0} /\ DOMAIN s = 1 .. Len(s)
  OBVIOUS
<1>2. /\ Head(s) = s[1] /\ Tail(s) \in Seq(S) /\ DOMAIN Tail(s) = 1 .. Len(s) - 1
      /\ \A i \in 1 .. Len(s) - 1 : Tail(s)[i] = s[i + 1]
  BY <1>1
<1>3. ASSUME NEW j \in 1 .. Len(s), j # 1
      PROVE  j - 1 \in DOMAIN Tail(s) /\ s[j] = Tail(s)[j - 1]
  BY <1>1, <1>2, <1>3
<1>4. Head(s) \in S
  BY <1>1, <1>2
<1>5. ASSUME NEW j \in DOMAIN s
      PROVE  s[j] = Head(s) \/ \E i \in DOMAIN Tail(s) : s[j] = Tail(s)[i]
  <2>1. CASE j = 1
    BY <1>2, <2>1
  <2>2. CASE j # 1
    BY <1>1, <1>3, <2>2
  <2> QED BY <2>1, <2>2
<1> QED BY <1>2, <1>4, <1>5

LEMMA Prefixed ==
  ASSUME NEW S, NEW s \in Seq(S), NEW e \in S
  PROVE  /\ <<e>> \o s \in Seq(S)
         /\ 1 \in DOMAIN (<<e>> \o s) /\ (<<e>> \o s)[1] = e
         /\ \A j \in DOMAIN s : j + 1 \in DOMAIN (<<e>> \o s) /\ (<<e>> \o s)[j + 1] = s[j]
OBVIOUS

LEMMA Stepped ==
  ASSUME NEW o, NEW i, NEW j
  PROVE  [<<o, i>> EXCEPT ![2] = j] = <<o, j>>
OBVIOUS

\* SetToSeq of a finite set has all its elements.
LEMMA Listed ==
  ASSUME NEW S, IsFiniteSet(S)
  PROVE  SetToSeq(S) \in Seq(S) /\ Range(SetToSeq(S)) = S
<1>0. Cardinality(S) \in Nat /\ ExistsBijection(1 .. Cardinality(S), S)
  BY FS_CardinalityType
<1>1. \E f \in [1 .. Cardinality(S) -> S] : IsInjective(f)
  BY <1>0 DEF ExistsBijection, Bijection, Injection, IsInjective
<1>2. SetToSeq(S) \in [1 .. Cardinality(S) -> S] /\ IsInjective(SetToSeq(S))
  BY <1>1 DEF SetToSeq
<1>3. SetToSeq(S) \in Injection(1 .. Cardinality(S), S)
  BY <1>2 DEF Injection
<1>4. Cardinality(1 .. Cardinality(S)) = Cardinality(S)
  BY <1>0, FS_Interval
<1>5. SetToSeq(S) \in Surjection(1 .. Cardinality(S), S)
  BY <1>3, <1>4, FS_Injection
<1> QED BY <1>0, <1>2, <1>5, SeqDef DEF Surjection, Range

-----------------------------------------------------------------------------
(* The inductive invariant.                                                *)

Visiting == {"check", "load", "mark", "push", "heal"}

PlacesFit ==
  /\ \A w \in Workers :
       /\ pc[w] \in Visiting \cup {"take", "pop", "commit", "done"}
       /\ pc[w] \in {"take", "commit", "done"} => work[w] = <<>>
       /\ pc[w] \in Visiting => at[w] \in Objects \X (1 .. Width)
  /\ \A m \in Mutators :
       /\ pc[m] \in {"idle", "mark", "push", "heal", "commit", "done"}
       /\ pc[m] \in {"mark", "push", "heal"} => at[m] \in Slots /\ ~found[m].good

BeforeMarking ==
  phase = "relocate" =>
    marked = {} /\ \A t \in Threads : pc[t] = IF t \in Workers THEN "take" ELSE "idle"

NullsAreGood == \A s \in Slots : ref[s].obj = Null => Good(s)

ReadsHold ==
  \A t \in Threads :
    /\ pc[t] \in {"mark", "push", "heal"} => ref[at[t]] = found[t] \/ Good(at[t])
    /\ pc[t] = "mark" => failed \/ found[t].obj \in Objects
    /\ pc[t] \in {"push", "heal"} => found[t].obj \in marked
    /\ pc[t] = "heal" => ~found[t].good

VisitedGood ==
  \A w \in Workers : pc[w] \in Visiting /\ at[w][1] \notin Arrays =>
    \A j \in 1 .. at[w][2] - 1 : Good(<<at[w][1], j>>)

IInv ==
  /\ TypeOK /\ PlacesFit /\ BeforeMarking /\ NullsAreGood /\ ReadsHold /\ VisitedGood
  /\ GoodMeansMarked /\ FollowedToTheEnd

-----------------------------------------------------------------------------
(* The operators of the model.                                             *)

LEMMA MineAreStripes == \A w \in Workers : Mine(w) \subseteq Stripes
BY MarkingAssumption DEF Mine, Workers, Stripes

LEMMA StripeOfObject == \A o \in Objects : StripeOf(o) \in Stripes
<1>1. \A n \in Nat, k \in Nat \ {0} : n % k \in 0 .. k - 1
  OBVIOUS
<1> QED BY <1>1, MarkingAssumption DEF StripeOf, Stripes

\* What is on a stack, and what a thread has in its hands.
Stacked(o) ==
  \/ \E t \in Threads, i \in Stripes : o \in Range(stacks[t][i])
  \/ \E i \in Stripes : \E j \in DOMAIN committed[i] : o \in Range(committed[i][j])
  \/ \E w \in Workers : o \in Range(work[w])

Held(o) ==
  \/ \E t \in Threads : pc[t] = "push" /\ o = found[t].obj
  \/ \E w \in Workers : pc[w] \in Visiting /\ o = at[w][1]

LEMMA StackedIs ==
  /\ \A o : o \in OnStacks <=> Stacked(o)
  /\ \A o : o \in OnStacks' <=> Stacked(o)'
<1>1. \A o : o \in OnStacks <=> Stacked(o)
  <2> DEFINE A == UNION {UNION {Range(stacks[t][i]) : i \in Stripes} : t \in Threads}
             B == UNION {UNION {Range(committed[i][j]) : j \in DOMAIN committed[i]} : i \in Stripes}
             C == UNION {Range(work[w]) : w \in Workers}
  <2>1. \A o : o \in A <=> \E t \in Threads, i \in Stripes : o \in Range(stacks[t][i])
    OBVIOUS
  <2>2. \A o : o \in B <=> \E i \in Stripes : \E j \in DOMAIN committed[i] : o \in Range(committed[i][j])
    OBVIOUS
  <2>3. \A o : o \in C <=> \E w \in Workers : o \in Range(work[w])
    OBVIOUS
  <2>4. OnStacks = A \cup B \cup C
    BY DEF OnStacks
  <2> HIDE DEF A, B, C
  <2> QED BY <2>1, <2>2, <2>3, <2>4 DEF Stacked
<1>2. (\A o : o \in OnStacks <=> Stacked(o))'
  BY <1>1, PTL
<1> QED BY <1>1, <1>2

LEMMA HeldIs ==
  /\ \A o : o \in InHand <=> Held(o)
  /\ \A o : o \in InHand' <=> Held(o)'
BY DEF InHand, Held, Visiting, Threads

\* What has been followed stays so if no slot loses its colour and no object
\* leaves the stacks and the hands before its fields are good.
LEMMA StillFollowed ==
  ASSUME FollowedToTheEnd,
         \A s \in Slots : Good(s) => Good(s)',
         \A o \in (marked' \cap Old) \ Arrays :
           \/ o \in marked /\ ~Stacked(o) /\ ~Held(o)
           \/ Stacked(o)' \/ Held(o)'
           \/ \A i \in 1 .. Width : Good(<<o, i>>)'
  PROVE  FollowedToTheEnd'
<1> SUFFICES ASSUME NEW o \in (marked' \cap Old) \ (Arrays \cup OnStacks' \cup InHand'),
                    NEW i \in 1 .. Width
             PROVE  Good(<<o, i>>)'
  BY DEF FollowedToTheEnd
<1>1. ~Stacked(o)' /\ ~Held(o)'
  BY StackedIs, HeldIs
<1>2. CASE o \in marked /\ ~Stacked(o) /\ ~Held(o)
  <2>1. Good(<<o, i>>)
    BY <1>2, StackedIs, HeldIs DEF FollowedToTheEnd
  <2>2. <<o, i>> \in Slots
    BY DEF Slots, Objects
  <2> QED BY <2>1, <2>2
<1> QED BY <1>1, <1>2

\* On to the next field, or back to the stack after the last one.
LEMMA Advancing ==
  ASSUME TypeOK, NEW w \in Workers, at[w] \in Objects \X (1 .. Width), NextField(w)
  PROVE  /\ pc' = [pc EXCEPT ![w] = pc'[w]] /\ at' = [at EXCEPT ![w] = at'[w]]
         /\ \/ /\ pc'[w] = "check" /\ at[w][2] < Width
               /\ at'[w] = <<at[w][1], at[w][2] + 1>>
               /\ at'[w] \in Objects \X (1 .. Width)
            \/ pc'[w] = "pop" /\ at[w][2] = Width /\ at'[w] = at[w]
<1> USE MarkingAssumption
<1>1. w \in Threads /\ DOMAIN at = Threads /\ DOMAIN pc = Threads
  BY DEF TypeOK, Threads
<1>2. PICK o \in Objects, i \in 1 .. Width : at[w] = <<o, i>>
  OBVIOUS
<1>3. CASE i < Width
  <2>1. at' = [at EXCEPT ![w] = [@ EXCEPT ![2] = i + 1]] /\ pc' = [pc EXCEPT ![w] = "check"]
    BY <1>2, <1>3 DEF NextField, Goto
  <2>2. at'[w] = <<o, i + 1>> /\ i + 1 \in 1 .. Width
    BY <1>1, <1>2, <1>3, <2>1, Stepped
  <2> QED BY <1>1, <1>2, <1>3, <2>1, <2>2
<1>4. CASE ~(i < Width)
  <2>1. at' = at /\ pc' = [pc EXCEPT ![w] = "pop"] /\ i = Width
    BY <1>2, <1>4 DEF NextField, Goto
  <2>2. at' = [at EXCEPT ![w] = at'[w]]
    BY <1>1, <2>1 DEF TypeOK
  <2> QED BY <1>1, <1>2, <2>1, <2>2
<1> QED BY <1>3, <1>4

\* The heap after a heal.
LEMMA Healing ==
  ASSUME TypeOK, PlacesFit, ReadsHold, NEW t \in Threads, Heal(t)
  PROVE  /\ at[t] \in Slots /\ found[t].obj \in marked
         /\ ref' \in [Slots -> Refs]
         /\ \A s \in Slots : ref'[s] = ref[s] \/ (s = at[t] /\ ref'[s] = Ref(ref[s].obj, TRUE))
         /\ \A s \in Slots : Good(s) => Good(s)'
         /\ ref'[at[t]].good
         /\ \A s \in Slots : ref'[s].obj = ref[s].obj
         /\ \A s \in Slots : Good(s)' => Good(s) \/ ref[s].obj \in marked
<1>1. pc[t] = "heal" /\ t \in Workers \cup Mutators
  BY DEF Heal, At, Threads
<1>2. at[t] \in Slots
  BY <1>1 DEF PlacesFit, Visiting, Slots
<1>3. found[t].obj \in marked /\ (ref[at[t]] = found[t] \/ Good(at[t]))
  BY <1>1 DEF ReadsHold
<1>4. ref' = [ref EXCEPT ![at[t]] = IF @ = found[t] THEN Ref(@.obj, TRUE) ELSE @]
  BY DEF Heal
<1>5. ref \in [Slots -> Refs]
  BY DEF TypeOK
<1>6. \A r \in Refs : Ref(r.obj, TRUE) \in Refs /\ Ref(r.obj, TRUE).obj = r.obj /\ Ref(r.obj, TRUE).good
  BY DEF Refs, Ref
<1>7. \A s \in Slots : ref'[s] = ref[s] \/ (s = at[t] /\ ref'[s] = Ref(ref[s].obj, TRUE))
  <2>1. \A s \in Slots : s # at[t] => ref'[s] = ref[s]
    BY <1>4, <1>5
  <2>2. ref'[at[t]] = IF ref[at[t]] = found[t] THEN Ref(ref[at[t]].obj, TRUE) ELSE ref[at[t]]
    BY <1>2, <1>4, <1>5
  <2> SUFFICES ASSUME NEW s \in Slots, s = at[t]
               PROVE  ref'[s] = ref[s] \/ ref'[s] = Ref(ref[s].obj, TRUE)
    BY <2>1
  <2> QED BY <2>2
<1>8. (ref'[at[t]] = ref[at[t]] /\ Good(at[t])) \/ ref'[at[t]] = Ref(ref[at[t]].obj, TRUE)
  BY <1>2, <1>3, <1>4, <1>5
<1>9. ref' \in [Slots -> Refs]
  BY <1>2, <1>4, <1>5, <1>6
<1>10. ref'[at[t]].good
  BY <1>2, <1>5, <1>6, <1>8 DEF Good
<1> QED BY <1>2, <1>3, <1>5, <1>6, <1>7, <1>9, <1>10 DEF Good

\* The visit of an object goes on when the field it is at has become good.
LEMMA VisitGoesOn ==
  ASSUME TypeOK, PlacesFit, VisitedGood, NEW w \in Workers, pc[w] \in Visiting,
         at[w] \in Objects \X (1 .. Width), NextField(w), ref'[at[w]].good,
         \A s \in Slots : Good(s) => Good(s)'
  PROVE  /\ VisitedGood'
         /\ \A o : o = at[w][1] /\ o \notin Arrays =>
              Held(o)' \/ \A i \in 1 .. Width : Good(<<o, i>>)'
<1> USE MarkingAssumption
<1>1. /\ pc' = [pc EXCEPT ![w] = pc'[w]] /\ at' = [at EXCEPT ![w] = at'[w]]
      /\ \/ /\ pc'[w] = "check" /\ at[w][2] < Width
            /\ at'[w] = <<at[w][1], at[w][2] + 1>> /\ at'[w] \in Objects \X (1 .. Width)
         \/ pc'[w] = "pop" /\ at[w][2] = Width /\ at'[w] = at[w]
  BY Advancing
<1>2. PICK o \in Objects, i \in 1 .. Width : at[w] = <<o, i>>
  OBVIOUS
<1>3. /\ at[w][1] = o /\ at[w][2] = i
      /\ \A j \in 1 .. Width : <<o, j>> \in Slots
  BY <1>2 DEF Slots
<1>4. ASSUME o \notin Arrays, NEW j \in 1 .. i PROVE Good(<<o, j>>)'
  <2>1. CASE j = i
    BY <1>2, <2>1 DEF Good
  <2>2. CASE j \in 1 .. i - 1
    BY <1>3, <1>4, <2>2 DEF VisitedGood
  <2> QED BY <2>1, <2>2
<1>5. ASSUME NEW u \in Workers, pc'[u] \in Visiting, at'[u][1] \notin Arrays,
             NEW j \in 1 .. at'[u][2] - 1
      PROVE  ref'[<<at'[u][1], j>>].good
  <2>1. CASE u = w
    <3>1. at'[w] = <<o, i + 1>> /\ j \in 1 .. i /\ at'[w][1] = o
      BY <1>1, <1>3, <1>5, <2>1 DEF Visiting
    <3> QED BY <1>4, <1>5, <2>1, <3>1 DEF Good
  <2>2. CASE u # w
    <3>1. pc'[u] = pc[u] /\ at'[u] = at[u]
      BY <1>1, <2>2 DEF TypeOK, Threads
    <3>2. at[u] \in Objects \X (1 .. Width) /\ Good(<<at[u][1], j>>)
      BY <1>5, <3>1 DEF VisitedGood, PlacesFit
    <3>3. j \in 1 .. Width /\ <<at[u][1], j>> \in Slots
      BY <1>5, <3>1, <3>2 DEF Slots
    <3> QED BY <3>1, <3>2, <3>3 DEF Good
  <2> QED BY <2>1, <2>2
<1>6. VisitedGood'
  BY <1>5 DEF VisitedGood, Good
<1>7. CASE pc'[w] = "check"
  BY <1>1, <1>2, <1>3, <1>6, <1>7 DEF Held, Visiting
<1>8. CASE i = Width
  <2>1. \A q : q = at[w][1] /\ q \notin Arrays => \A j \in 1 .. Width : Good(<<q, j>>)'
    BY <1>3, <1>4, <1>8
  <2> QED BY <1>6, <2>1 DEF Good
<1> QED BY <1>1, <1>3, <1>7, <1>8

\* The objects of the roots, and the stacks they are put on.
RootObjects == {ref[s].obj : s \in {q \in Slots : q[1] = Root /\ ref[q].obj # Null}}
StackOf(i) == SetToSeq({o \in RootObjects : StripeOf(o) = i})

LEMMA RootsAreFinite == IsFiniteSet(RootObjects)
<1> DEFINE f == [i \in 1 .. RootSlots |-> ref[<<Root, i>>].obj]
           T == {f[i] : i \in 1 .. RootSlots}
<1>1. f \in Surjection(1 .. RootSlots, T)
  BY DEF Surjection
<1>2. IsFiniteSet(T)
  <2> HIDE DEF f, T
  <2> QED BY <1>1, FS_Interval, FS_Surjection, MarkingAssumption
<1>3. RootObjects \in SUBSET T
  <2> SUFFICES ASSUME NEW s \in Slots, s[1] = Root PROVE ref[s].obj \in T
    BY DEF RootObjects
  <2>1. \E i \in 1 .. RootSlots : s = <<Root, i>>
    BY MarkingAssumption DEF Slots
  <2> QED BY <2>1
<1> HIDE DEF T
<1> QED BY <1>2, <1>3, FS_Subset

LEMMA Wider ==
  ASSUME NEW S, NEW T, S \subseteq T, NEW s \in Seq(S)
  PROVE  s \in Seq(T)
OBVIOUS

LEMMA RootStacks ==
  ASSUME TypeOK
  PROVE  /\ RootObjects \subseteq Objects
         /\ \A i \in Stripes : StackOf(i) \in Seq(Objects)
         /\ \A o \in RootObjects : o \in Range(StackOf(StripeOf(o)))
<1>1. RootObjects \subseteq Objects
  BY DEF RootObjects, TypeOK, Refs
<1>2. ASSUME NEW i
      PROVE  /\ StackOf(i) \in Seq(Objects)
             /\ Range(StackOf(i)) = {o \in RootObjects : StripeOf(o) = i}
  <2> DEFINE S == {o \in RootObjects : StripeOf(o) = i}
  <2>1. S \in SUBSET RootObjects /\ IsFiniteSet(S)
    BY RootsAreFinite, FS_Subset
  <2>2. SetToSeq(S) \in Seq(S) /\ Range(SetToSeq(S)) = S
    <3> HIDE DEF S
    <3> QED BY <2>1, Listed
  <2>3. SetToSeq(S) \in Seq(Objects)
    <3> HIDE DEF S
    <3> QED BY <1>1, <2>1, <2>2, Wider
  <2> QED BY <2>2, <2>3 DEF StackOf
<1> QED BY <1>1, <1>2
-----------------------------------------------------------------------------
(* The invariant is inductive.                                             *)

LEMMA InitIInv == Init => IInv
<1> SUFFICES ASSUME Init PROVE IInv
  OBVIOUS
<1> USE MarkingAssumption DEF Init, Threads
<1>1. \A s \in Slots : ref[s] = NullRef \/ \E o \in Old : ref[s] = Ref(o, FALSE)
  BY DEF OldSlots
<1>2. NullRef \in Refs /\ \A o \in Old : Ref(o, FALSE) \in Refs
  BY DEF NullRef, Ref, Refs, Objects
<1>3. \A w \in Workers : FirstStripe(w) \in Nat
  BY DEF FirstStripe, Workers
<1>4. TypeOK
  <2>1. ref \in [Slots -> Refs]
    <3> DEFINE at0(h, s) == IF s \in OldSlots /\ h[s] # Null THEN Ref(h[s], FALSE) ELSE NullRef
    <3>1. PICK h \in Heaps : ref = [s \in Slots |-> at0(h, s)]
      OBVIOUS
    <3>2. \A s \in Slots : at0(h, s) \in Refs
      BY <1>2
    <3> HIDE MarkingAssumption DEF Init, at0
    <3> QED BY <3>1, <3>2
  <2>2. /\ committed \in [Stripes -> Seq(Seq(Objects))]
        /\ stacks \in [Threads -> [Stripes -> Seq(Objects)]] /\ work \in [Workers -> Seq(Objects)]
    BY DEF NoStacks
  <2>3. /\ found \in [Threads -> Refs] /\ at \in [Threads -> Slots \cup {<<Root, 1>>}]
        /\ stripe \in [Workers -> Nat] /\ holds \in [Mutators -> SUBSET Objects] /\ ops \in Nat
    BY <1>2, <1>3
  <2>4. /\ marked \subseteq Objects /\ fresh \subseteq New /\ freed \subseteq Pages
        /\ phase = "relocate" /\ failed \in BOOLEAN
        /\ pc \in [Threads -> {"take", "idle"}]
    OBVIOUS
  <2> HIDE MarkingAssumption DEF Init
  <2> QED BY <2>1, <2>2, <2>3, <2>4 DEF TypeOK
<1>5. PlacesFit /\ BeforeMarking /\ ReadsHold /\ VisitedGood
  BY DEF PlacesFit, BeforeMarking, ReadsHold, VisitedGood, Visiting
<1>6. NullsAreGood /\ GoodMeansMarked /\ FollowedToTheEnd
  BY <1>1 DEF NullsAreGood, GoodMeansMarked, FollowedToTheEnd, Good, Ref, NullRef, Objects
<1> QED BY <1>4, <1>5, <1>6 DEF IInv

LEMMA NextIInv == IInv /\ [Next]_vars => IInv'
<1> SUFFICES ASSUME IInv, [Next]_vars PROVE IInv'
  OBVIOUS
<1> USE MarkingAssumption DEF Threads, threadVars
<1>0. /\ TypeOK /\ PlacesFit /\ BeforeMarking /\ NullsAreGood /\ ReadsHold /\ VisitedGood
      /\ GoodMeansMarked /\ FollowedToTheEnd
  BY DEF IInv
<1>1. ASSUME NEW w \in Workers, TakeStack(w) PROVE IInv'

  <2> DEFINE i == stripe[w]
  <2>a. i \in Stripes /\ committed[i] \in Seq(Seq(Objects)) /\ committed[i] # <<>>
    BY <1>0, <1>1, MineAreStripes DEF TakeStack, TypeOK
  <2>b. /\ Head(committed[i]) \in Seq(Objects) /\ Tail(committed[i]) \in Seq(Seq(Objects))
        /\ \A j \in DOMAIN committed[i] : \/ committed[i][j] = Head(committed[i])
                                          \/ \E k \in DOMAIN Tail(committed[i]) :
                                               committed[i][j] = Tail(committed[i])[k]
    <3> DEFINE s == committed[i]
    <3>1. s \in Seq(Seq(Objects)) /\ s # <<>>
      BY <2>a
    <3> HIDE DEF s
    <3>2. /\ Head(s) \in Seq(Objects) /\ Tail(s) \in Seq(Seq(Objects))
          /\ \A j \in DOMAIN s : s[j] = Head(s) \/ \E k \in DOMAIN Tail(s) : s[j] = Tail(s)[k]
      BY <3>1, Taken
    <3> QED BY <3>2 DEF s
  <2>1. TypeOK'
    <3>1. committed' \in [Stripes -> Seq(Seq(Objects))] /\ work' \in [Workers -> Seq(Objects)]
      BY <1>0, <1>1, <2>a, <2>b DEF TakeStack, TypeOK
    <3>2. pc' = [pc EXCEPT ![w] = "pop"]
      BY <1>1 DEF TakeStack, Move, Goto
    <3> QED BY <1>0, <1>1, <3>1, <3>2 DEF TakeStack, TypeOK
  <2>2. PlacesFit'
    BY <1>0, <1>1 DEF TakeStack, At, Move, Goto, TypeOK, PlacesFit, Visiting
  <2>3. BeforeMarking'
    BY <1>0, <1>1 DEF TakeStack, At, Move, Goto, BeforeMarking
  <2>4. NullsAreGood'
    BY <1>0, <1>1 DEF TakeStack, At, Move, Goto, TypeOK, NullsAreGood, Good
  <2>5. ReadsHold'
    BY <1>0, <1>1 DEF TakeStack, At, Move, Goto, TypeOK, PlacesFit, ReadsHold, Good
  <2>6. VisitedGood'
    BY <1>0, <1>1 DEF TakeStack, At, Move, Goto, TypeOK, PlacesFit, VisitedGood, Visiting,
       Good
  <2>7. GoodMeansMarked'
    BY <1>0, <1>1 DEF TakeStack, At, Move, Goto, TypeOK, ReadsHold, GoodMeansMarked, Good
  <2>8. FollowedToTheEnd'
    <3>1. ASSUME NEW o, Stacked(o) PROVE Stacked(o)'
      <4>1. /\ committed' = [committed EXCEPT ![i] = Tail(@)] /\ stacks' = stacks
            /\ work' = [work EXCEPT ![w] = Head(committed[i])]
        BY <1>1 DEF TakeStack
      <4>2. CASE \E u \in Threads, k \in Stripes : o \in Range(stacks[u][k])
        BY <4>1, <4>2 DEF Stacked
      <4>3. CASE \E k \in Stripes : \E j \in DOMAIN committed[k] : o \in Range(committed[k][j])
        <5>0. PICK k \in Stripes : \E j \in DOMAIN committed[k] : o \in Range(committed[k][j])
          BY <4>3
        <5>1. PICK j \in DOMAIN committed[k] : o \in Range(committed[k][j])
          BY <5>0
        <5>2. CASE k # i
          BY <1>0, <2>a, <4>1, <5>1, <5>2 DEF Stacked, TypeOK
        <5>3. CASE k = i /\ committed[i][j] = Head(committed[i])
          BY <1>0, <4>1, <5>1, <5>3 DEF Stacked, TypeOK
        <5>4. CASE k = i /\ committed[i][j] # Head(committed[i])
          BY <1>0, <2>a, <2>b, <4>1, <5>1, <5>4 DEF Stacked, TypeOK
        <5> QED BY <5>2, <5>3, <5>4
      <4>4. CASE \E u \in Workers : o \in Range(work[u])
        <5>1. work[w] = <<>>
          BY <1>0, <1>1 DEF TakeStack, At, Move, PlacesFit
        <5>2. Range(work[w]) = {}
          BY <5>1 DEF Range
        <5> QED BY <1>0, <4>1, <4>4, <5>2 DEF Stacked, TypeOK
      <4> QED BY <3>1, <4>2, <4>3, <4>4 DEF Stacked
    <3>2. ASSUME NEW o, Held(o) PROVE Held(o)'
      BY <1>0, <1>1, <3>2 DEF TakeStack, At, Move, Goto, TypeOK, Held, Visiting
    <3>3. marked' = marked /\ ref' = ref
      BY <1>1 DEF TakeStack
    <3> QED BY <1>0, <3>1, <3>2, <3>3, StillFollowed DEF Good
  <2> QED BY <2>1, <2>2, <2>3, <2>4, <2>5, <2>6, <2>7, <2>8 DEF IInv
<1>2. ASSUME NEW w \in Workers, StripeDone(w) PROVE IInv'

  <2>a. /\ pc[w] = "take" /\ pc' = [pc EXCEPT ![w] = pc'[w]] /\ pc'[w] \in {"take", "commit"}
        /\ w \in Threads /\ DOMAIN pc = Threads
    <3>1. w \in Threads /\ DOMAIN pc = Threads
      BY <1>0 DEF TypeOK
    <3>2. CASE stripe[w] \in Mine(w)
      BY <1>2, <3>1, <3>2 DEF StripeDone, Move, At, Goto
    <3>3. CASE stripe[w] \notin Mine(w)
      BY <1>2, <3>1, <3>3 DEF StripeDone, Move, At, Goto
    <3> QED BY <3>2, <3>3
  <2>1. TypeOK'
    <3>1. stripe' \in [Workers -> Nat]
      BY <1>0, <1>2 DEF StripeDone, TypeOK
    <3>2. pc' \in [Threads -> {"take", "pop", "check", "load", "mark", "push", "heal", "idle",
                               "commit", "done"}]
      BY <1>0, <1>2 DEF StripeDone, Move, Goto, TypeOK
    <3> QED BY <1>0, <1>2, <3>1, <3>2 DEF StripeDone, TypeOK
  <2>2. PlacesFit'
    BY <1>0, <1>2, <2>a DEF StripeDone, PlacesFit, Visiting
  <2>3. BeforeMarking'
    BY <1>0, <1>2 DEF StripeDone, At, Move, Goto, BeforeMarking
  <2>4. NullsAreGood'
    BY <1>0, <1>2 DEF StripeDone, At, Move, Goto, TypeOK, NullsAreGood, Good
  <2>5. ReadsHold'
    BY <1>0, <1>2 DEF StripeDone, At, Move, Goto, TypeOK, PlacesFit, ReadsHold, Good
  <2>6. VisitedGood'
    BY <1>0, <1>2, <2>a DEF StripeDone, PlacesFit, VisitedGood, Visiting, Good
  <2>7. GoodMeansMarked'
    BY <1>0, <1>2 DEF StripeDone, At, Move, Goto, TypeOK, ReadsHold, GoodMeansMarked, Good
  <2>8. FollowedToTheEnd'
    <3>1. ASSUME NEW x, Stacked(x) PROVE Stacked(x)'
      BY <1>2, <3>1 DEF StripeDone, Stacked
    <3>2. ASSUME NEW x, Held(x) PROVE Held(x)'
      BY <1>0, <1>2, <2>a, <3>2 DEF StripeDone, TypeOK, Held, Visiting
    <3>3. marked' = marked /\ ref' = ref
      BY <1>2 DEF StripeDone
    <3> QED BY <1>0, <3>1, <3>2, <3>3, StillFollowed DEF Good
  <2> QED BY <2>1, <2>2, <2>3, <2>4, <2>5, <2>6, <2>7, <2>8 DEF IInv
<1>3. ASSUME NEW w \in Workers, PopObject(w) PROVE IInv'

  <2>a. /\ work[w] \in Seq(Objects) /\ work[w] # <<>> /\ pc[w] = "pop"
        /\ pc' = [pc EXCEPT ![w] = "check"] /\ w \in Threads
    BY <1>0, <1>3 DEF PopObject, At, Move, Goto, TypeOK
  <2>b. /\ Front(work[w]) \in Seq(Objects) /\ Last(work[w]) \in Objects
        /\ Range(work[w]) = Range(Front(work[w])) \cup {Last(work[w])}
    BY <2>a, Popped
  <2>c. /\ work' = [work EXCEPT ![w] = Front(work[w])]
        /\ at' = [at EXCEPT ![w] = <<Last(work[w]), 1>>]
        /\ <<Last(work[w]), 1>> \in Objects \X (1 .. Width)
        /\ <<Last(work[w]), 1>>[1] = Last(work[w]) /\ <<Last(work[w]), 1>>[2] = 1
    BY <1>3, <2>b DEF PopObject
  <2>1. TypeOK'
    BY <1>0, <1>3, <2>a, <2>b, <2>c DEF PopObject, TypeOK, Slots
  <2>2. PlacesFit'
    BY <1>0, <1>3, <2>a, <2>c DEF PopObject, TypeOK, PlacesFit, Visiting
  <2>3. BeforeMarking'
    BY <1>0, <1>3 DEF PopObject, At, Move, Goto, BeforeMarking
  <2>4. NullsAreGood'
    BY <1>0, <1>3 DEF PopObject, At, Move, Goto, TypeOK, NullsAreGood, Good
  <2>5. ReadsHold'
    BY <1>0, <1>3, <2>a, <2>c DEF PopObject, TypeOK, ReadsHold, Good
  <2>6. VisitedGood'
    BY <1>0, <1>3, <2>a, <2>c, SMTT(30) DEF PopObject, TypeOK, VisitedGood, Visiting, Good
  <2>7. GoodMeansMarked'
    BY <1>0, <1>3 DEF PopObject, At, Move, Goto, TypeOK, ReadsHold, GoodMeansMarked, Good
  <2>8. FollowedToTheEnd'
    <3>1. ASSUME NEW o, Stacked(o), o # Last(work[w]) PROVE Stacked(o)'
      <4>1. stacks' = stacks /\ committed' = committed
        BY <1>3 DEF PopObject
      <4>2. CASE \E u \in Workers : o \in Range(work[u])
        <5>1. PICK u \in Workers : o \in Range(work[u])
          BY <4>2
        <5>2. o \in Range(work'[u])
          BY <1>0, <2>b, <2>c, <3>1, <5>1 DEF TypeOK
        <5> QED BY <5>2 DEF Stacked
      <4> QED BY <3>1, <4>1, <4>2 DEF Stacked
    <3>2. ASSUME NEW o, Held(o) PROVE Held(o)'
      BY <1>0, <1>3, <2>a, <2>c, <3>2 DEF PopObject, TypeOK, Held, Visiting
    <3>3. ASSUME NEW o, o = Last(work[w]) PROVE Held(o)'
      <4>1. pc'[w] = "check" /\ at'[w] = <<Last(work[w]), 1>>
        BY <1>0, <2>a, <2>c DEF TypeOK
      <4> QED BY <2>c, <3>3, <4>1 DEF Held, Visiting
    <3>4. marked' = marked /\ ref' = ref
      BY <1>3 DEF PopObject
    <3>5. \A s \in Slots : Good(s) => Good(s)'
      BY <3>4 DEF Good
    <3>6. \A o : o = Last(work[w]) \/ (~Stacked(o) /\ ~Held(o)) \/ Stacked(o)' \/ Held(o)'
      BY <3>1, <3>2
    <3>7. \A o \in marked' : (o \in marked /\ ~Stacked(o) /\ ~Held(o)) \/ Stacked(o)' \/ Held(o)'
      BY <3>3, <3>4, <3>6
    <3> QED BY <1>0, <3>5, <3>7, StillFollowed
  <2> QED BY <2>1, <2>2, <2>3, <2>4, <2>5, <2>6, <2>7, <2>8 DEF IInv
<1>4. ASSUME NEW w \in Workers, StackDone(w) PROVE IInv'
  <2>1. TypeOK'
    BY <1>0, <1>4 DEF StackDone, At, Move, Goto, TypeOK, PlacesFit
  <2>2. PlacesFit'
    BY <1>0, <1>4 DEF StackDone, At, Move, Goto, TypeOK, PlacesFit, Visiting
  <2>3. BeforeMarking'
    BY <1>0, <1>4 DEF StackDone, At, Move, Goto, BeforeMarking
  <2>4. NullsAreGood'
    BY <1>0, <1>4 DEF StackDone, At, Move, Goto, TypeOK, NullsAreGood, Good
  <2>5. ReadsHold'
    BY <1>0, <1>4 DEF StackDone, At, Move, Goto, TypeOK, PlacesFit, ReadsHold, Good
  <2>6. VisitedGood'
    BY <1>0, <1>4 DEF StackDone, At, Move, Goto, TypeOK, PlacesFit, VisitedGood, Visiting,
       Good
  <2>7. GoodMeansMarked'
    BY <1>0, <1>4 DEF StackDone, At, Move, Goto, TypeOK, ReadsHold, GoodMeansMarked, Good
  <2>8. FollowedToTheEnd'
    <3>1. ASSUME NEW x, Stacked(x) PROVE Stacked(x)'
      BY <1>4, <3>1 DEF StackDone, Stacked
    <3>2. ASSUME NEW x, Held(x) PROVE Held(x)'
      BY <1>0, <1>4, <3>2 DEF StackDone, At, Move, Goto, TypeOK, Held, Visiting
    <3>3. marked' = marked /\ ref' = ref
      BY <1>4 DEF StackDone
    <3> QED BY <1>0, <3>1, <3>2, <3>3, StillFollowed DEF Good
  <2> QED BY <2>1, <2>2, <2>3, <2>4, <2>5, <2>6, <2>7, <2>8 DEF IInv
<1>5. ASSUME NEW w \in Workers, SkipField(w) PROVE IInv'
  <2>a. /\ pc[w] = "check" /\ Good(at[w]) /\ at[w] \in Objects \X (1 .. Width) /\ w \in Threads
        /\ pc' = [pc EXCEPT ![w] = pc'[w]] /\ at' = [at EXCEPT ![w] = at'[w]]
        /\ \/ at[w][1] \in Arrays /\ pc'[w] = "pop" /\ at'[w] = at[w]
           \/ /\ pc'[w] = "check" /\ at[w][2] < Width
              /\ at'[w] = <<at[w][1], at[w][2] + 1>> /\ at'[w] \in Objects \X (1 .. Width)
           \/ pc'[w] = "pop" /\ at[w][2] = Width /\ at'[w] = at[w]
    <3>1. pc[w] = "check" /\ Good(at[w]) /\ at[w] \in Objects \X (1 .. Width) /\ w \in Threads
      BY <1>0, <1>5 DEF SkipField, At, PlacesFit, Visiting
    <3>2. CASE at[w][1] \in Arrays
      BY <1>0, <1>5, <3>1, <3>2 DEF SkipField, Goto, TypeOK
    <3>3. CASE at[w][1] \notin Arrays
      BY <1>0, <1>5, <3>1, <3>3, Advancing DEF SkipField
    <3> QED BY <3>2, <3>3
  <2>b. at[w][2] \in 1 .. Width /\ at[w] = <<at[w][1], at[w][2]>>
    BY <2>a
  <2>1. TypeOK'
    BY <1>0, <1>5, <2>a, ZenonT(60) DEF SkipField, TypeOK, Slots
  <2>2. PlacesFit'
    BY <1>0, <1>5, <2>a DEF SkipField, TypeOK, PlacesFit, Visiting
  <2>3. BeforeMarking'
    BY <1>0, <1>5 DEF SkipField, At, Move, Goto, NextField, BeforeMarking
  <2>4. NullsAreGood'
    BY <1>0, <1>5 DEF SkipField, At, Move, Goto, NextField, TypeOK, NullsAreGood, Good
  <2>5. ReadsHold'
    BY <1>0, <1>5, <2>a DEF SkipField, TypeOK, ReadsHold, Good
  <2>6. VisitedGood'
    <3> SUFFICES ASSUME NEW u \in Workers, pc'[u] \in Visiting, at'[u][1] \notin Arrays,
                        NEW j \in 1 .. at'[u][2] - 1
                 PROVE  Good(<<at'[u][1], j>>)
      BY <1>5 DEF VisitedGood, SkipField, Good
    <3>1. CASE u # w
      BY <1>0, <2>a, <3>1 DEF TypeOK, VisitedGood
    <3>2. CASE u = w
      <4>1. pc'[w] = "check" /\ at'[w] = <<at[w][1], at[w][2] + 1>>
        BY <2>a, <3>2 DEF Visiting
      <4>2. at'[w][1] = at[w][1] /\ at'[w][2] - 1 = at[w][2] /\ j \in 1 .. at[w][2]
        BY <2>b, <3>2, <4>1
      <4>3. CASE j = at[w][2]
        BY <2>a, <2>b, <3>2, <4>2, <4>3
      <4>4. CASE j \in 1 .. at[w][2] - 1
        BY <1>0, <2>a, <3>2, <4>2, <4>4 DEF VisitedGood, Visiting
      <4> QED BY <2>b, <4>2, <4>3, <4>4
    <3> QED BY <3>1, <3>2
  <2>7. GoodMeansMarked'
    BY <1>0, <1>5 DEF SkipField, At, Move, Goto, NextField, TypeOK, ReadsHold,
       GoodMeansMarked, Good
  <2>8. FollowedToTheEnd'
    <3>1. ASSUME NEW o, Stacked(o) PROVE Stacked(o)'
      BY <1>5, <3>1 DEF SkipField, Stacked
    <3>2. ASSUME NEW o, Held(o), o # at[w][1] PROVE Held(o)'
      BY <1>0, <1>5, <2>a, <3>2 DEF SkipField, TypeOK, Held, Visiting
    <3>3. ASSUME NEW o, o = at[w][1], o \notin Arrays
          PROVE  Held(o)' \/ \A i \in 1 .. Width : Good(<<o, i>>)
      <4>1. CASE pc'[w] = "check"
        BY <2>a, <2>b, <3>3, <4>1 DEF Held, Visiting
      <4>2. CASE at[w][2] = Width
        BY <1>0, <2>a, <2>b, <3>3, <4>2 DEF VisitedGood, Visiting
      <4> QED BY <2>a, <3>3, <4>1, <4>2
    <3>4. marked' = marked /\ ref' = ref
      BY <1>5 DEF SkipField
    <3>5. \A s \in Slots : Good(s) => Good(s)'
      BY <3>4 DEF Good
    <3>6. \A o : o = at[w][1] \/ (~Stacked(o) /\ ~Held(o)) \/ Stacked(o)' \/ Held(o)'
      BY <3>1, <3>2
    <3>7. \A o \in marked' \ Arrays : \/ o \in marked /\ ~Stacked(o) /\ ~Held(o)
                                      \/ Stacked(o)' \/ Held(o)'
                                      \/ \A i \in 1 .. Width : Good(<<o, i>>)'
      BY <3>3, <3>4, <3>6 DEF Good
    <3> QED BY <1>0, <3>5, <3>7, StillFollowed
  <2> QED BY <2>1, <2>2, <2>3, <2>4, <2>5, <2>6, <2>7, <2>8 DEF IInv
<1>6. ASSUME NEW w \in Workers, VisitField(w) PROVE IInv'
  <2>1. TypeOK'
    BY <1>0, <1>6 DEF VisitField, At, Move, Goto, TypeOK, PlacesFit
  <2>2. PlacesFit'
    BY <1>0, <1>6 DEF VisitField, At, Move, Goto, TypeOK, PlacesFit, Visiting
  <2>3. BeforeMarking'
    BY <1>0, <1>6 DEF VisitField, At, Move, Goto, BeforeMarking
  <2>4. NullsAreGood'
    BY <1>0, <1>6 DEF VisitField, At, Move, Goto, TypeOK, NullsAreGood, Good
  <2>5. ReadsHold'
    BY <1>0, <1>6 DEF VisitField, At, Move, Goto, TypeOK, PlacesFit, ReadsHold, Good
  <2>6. VisitedGood'
    BY <1>0, <1>6 DEF VisitField, At, Move, Goto, TypeOK, PlacesFit, VisitedGood, Visiting,
       Good
  <2>7. GoodMeansMarked'
    BY <1>0, <1>6 DEF VisitField, At, Move, Goto, TypeOK, ReadsHold, GoodMeansMarked, Good
  <2>8. FollowedToTheEnd'
    <3>1. ASSUME NEW x, Stacked(x) PROVE Stacked(x)'
      BY <1>6, <3>1 DEF VisitField, Stacked
    <3>2. ASSUME NEW x, Held(x) PROVE Held(x)'
      BY <1>0, <1>6, <3>2 DEF VisitField, At, Move, Goto, TypeOK, Held, Visiting
    <3>3. marked' = marked /\ ref' = ref
      BY <1>6 DEF VisitField
    <3> QED BY <1>0, <3>1, <3>2, <3>3, StillFollowed DEF Good
  <2> QED BY <2>1, <2>2, <2>3, <2>4, <2>5, <2>6, <2>7, <2>8 DEF IInv
<1>7. ASSUME NEW w \in Workers, LoadField(w) PROVE IInv'
  <2>1. TypeOK'
    BY <1>0, <1>7 DEF LoadField, At, Move, Goto, Ref, TypeOK, PlacesFit
  <2>2. PlacesFit'
    BY <1>0, <1>7 DEF LoadField, At, Move, Goto, Ref, TypeOK, PlacesFit, Visiting
  <2>3. BeforeMarking'
    BY <1>0, <1>7 DEF LoadField, At, Move, Goto, Ref, BeforeMarking
  <2>4. NullsAreGood'
    BY <1>0, <1>7 DEF LoadField, At, Move, Goto, Ref, TypeOK, NullsAreGood, Good
  <2>5. ReadsHold'
    <3>1. at[w] \in Slots /\ ref[at[w]] \in Refs /\ w \in Threads /\ pc[w] = "load"
      BY <1>0, <1>7 DEF LoadField, At, Move, TypeOK, PlacesFit, Visiting, Slots
    <3>2. ref[at[w]].obj \in Objects \/ failed'
      BY <1>7, <3>1 DEF LoadField, Refs
    <3>3. /\ ref' = ref /\ at' = at /\ marked' = marked /\ ~failed /\ pc' = [pc EXCEPT ![w] = "mark"]
          /\ found' = [found EXCEPT ![w] = ref[at[w]]]
      BY <1>7 DEF LoadField, At, Move, Goto
    <3>4. ASSUME NEW u \in Threads, u # w
          PROVE  found'[u] = found[u] /\ pc'[u] = pc[u]
      BY <1>0, <3>3, <3>4 DEF TypeOK
    <3>5. found'[w] = ref[at[w]] /\ pc'[w] = "mark"
      BY <1>0, <3>1, <3>3 DEF TypeOK
    <3> QED BY <1>0, <3>2, <3>3, <3>4, <3>5 DEF ReadsHold, Good
  <2>6. VisitedGood'
    BY <1>0, <1>7 DEF LoadField, At, Move, Goto, Ref, TypeOK, PlacesFit, VisitedGood,
       Visiting, Good
  <2>7. GoodMeansMarked'
    BY <1>0, <1>7 DEF LoadField, At, Move, Goto, Ref, TypeOK, ReadsHold, GoodMeansMarked,
       Good
  <2>8. FollowedToTheEnd'
    <3>1. ASSUME NEW x, Stacked(x) PROVE Stacked(x)'
      BY <1>7, <3>1 DEF LoadField, Stacked
    <3>2. ASSUME NEW x, Held(x) PROVE Held(x)'
      BY <1>0, <1>7, <3>2 DEF LoadField, At, Move, Goto, TypeOK, Held, Visiting
    <3>3. marked' = marked /\ ref' = ref
      BY <1>7 DEF LoadField
    <3> QED BY <1>0, <3>1, <3>2, <3>3, StillFollowed DEF Good
  <2> QED BY <2>1, <2>2, <2>3, <2>4, <2>5, <2>6, <2>7, <2>8 DEF IInv
<1>8. ASSUME NEW t \in Threads, Mark(t) PROVE IInv'

  <2>a. /\ pc[t] = "mark" /\ pc' = [pc EXCEPT ![t] = "push"] /\ found[t].obj \in Objects
    BY <1>0, <1>8 DEF Mark, At, Move, Goto, ReadsHold
  <2>1. TypeOK'
    BY <1>0, <1>8, <2>a DEF Mark, TypeOK
  <2>2. PlacesFit'
    BY <1>0, <1>8 DEF Mark, At, Move, Goto, TypeOK, PlacesFit, Visiting
  <2>3. BeforeMarking'
    BY <1>0, <1>8 DEF Mark, At, Move, Goto, BeforeMarking
  <2>4. NullsAreGood'
    BY <1>0, <1>8 DEF Mark, At, Move, Goto, TypeOK, NullsAreGood, Good
  <2>5. ReadsHold'
    BY <1>0, <1>8 DEF Mark, At, Move, Goto, TypeOK, PlacesFit, ReadsHold, Good
  <2>6. VisitedGood'
    BY <1>0, <1>8 DEF Mark, At, Move, Goto, TypeOK, PlacesFit, VisitedGood, Visiting, Good
  <2>7. GoodMeansMarked'
    BY <1>0, <1>8 DEF Mark, At, Move, Goto, TypeOK, ReadsHold, GoodMeansMarked, Good
  <2>8. FollowedToTheEnd'
    <3>1. ASSUME NEW x, Stacked(x) PROVE Stacked(x)'
      BY <1>8, <3>1 DEF Mark, Stacked
    <3>2. ASSUME NEW x, Held(x) PROVE Held(x)'
      BY <1>0, <1>8, <2>a, <3>2 DEF Mark, TypeOK, Held, Visiting
    <3>3. ASSUME NEW x, x = found[t].obj PROVE Held(x)'
      BY <1>0, <1>8, <2>a, <3>3 DEF Mark, TypeOK, Held
    <3>4. \A s \in Slots : Good(s) => Good(s)'
      BY <1>8 DEF Mark, Good
    <3>5. \A x \in marked' : (x \in marked /\ ~Stacked(x) /\ ~Held(x)) \/ Stacked(x)' \/ Held(x)'
      BY <1>8, <3>1, <3>2, <3>3 DEF Mark
    <3> QED BY <1>0, <3>4, <3>5, StillFollowed
  <2> QED BY <2>1, <2>2, <2>3, <2>4, <2>5, <2>6, <2>7, <2>8 DEF IInv
<1>9. ASSUME NEW t \in Threads, Push(t) PROVE IInv'

  <2> DEFINE o == found[t].obj
             i == StripeOf(o)
  <2>a. /\ pc[t] = "push" /\ o \in marked /\ o \in Objects /\ i \in Stripes
        /\ stacks[t][i] \in Seq(Objects) /\ (ref[at[t]] = found[t] \/ Good(at[t]))
    <3>1. pc[t] = "push" /\ o \in marked /\ (ref[at[t]] = found[t] \/ Good(at[t]))
      BY <1>0, <1>9 DEF Push, At, ReadsHold
    <3>2. o \in Objects
      BY <1>0, <3>1 DEF TypeOK
    <3>3. i \in Stripes
      BY <3>2, StripeOfObject
    <3> HIDE DEF o, i
    <3> QED BY <1>0, <3>1, <3>2, <3>3 DEF TypeOK
  <2>b. /\ stacks' = [stacks EXCEPT ![t][i] = Append(stacks[t][i], o)]
        /\ Append(stacks[t][i], o) \in Seq(Objects)
        /\ Range(Append(stacks[t][i], o)) = Range(stacks[t][i]) \cup {o}
    <3>1. stacks' = [stacks EXCEPT ![t][i] = Append(stacks[t][i], o)]
      BY <1>0, <1>9, <2>a DEF Push, TypeOK
    <3> HIDE DEF o, i
    <3> QED BY <2>a, <3>1, Pushed
  <2>c. \A s \in Slots : Good(s)' <=> Good(s)
    BY <1>9 DEF Push, Good
  <2>d. /\ pc' = [pc EXCEPT ![t] = pc'[t]] /\ at' = [at EXCEPT ![t] = at'[t]]
        /\ \/ pc'[t] = "heal" /\ ~found[t].good /\ at' = at
           \/ /\ t \in Workers /\ NextField(t) /\ ref[at[t]].good
              /\ pc'[t] \in {"check", "pop"}
              /\ at[t] \in Objects \X (1 .. Width) /\ at'[t] \in Objects \X (1 .. Width)
    <3>1. CASE found[t].good
      <4>1. t \in Workers /\ at[t] \in Objects \X (1 .. Width) /\ NextField(t)
        BY <1>0, <1>9, <2>a, <3>1 DEF Push, PlacesFit, Visiting
      <4>2. ref[at[t]].good
        BY <2>a, <3>1 DEF Good
      <4> QED BY <1>0, <4>1, <4>2, Advancing
    <3>2. CASE ~found[t].good
      BY <1>0, <1>9, <3>2 DEF Push, Goto, TypeOK
    <3> QED BY <3>1, <3>2
  <2>1. TypeOK'
    <3>1. stacks' \in [Threads -> [Stripes -> Seq(Objects)]]
      BY <1>0, <2>a, <2>b DEF TypeOK
    <3>2. at' \in [Threads -> Slots \cup {<<Root, 1>>}]
      <4>1. at'[t] \in Slots \/ at' = at
        BY <2>d DEF Slots
      <4> QED BY <1>0, <2>d, <4>1 DEF TypeOK
    <3>3. pc' \in [Threads -> {"take", "pop", "check", "load", "mark", "push", "heal", "idle",
                               "commit", "done"}]
      BY <1>0, <2>d DEF TypeOK
    <3> QED BY <1>0, <1>9, <3>1, <3>2, <3>3 DEF Push, TypeOK
  <2>2. PlacesFit'
    <3>1. ASSUME NEW u \in Threads, u # t PROVE pc'[u] = pc[u] /\ at'[u] = at[u]
      BY <1>0, <2>d, <3>1 DEF TypeOK
    <3>2. work' = work /\ found' = found
      BY <1>9 DEF Push
    <3>3. \/ pc'[t] = "heal" /\ ~found[t].good /\ at'[t] = at[t]
          \/ /\ t \in Workers /\ pc'[t] \in {"check", "pop"}
             /\ at'[t] \in Objects \X (1 .. Width)
      BY <2>d
    <3>4. ASSUME NEW w \in Workers
          PROVE  /\ pc'[w] \in Visiting \cup {"take", "pop", "commit", "done"}
                 /\ pc'[w] \in {"take", "commit", "done"} => work[w] = <<>>
                 /\ pc'[w] \in Visiting => at'[w] \in Objects \X (1 .. Width)
      BY <1>0, <2>a, <3>1, <3>3 DEF PlacesFit, Visiting
    <3>5. ASSUME NEW m \in Mutators
          PROVE  /\ pc'[m] \in {"idle", "mark", "push", "heal", "commit", "done"}
                 /\ pc'[m] \in {"mark", "push", "heal"} => at'[m] \in Slots /\ ~found[m].good
      BY <1>0, <2>a, <3>1, <3>3 DEF PlacesFit
    <3> QED BY <3>2, <3>4, <3>5 DEF PlacesFit
  <2>3. BeforeMarking'
    BY <1>0, <1>9 DEF Push, At, Move, Goto, NextField, BeforeMarking
  <2>4. NullsAreGood'
    BY <1>0, <1>9 DEF Push, At, Move, Goto, NextField, TypeOK, NullsAreGood, Good
  <2>5. ReadsHold'
    BY <1>0, <1>9, <2>a, <2>d DEF Push, TypeOK, ReadsHold, Good
  <2>6. VisitedGood'
    <3>1. CASE pc'[t] = "heal" /\ at' = at
      <4>1. ASSUME NEW u \in Workers, pc'[u] \in Visiting PROVE pc[u] \in Visiting
        BY <1>0, <2>a, <2>d, <4>1 DEF TypeOK, Visiting
      <4> QED BY <1>0, <1>9, <3>1, <4>1 DEF Push, VisitedGood, Good
    <3>2. CASE pc'[t] # "heal"
      <4>1. /\ pc[t] \in Visiting /\ ref'[at[t]].good
            /\ t \in Workers /\ NextField(t) /\ at[t] \in Objects \X (1 .. Width)
        BY <1>9, <2>a, <2>d, <3>2 DEF Push, Visiting
      <4> QED BY <1>0, <2>c, <4>1, VisitGoesOn
    <3> QED BY <2>d, <3>1, <3>2
  <2>7. GoodMeansMarked'
    BY <1>0, <1>9 DEF Push, At, Move, Goto, NextField, TypeOK, ReadsHold, GoodMeansMarked,
       Good
  <2>8. FollowedToTheEnd'
    <3> HIDE DEF i
    <3>1. ASSUME NEW x, Stacked(x) PROVE Stacked(x)'
      <4>1. committed' = committed /\ work' = work
        BY <1>9 DEF Push
      <4>2. ASSUME NEW u \in Threads, NEW j \in Stripes, x \in Range(stacks[u][j])
            PROVE  x \in Range(stacks'[u][j])
        BY <1>0, <2>a, <2>b, <4>2 DEF TypeOK
      <4> QED BY <3>1, <4>1, <4>2 DEF Stacked
    <3>2. ASSUME NEW x, x = o PROVE Stacked(x)'
      <4>1. x \in Range(stacks'[t][i])
        BY <1>0, <2>a, <2>b, <3>2 DEF TypeOK
      <4> QED BY <2>a, <4>1 DEF Stacked
    <3>3. ASSUME NEW x, Held(x), x # o, x # at[t][1] PROVE Held(x)'
      BY <1>0, <1>9, <2>a, <2>d, <3>3 DEF Push, TypeOK, Held, Visiting
    <3>4. ASSUME NEW x, Held(x), x # o, x = at[t][1], x \notin Arrays
          PROVE  Held(x)' \/ \A j \in 1 .. Width : Good(<<x, j>>)'
      <4>1. CASE pc'[t] = "heal" /\ at' = at
        BY <1>0, <1>9, <2>a, <2>d, <3>4, <4>1 DEF Push, TypeOK, Held, Visiting
      <4>2. CASE pc'[t] # "heal"
        <5>1. /\ pc[t] \in Visiting /\ ref'[at[t]].good
              /\ t \in Workers /\ NextField(t) /\ at[t] \in Objects \X (1 .. Width)
          BY <1>9, <2>a, <2>d, <4>2 DEF Push, Visiting
        <5> QED BY <1>0, <2>c, <3>4, <5>1, VisitGoesOn
      <4> QED BY <2>d, <4>1, <4>2
    <3>5. marked' = marked
      BY <1>9 DEF Push
    <3>6. \A x \in marked' \ Arrays : \/ x \in marked /\ ~Stacked(x) /\ ~Held(x)
                                      \/ Stacked(x)' \/ Held(x)'
                                      \/ \A j \in 1 .. Width : Good(<<x, j>>)'
      BY <3>1, <3>2, <3>3, <3>4, <3>5
    <3> QED BY <1>0, <2>c, <3>6, StillFollowed
  <2> QED BY <2>1, <2>2, <2>3, <2>4, <2>5, <2>6, <2>7, <2>8 DEF IInv
<1>10. ASSUME NEW t \in Threads, Heal(t) PROVE IInv'

  <2>a. /\ at[t] \in Slots /\ found[t].obj \in marked /\ ref' \in [Slots -> Refs]
        /\ \A s \in Slots : ref'[s] = ref[s] \/ (s = at[t] /\ ref'[s] = Ref(ref[s].obj, TRUE))
        /\ \A s \in Slots : Good(s) => Good(s)'
        /\ ref'[at[t]].good
        /\ \A s \in Slots : ref'[s].obj = ref[s].obj
        /\ \A s \in Slots : Good(s)' => Good(s) \/ ref[s].obj \in marked
    BY <1>0, <1>10, Healing
  <2>b. /\ pc[t] = "heal" /\ marked' = marked /\ found' = found /\ stacks' = stacks
        /\ committed' = committed /\ work' = work
    BY <1>10 DEF Heal, At
  <2>c. /\ pc' = [pc EXCEPT ![t] = pc'[t]] /\ at' = [at EXCEPT ![t] = at'[t]]
        /\ \/ /\ t \in Mutators /\ pc'[t] = "idle" /\ at' = at
              /\ holds' = [holds EXCEPT ![t] = @ \cup {found[t].obj}]
           \/ /\ t \in Workers /\ NextField(t) /\ pc'[t] \in {"check", "pop"} /\ holds' = holds
              /\ at[t] \in Objects \X (1 .. Width) /\ at'[t] \in Objects \X (1 .. Width)
    <3>1. CASE t \in Workers
      <4>1. NextField(t) /\ holds' = holds /\ at[t] \in Objects \X (1 .. Width)
        BY <1>0, <1>10, <2>b, <3>1 DEF Heal, Healed, PlacesFit, Visiting
      <4> QED BY <1>0, <3>1, <4>1, Advancing
    <3>2. CASE t \in Mutators
      BY <1>0, <1>10, <3>2 DEF Heal, Healed, Goto, TypeOK
    <3> QED BY <3>1, <3>2
  <2>1. TypeOK'
    <3>1. at' \in [Threads -> Slots \cup {<<Root, 1>>}]
      <4>1. at'[t] \in Slots \/ at' = at
        BY <2>c DEF Slots
      <4> QED BY <1>0, <2>c, <4>1 DEF TypeOK
    <3>2. pc' \in [Threads -> {"take", "pop", "check", "load", "mark", "push", "heal", "idle",
                               "commit", "done"}]
      BY <1>0, <2>c DEF TypeOK
    <3>3. holds' \in [Mutators -> SUBSET Objects]
      <4>1. found[t].obj \in Objects /\ holds \in [Mutators -> SUBSET Objects]
        BY <1>0, <2>a DEF TypeOK
      <4> QED BY <2>c, <4>1
    <3> QED BY <1>0, <1>10, <2>a, <3>1, <3>2, <3>3 DEF Heal, TypeOK
  <2>2. PlacesFit'
    BY <1>0, <1>10, <2>b, <2>c, ZenonT(60) DEF Heal, TypeOK, PlacesFit, Visiting
  <2>3. BeforeMarking'
    BY <1>0, <1>10 DEF Heal, At, Move, Goto, NextField, Ref, Healed, BeforeMarking
  <2>4. NullsAreGood'
    BY <1>0, <2>a DEF NullsAreGood
  <2>5. ReadsHold'
    <3> SUFFICES ASSUME NEW u \in Threads, u # t
                 PROVE  /\ pc'[u] = pc[u] /\ at'[u] = at[u]
                        /\ \/ pc[u] \notin {"mark", "push", "heal"}
                           \/ ref'[at[u]] = found[u] \/ ref'[at[u]].good
      BY <1>0, <1>10, <2>b, <2>c DEF ReadsHold, Good, TypeOK, Heal
    <3>1. pc'[u] = pc[u] /\ at'[u] = at[u]
      BY <1>0, <2>c DEF TypeOK
    <3>2. CASE pc[u] \in {"mark", "push", "heal"}
      <4>1. at[u] \in Slots /\ (ref[at[u]] = found[u] \/ Good(at[u]))
        BY <1>0, <3>2 DEF ReadsHold, PlacesFit, Visiting, Slots
      <4>2. ref'[at[u]] = ref[at[u]] \/ ref'[at[u]].good
        BY <2>a, <4>1
      <4> QED BY <3>1, <4>1, <4>2 DEF Good
    <3> QED BY <3>1, <3>2
  <2>6. VisitedGood'
    <3>1. CASE pc'[t] = "idle" /\ at' = at /\ t \in Mutators
      <4> SUFFICES ASSUME NEW u \in Workers, pc'[u] \in Visiting, at[u][1] \notin Arrays,
                          NEW j \in 1 .. at[u][2] - 1
                   PROVE  ref'[<<at[u][1], j>>].good
        BY <3>1 DEF VisitedGood, Good
      <4>1. pc[u] \in Visiting
        BY <1>0, <2>c, <3>1 DEF TypeOK, Visiting
      <4>2. at[u] \in Objects \X (1 .. Width) /\ Good(<<at[u][1], j>>)
        BY <1>0, <4>1 DEF PlacesFit, VisitedGood
      <4>3. <<at[u][1], j>> \in Slots
        BY <4>2 DEF Slots
      <4> QED BY <2>a, <4>2, <4>3 DEF Good
    <3>2. CASE t \in Workers /\ NextField(t)
      <4>1. pc[t] \in Visiting
        BY <2>b DEF Visiting
      <4> QED BY <1>0, <2>a, <2>c, <3>2, <4>1, VisitGoesOn
    <3> QED BY <2>c, <3>1, <3>2
  <2>7. GoodMeansMarked'
    <3>1. \A m \in Mutators : holds'[m] \subseteq holds[m] \cup marked
      <4>1. holds \in [Mutators -> SUBSET Objects]
        BY <1>0 DEF TypeOK
      <4> QED BY <2>a, <2>c, <4>1
    <3>2. fresh' = fresh
      BY <1>10 DEF Heal
    <3>3. ASSUME NEW s \in Slots, Good(s)' PROVE ref'[s].obj \in marked \cup fresh \cup {Null}
      BY <1>0, <2>a, <3>3 DEF GoodMeansMarked
    <3>4. ASSUME NEW m \in Mutators PROVE holds'[m] \subseteq marked \cup fresh \cup {Null}
      BY <1>0, <3>1 DEF GoodMeansMarked
    <3> QED BY <2>b, <3>2, <3>3, <3>4 DEF GoodMeansMarked
  <2>8. FollowedToTheEnd'
    <3>1. ASSUME NEW x, Stacked(x) PROVE Stacked(x)'
      BY <2>b, <3>1 DEF Stacked
    <3>2. ASSUME NEW x, Held(x), x # at[t][1] \/ t \notin Workers PROVE Held(x)'
      BY <1>0, <2>b, <2>c, <3>2 DEF TypeOK, Held, Visiting
    <3>3. ASSUME NEW x, t \in Workers, x = at[t][1], x \notin Arrays
          PROVE  Held(x)' \/ \A j \in 1 .. Width : Good(<<x, j>>)'
      <4>1. pc[t] \in Visiting /\ NextField(t) /\ at[t] \in Objects \X (1 .. Width)
        BY <2>b, <2>c, <3>3, MarkingAssumption DEF Visiting
      <4> QED BY <1>0, <2>a, <3>3, <4>1, VisitGoesOn
    <3>4. \A x \in marked' \ Arrays : \/ x \in marked /\ ~Stacked(x) /\ ~Held(x)
                                      \/ Stacked(x)' \/ Held(x)'
                                      \/ \A j \in 1 .. Width : Good(<<x, j>>)'
      BY <2>b, <3>1, <3>2, <3>3
    <3> QED BY <1>0, <2>a, <3>4, StillFollowed
  <2> QED BY <2>1, <2>2, <2>3, <2>4, <2>5, <2>6, <2>7, <2>8 DEF IInv
<1>11. ASSUME NEW t \in Threads, Exited(t) PROVE IInv'
  <2>1. TypeOK'
    BY <1>0, <1>11 DEF Exited, At, Move, Goto, TypeOK, PlacesFit
  <2>2. PlacesFit'
    BY <1>0, <1>11 DEF Exited, At, Move, Goto, TypeOK, PlacesFit, Visiting
  <2>3. BeforeMarking'
    BY <1>0, <1>11 DEF Exited, At, Move, Goto, BeforeMarking
  <2>4. NullsAreGood'
    BY <1>0, <1>11 DEF Exited, At, Move, Goto, TypeOK, NullsAreGood, Good
  <2>5. ReadsHold'
    BY <1>0, <1>11 DEF Exited, At, Move, Goto, TypeOK, PlacesFit, ReadsHold, Good
  <2>6. VisitedGood'
    BY <1>0, <1>11 DEF Exited, At, Move, Goto, TypeOK, PlacesFit, VisitedGood, Visiting,
       Good
  <2>7. GoodMeansMarked'
    BY <1>0, <1>11 DEF Exited, At, Move, Goto, TypeOK, ReadsHold, GoodMeansMarked, Good
  <2>8. FollowedToTheEnd'
    <3>1. ASSUME NEW x, Stacked(x) PROVE Stacked(x)'
      BY <1>11, <3>1 DEF Exited, Stacked
    <3>2. ASSUME NEW x, Held(x) PROVE Held(x)'
      BY <1>0, <1>11, <3>2 DEF Exited, At, Move, Goto, TypeOK, Held, Visiting
    <3>3. marked' = marked /\ ref' = ref
      BY <1>11 DEF Exited
    <3> QED BY <1>0, <3>1, <3>2, <3>3, StillFollowed DEF Good
  <2> QED BY <2>1, <2>2, <2>3, <2>4, <2>5, <2>6, <2>7, <2>8 DEF IInv
<1>12. ASSUME NEW t \in Threads, NEW i \in Stripes, Commit(t, i) PROVE IInv'
  <2>1. TypeOK'
    BY <1>0, <1>12 DEF Commit, At, TypeOK, PlacesFit
  <2>2. PlacesFit'
    BY <1>0, <1>12 DEF Commit, At, TypeOK, PlacesFit, Visiting
  <2>3. BeforeMarking'
    BY <1>0, <1>12 DEF Commit, At, BeforeMarking
  <2>4. NullsAreGood'
    BY <1>0, <1>12 DEF Commit, At, TypeOK, NullsAreGood, Good
  <2>5. ReadsHold'
    BY <1>0, <1>12 DEF Commit, At, TypeOK, PlacesFit, ReadsHold, Good
  <2>6. VisitedGood'
    BY <1>0, <1>12 DEF Commit, At, TypeOK, PlacesFit, VisitedGood, Visiting, Good
  <2>7. GoodMeansMarked'
    BY <1>0, <1>12 DEF Commit, At, TypeOK, ReadsHold, GoodMeansMarked, Good
  <2>8. FollowedToTheEnd'
    <3> DEFINE top == stacks[t][i]
    <3>1. /\ top \in Seq(Objects) /\ committed[i] \in Seq(Seq(Objects))
          /\ committed' = [committed EXCEPT ![i] = <<top>> \o committed[i]]
          /\ stacks' = [stacks EXCEPT ![t][i] = <<>>]
          /\ ref' = ref /\ marked' = marked /\ work' = work /\ pc' = pc /\ found' = found /\ at' = at
      BY <1>0, <1>12 DEF Commit, TypeOK
    <3>2. LET c == committed'[i] IN
          /\ 1 \in DOMAIN c /\ c[1] = top
          /\ \A j \in DOMAIN committed[i] : j + 1 \in DOMAIN c /\ c[j + 1] = committed[i][j]
      <4> HIDE DEF top
      <4>1. committed'[i] = <<top>> \o committed[i]
        BY <1>0, <3>1 DEF TypeOK
      <4> QED BY <3>1, <4>1, Prefixed, SMTT(30)
    <3>3. ASSUME NEW x, Stacked(x) PROVE Stacked(x)'
      <4>1. CASE \E u \in Threads, k \in Stripes : x \in Range(stacks[u][k])
        <5>1. PICK u \in Threads, k \in Stripes : x \in Range(stacks[u][k])
          BY <4>1
        <5>2. CASE u = t /\ k = i
          BY <3>2, <5>1, <5>2 DEF Stacked
        <5>3. CASE u # t \/ k # i
          <6>1. stacks'[u][k] = stacks[u][k]
            BY <1>0, <3>1, <5>3 DEF TypeOK
          <6> QED BY <5>1, <6>1 DEF Stacked
        <5> QED BY <5>2, <5>3
      <4>2. CASE \E k \in Stripes : \E j \in DOMAIN committed[k] : x \in Range(committed[k][j])
        <5>1. PICK k \in Stripes : \E j \in DOMAIN committed[k] : x \in Range(committed[k][j])
          BY <4>2
        <5>2. CASE k = i
          BY <3>2, <5>1, <5>2 DEF Stacked
        <5>3. CASE k # i
          <6>1. committed'[k] = committed[k]
            BY <1>0, <3>1, <5>3 DEF TypeOK
          <6> QED BY <5>1, <6>1 DEF Stacked
        <5> QED BY <5>2, <5>3
      <4>3. CASE \E u \in Workers : x \in Range(work[u])
        BY <3>1, <4>3 DEF Stacked
      <4> QED BY <3>3, <4>1, <4>2, <4>3 DEF Stacked
    <3>4. \A x : Held(x)' <=> Held(x)
      BY <3>1 DEF Held
    <3> QED BY <1>0, <3>1, <3>3, <3>4, StillFollowed DEF Good
  <2> QED BY <2>1, <2>2, <2>3, <2>4, <2>5, <2>6, <2>7, <2>8 DEF IInv
<1>13. ASSUME NEW m \in Mutators, NEW s \in Slots, LoadGood(m, s) PROVE IInv'
  <2>1. TypeOK'
    <3>1. ref[s].obj \in Objects
      BY <1>0, <1>13 DEF LoadGood, TypeOK, Refs
    <3>2. holds' \in [Mutators -> SUBSET Objects] /\ ops' \in Nat
      BY <1>0, <1>13, <3>1 DEF LoadGood, Operate, TypeOK
    <3> QED BY <1>0, <1>13, <3>2 DEF LoadGood, TypeOK
  <2>2. PlacesFit'
    BY <1>0, <1>13 DEF LoadGood, At, Operate, Reached, TypeOK, PlacesFit, Visiting
  <2>3. BeforeMarking'
    BY <1>0, <1>13 DEF LoadGood, At, Operate, Reached, BeforeMarking
  <2>4. NullsAreGood'
    BY <1>0, <1>13 DEF LoadGood, At, Operate, Reached, TypeOK, NullsAreGood, Good
  <2>5. ReadsHold'
    BY <1>0, <1>13 DEF LoadGood, At, Operate, Reached, TypeOK, PlacesFit, ReadsHold, Good
  <2>6. VisitedGood'
    BY <1>0, <1>13 DEF LoadGood, At, Operate, Reached, TypeOK, PlacesFit, VisitedGood,
       Visiting, Good
  <2>7. GoodMeansMarked'
    BY <1>0, <1>13 DEF LoadGood, At, Operate, Reached, TypeOK, ReadsHold, GoodMeansMarked,
       Good
  <2>8. FollowedToTheEnd'
    <3>1. ASSUME NEW x, Stacked(x) PROVE Stacked(x)'
      BY <1>13, <3>1 DEF LoadGood, Stacked
    <3>2. ASSUME NEW x, Held(x) PROVE Held(x)'
      BY <1>0, <1>13, <3>2 DEF LoadGood, At, Move, Goto, TypeOK, Held, Visiting
    <3>3. marked' = marked /\ ref' = ref
      BY <1>13 DEF LoadGood
    <3> QED BY <1>0, <3>1, <3>2, <3>3, StillFollowed DEF Good
  <2> QED BY <2>1, <2>2, <2>3, <2>4, <2>5, <2>6, <2>7, <2>8 DEF IInv
<1>14. ASSUME NEW m \in Mutators, NEW s \in Slots, LoadBad(m, s) PROVE IInv'
  <2>a. /\ pc[m] = "idle" /\ ~Good(s) /\ ref[s] \in Refs /\ ref[s].obj \in Objects
        /\ pc' = [pc EXCEPT ![m] = "mark"] /\ at' = [at EXCEPT ![m] = s]
        /\ found' = [found EXCEPT ![m] = ref[s]] /\ m \in Threads
    BY <1>0, <1>14 DEF LoadBad, Operate, At, Goto, TypeOK, NullsAreGood, Refs
  <2>b. \A u \in Threads \ {m} : pc'[u] = pc[u] /\ at'[u] = at[u] /\ found'[u] = found[u]
    BY <1>0, <2>a DEF TypeOK
  <2>c. pc'[m] = "mark" /\ at'[m] = s /\ found'[m] = ref[s]
    BY <1>0, <2>a DEF TypeOK
  <2>1. TypeOK'
    BY <1>0, <1>14 DEF LoadBad, At, Move, Goto, Operate, Reached, TypeOK, PlacesFit
  <2>2. PlacesFit'
    BY <1>0, <1>14, <2>a, <2>b, <2>c, MarkingAssumption DEF LoadBad, PlacesFit, Visiting, Good
  <2>3. BeforeMarking'
    BY <1>0, <1>14 DEF LoadBad, At, Move, Goto, Operate, Reached, BeforeMarking
  <2>4. NullsAreGood'
    BY <1>0, <1>14 DEF LoadBad, At, Move, Goto, Operate, Reached, TypeOK, NullsAreGood, Good
  <2>5. ReadsHold'
    BY <1>0, <1>14, <2>a, <2>b, <2>c DEF LoadBad, ReadsHold, Good
  <2>6. VisitedGood'
    BY <1>0, <1>14 DEF LoadBad, At, Move, Goto, Operate, Reached, TypeOK, PlacesFit,
       VisitedGood, Visiting, Good
  <2>7. GoodMeansMarked'
    BY <1>0, <1>14 DEF LoadBad, At, Move, Goto, Operate, Reached, TypeOK, ReadsHold,
       GoodMeansMarked, Good
  <2>8. FollowedToTheEnd'
    <3>1. ASSUME NEW x, Stacked(x) PROVE Stacked(x)'
      BY <1>14, <3>1 DEF LoadBad, Stacked
    <3>2. ASSUME NEW x, Held(x) PROVE Held(x)'
      BY <1>0, <1>14, <3>2 DEF LoadBad, At, Operate, Goto, TypeOK, Held, Visiting
    <3>3. marked' = marked /\ ref' = ref
      BY <1>14 DEF LoadBad
    <3> QED BY <1>0, <3>1, <3>2, <3>3, StillFollowed DEF Good
  <2> QED BY <2>1, <2>2, <2>3, <2>4, <2>5, <2>6, <2>7, <2>8 DEF IInv
<1>15. ASSUME NEW m \in Mutators, NEW s \in Slots, Store(m, s) PROVE IInv'

  <2>a. PICK r \in {Ref(o, TRUE) : o \in holds[m]} \cup {NullRef} : ref' = [ref EXCEPT ![s] = r]
    BY <1>15 DEF Store
  <2>b. r \in Refs /\ r.good
    <3>1. holds[m] \subseteq Objects
      BY <1>0 DEF TypeOK
    <3>2. \A o \in Objects \cup {Null} : Ref(o, TRUE) \in Refs /\ Ref(o, TRUE).good
      BY DEF Ref, Refs
    <3> QED BY <2>a, <3>1, <3>2 DEF NullRef
  <2>c. /\ ref' \in [Slots -> Refs] /\ ref'[s] = r
        /\ \A q \in Slots : q # s => ref'[q] = ref[q]
    BY <1>0, <2>a, <2>b DEF TypeOK
  <2>d. \A q \in Slots : ref'[q] = ref[q] \/ ref'[q].good
    BY <2>b, <2>c
  <2>1. TypeOK'
    BY <1>0, <1>15, <2>c DEF Store, Operate, TypeOK
  <2>2. PlacesFit'
    BY <1>0, <1>15 DEF Store, At, Operate, Reached, Ref, NullRef, TypeOK, PlacesFit,
       Visiting
  <2>3. BeforeMarking'
    BY <1>0, <1>15 DEF Store, At, Operate, Reached, Ref, NullRef, BeforeMarking
  <2>4. NullsAreGood'
    BY <1>0, <2>b, <2>c DEF NullsAreGood, Good
  <2>5. ReadsHold'
    <3>1. \A u \in Threads : pc[u] \in {"mark", "push", "heal"} => at[u] \in Slots
      BY <1>0 DEF PlacesFit, Visiting, Slots
    <3> QED BY <1>0, <1>15, <2>d, <3>1 DEF Store, ReadsHold, Good
  <2>6. VisitedGood'
    BY <1>0, <1>15, SMTT(30) DEF Store, At, Operate, Reached, Ref, NullRef, TypeOK, PlacesFit,
       VisitedGood, Visiting, Good
  <2>7. GoodMeansMarked'
    BY <1>0, <1>15 DEF Store, At, Operate, Reached, Ref, NullRef, TypeOK, ReadsHold,
       GoodMeansMarked, Good
  <2>8. FollowedToTheEnd'
    <3>1. \A x : (Stacked(x)' <=> Stacked(x)) /\ (Held(x)' <=> Held(x))
      BY <1>15 DEF Store, Stacked, Held
    <3>2. \A q \in Slots : Good(q) => Good(q)'
      BY <2>d DEF Good
    <3>3. marked' = marked
      BY <1>15 DEF Store
    <3> QED BY <1>0, <3>1, <3>2, <3>3, StillFollowed
  <2> QED BY <2>1, <2>2, <2>3, <2>4, <2>5, <2>6, <2>7, <2>8 DEF IInv
<1>16. ASSUME NEW m \in Mutators, NEW o \in New, Allocate(m, o) PROVE IInv'
  <2>1. TypeOK'
    <3>1. holds' \in [Mutators -> SUBSET Objects] /\ ops' \in Nat
      BY <1>0, <1>16 DEF Allocate, Operate, TypeOK, Objects
    <3> QED BY <1>0, <1>16, <3>1 DEF Allocate, TypeOK
  <2>2. PlacesFit'
    BY <1>0, <1>16 DEF Allocate, At, Operate, Reached, TypeOK, PlacesFit, Visiting
  <2>3. BeforeMarking'
    BY <1>0, <1>16 DEF Allocate, At, Operate, Reached, BeforeMarking
  <2>4. NullsAreGood'
    BY <1>0, <1>16 DEF Allocate, At, Operate, Reached, TypeOK, NullsAreGood, Good
  <2>5. ReadsHold'
    BY <1>0, <1>16 DEF Allocate, At, Operate, Reached, TypeOK, PlacesFit, ReadsHold, Good
  <2>6. VisitedGood'
    BY <1>0, <1>16 DEF Allocate, At, Operate, Reached, TypeOK, PlacesFit, VisitedGood,
       Visiting, Good
  <2>7. GoodMeansMarked'
    BY <1>0, <1>16 DEF Allocate, At, Operate, Reached, TypeOK, ReadsHold, GoodMeansMarked,
       Good
  <2>8. FollowedToTheEnd'
    <3>1. ASSUME NEW x, Stacked(x) PROVE Stacked(x)'
      BY <1>16, <3>1 DEF Allocate, Stacked
    <3>2. ASSUME NEW x, Held(x) PROVE Held(x)'
      BY <1>0, <1>16, <3>2 DEF Allocate, At, Move, Goto, TypeOK, Held, Visiting
    <3>3. marked' = marked /\ ref' = ref
      BY <1>16 DEF Allocate
    <3> QED BY <1>0, <3>1, <3>2, <3>3, StillFollowed DEF Good
  <2> QED BY <2>1, <2>2, <2>3, <2>4, <2>5, <2>6, <2>7, <2>8 DEF IInv
<1>17. ASSUME NEW m \in Mutators, Exit(m) PROVE IInv'
  <2>1. TypeOK'
    BY <1>0, <1>17 DEF Exit, At, Move, Goto, TypeOK, PlacesFit
  <2>2. PlacesFit'
    BY <1>0, <1>17 DEF Exit, At, Move, Goto, TypeOK, PlacesFit, Visiting
  <2>3. BeforeMarking'
    BY <1>0, <1>17 DEF Exit, At, Move, Goto, BeforeMarking
  <2>4. NullsAreGood'
    BY <1>0, <1>17 DEF Exit, At, Move, Goto, TypeOK, NullsAreGood, Good
  <2>5. ReadsHold'
    BY <1>0, <1>17 DEF Exit, At, Move, Goto, TypeOK, PlacesFit, ReadsHold, Good
  <2>6. VisitedGood'
    BY <1>0, <1>17 DEF Exit, At, Move, Goto, TypeOK, PlacesFit, VisitedGood, Visiting, Good
  <2>7. GoodMeansMarked'
    BY <1>0, <1>17 DEF Exit, At, Move, Goto, TypeOK, ReadsHold, GoodMeansMarked, Good
  <2>8. FollowedToTheEnd'
    <3>1. ASSUME NEW x, Stacked(x) PROVE Stacked(x)'
      BY <1>17, <3>1 DEF Exit, Stacked
    <3>2. ASSUME NEW x, Held(x) PROVE Held(x)'
      BY <1>0, <1>17, <3>2 DEF Exit, At, Move, Goto, TypeOK, Held, Visiting
    <3>3. marked' = marked /\ ref' = ref
      BY <1>17 DEF Exit
    <3> QED BY <1>0, <3>1, <3>2, <3>3, StillFollowed DEF Good
  <2> QED BY <2>1, <2>2, <2>3, <2>4, <2>5, <2>6, <2>7, <2>8 DEF IInv
<1>18. ASSUME MarkStart PROVE IInv'

  <2>a. /\ phase = "relocate" /\ phase' = "mark" /\ marked' = RootObjects
        /\ ref' = [s \in Slots |-> IF s \in {q \in Slots : q[1] = Root /\ ref[q].obj # Null}
                                     THEN Ref(ref[s].obj, TRUE) ELSE ref[s]]
        /\ committed' = [i \in Stripes |-> IF StackOf(i) = <<>> THEN <<>> ELSE <<StackOf(i)>>]
        /\ UNCHANGED <<fresh, stacks, stripe, work, at, found, holds, ops, pc, freed, failed>>
    BY <1>18 DEF MarkStart, RootObjects, StackOf
  <2>b. /\ RootObjects \subseteq Objects /\ \A i \in Stripes : StackOf(i) \in Seq(Objects)
        /\ \A o \in RootObjects : o \in Range(StackOf(StripeOf(o)))
    BY <1>0, RootStacks
  <2>c. marked = {} /\ \A t \in Threads : pc[t] = IF t \in Workers THEN "take" ELSE "idle"
    BY <1>0, <2>a DEF BeforeMarking
  <2>d. \A s \in Slots :
          \/ ref'[s] = ref[s] /\ (s[1] = Root => ref[s].obj = Null)
          \/ ref'[s].obj = ref[s].obj /\ ref'[s].good /\ ref'[s] \in Refs /\ ref[s].obj \in RootObjects
    BY <1>0, <2>a DEF Ref, RootObjects, TypeOK, Refs
  <2>1. TypeOK'
    <3>1. ref' \in [Slots -> Refs]
      <4>1. \A s \in Slots : ref'[s] \in Refs
        BY <1>0, <2>d DEF TypeOK
      <4> QED BY <2>a, <4>1
    <3>2. committed' \in [Stripes -> Seq(Seq(Objects))]
      BY <2>a, <2>b
    <3> QED BY <1>0, <2>a, <2>b, <3>1, <3>2 DEF TypeOK
  <2>2. PlacesFit'
    BY <1>0, <2>a DEF PlacesFit, Visiting
  <2>3. BeforeMarking'
    BY <2>a DEF BeforeMarking
  <2>4. NullsAreGood'
    BY <1>0, <2>d DEF NullsAreGood, Good
  <2>5. ReadsHold'
    BY <2>a, <2>c DEF ReadsHold
  <2>6. VisitedGood'
    BY <2>a, <2>c DEF VisitedGood, Visiting
  <2>7. GoodMeansMarked'
    <3>1. ASSUME NEW s \in Slots, ref'[s].good PROVE ref'[s].obj \in RootObjects \cup fresh \cup {Null}
      BY <1>0, <2>c, <2>d, <3>1 DEF GoodMeansMarked, Good
    <3>2. \A m \in Mutators : holds[m] \subseteq RootObjects \cup fresh \cup {Null}
      BY <1>0, <2>c DEF GoodMeansMarked
    <3> QED BY <2>a, <3>1, <3>2 DEF GoodMeansMarked, Good
  <2>8. FollowedToTheEnd'
    <3>1. ASSUME NEW x \in RootObjects PROVE Stacked(x)'
      <4>1. PICK i \in Stripes : i = StripeOf(x)
        BY <2>b, StripeOfObject
      <4>2. x \in Range(StackOf(i)) /\ StackOf(i) # <<>>
        BY <2>b, <4>1 DEF Range
      <4>3. committed'[i] = <<StackOf(i)>>
        BY <2>a, <4>2
      <4>4. 1 \in DOMAIN committed'[i] /\ x \in Range(committed'[i][1])
        BY <4>2, <4>3
      <4> QED BY <4>4 DEF Stacked
    <3>2. \A s \in Slots : Good(s) => Good(s)'
      BY <2>d DEF Good
    <3> QED BY <1>0, <2>a, <3>1, <3>2, StillFollowed
  <2> QED BY <2>1, <2>2, <2>3, <2>4, <2>5, <2>6, <2>7, <2>8 DEF IInv
<1>19. ASSUME Select PROVE IInv'
  <2>1. TypeOK'
    <3>1. freed' \subseteq Pages
      BY <1>19 DEF Select, Pages, Objects
    <3> QED BY <1>0, <1>19, <3>1 DEF Select, TypeOK
  <2>2. PlacesFit'
    BY <1>0, <1>19 DEF Select, TypeOK, PlacesFit, Visiting
  <2>3. BeforeMarking'
    BY <1>0, <1>19 DEF Select, BeforeMarking
  <2>4. NullsAreGood'
    BY <1>0, <1>19 DEF Select, TypeOK, NullsAreGood, Good
  <2>5. ReadsHold'
    BY <1>0, <1>19 DEF Select, TypeOK, PlacesFit, ReadsHold, Good
  <2>6. VisitedGood'
    BY <1>0, <1>19 DEF Select, TypeOK, PlacesFit, VisitedGood, Visiting, Good
  <2>7. GoodMeansMarked'
    BY <1>0, <1>19 DEF Select, TypeOK, ReadsHold, GoodMeansMarked, Good
  <2>8. FollowedToTheEnd'
    <3>1. \A x : (Stacked(x)' <=> Stacked(x)) /\ (Held(x)' <=> Held(x))
      BY <1>19 DEF Select, Stacked, Held
    <3>2. marked' = marked /\ ref' = ref
      BY <1>19 DEF Select
    <3> QED BY <1>0, <3>1, <3>2, StillFollowed DEF Good
  <2> QED BY <2>1, <2>2, <2>3, <2>4, <2>5, <2>6, <2>7, <2>8 DEF IInv
<1>20. CASE UNCHANGED vars
  <2>1. \A s \in Slots : Good(s)' <=> Good(s)
    BY <1>20 DEF vars, Good
  <2>2. OnStacks' = OnStacks
    BY <1>20 DEF vars, OnStacks
  <2>3. InHand' = InHand
    BY <1>20 DEF vars, InHand
  <2>4. TypeOK' /\ PlacesFit' /\ BeforeMarking'
    BY <1>0, <1>20 DEF vars, TypeOK, PlacesFit, BeforeMarking
  <2>5. NullsAreGood' /\ ReadsHold' /\ VisitedGood'
    BY <1>0, <1>20 DEF vars, NullsAreGood, ReadsHold, VisitedGood, Good
  <2>6. GoodMeansMarked' /\ FollowedToTheEnd'
    BY <1>0, <2>2, <2>3, <1>20 DEF vars, GoodMeansMarked, FollowedToTheEnd, Good
  <2> QED BY <2>4, <2>5, <2>6 DEF IInv
<1> QED BY <1>1, <1>2, <1>3, <1>4, <1>5, <1>6, <1>7, <1>8, <1>9, <1>10, <1>11, <1>12, <1>13,
  <1>14, <1>15, <1>16, <1>17, <1>18, <1>19, <1>20 DEF Next, Work, Mutate, Barrier

-----------------------------------------------------------------------------
(* The theorems.                                                           *)

THEOREM InvariantHolds == Spec => []IInv
BY InitIInv, NextIInv, PTL DEF Spec

\* The heap, the stacks and the threads keep their types, whatever the workers
\* and the mutators do.
THEOREM TypeCorrect == Spec => []TypeOK
<1>1. IInv => TypeOK
  BY DEF IInv
<1> QED BY <1>1, InvariantHolds, PTL

\* ygc_barrier_mark before the self-heal: a reference that is good, in the heap
\* or in a mutator's hands, is to an object that is marked or new.
THEOREM BarrierMarksFirst == Spec => []GoodMeansMarked
<1>1. IInv => GoodMeansMarked
  BY DEF IInv
<1> QED BY <1>1, InvariantHolds, PTL

\* marking_mark_stripe and the stacks forget no work: a marked object that is on
\* no stack and in nobody's hands has only good fields, with any number of
\* workers, stripes, fields and stores in between.
THEOREM NoWorkIsForgotten == Spec => []FollowedToTheEnd
<1>1. IInv => FollowedToTheEnd
  BY DEF IInv
<1> QED BY <1>1, InvariantHolds, PTL

\* ygc_barrier_self_heal_fast_on_good_or_null: the compare-and-swap never
\* changes what a field refers to.
THEOREM HealIsSilent == Spec => HealKeepsReference
<1>1. ASSUME IInv, [Next]_vars, NEW t \in Threads, pc[t] = "heal", pc'[t] # "heal"
      PROVE  \A s \in Slots : ref'[s].obj = ref[s].obj
  <2>1. CASE ref' = ref
    BY <2>1
  <2>2. CASE pc' = pc
    BY <1>1, <2>2
  <2>3. CASE \E u \in Threads : Heal(u)
    BY <1>1, <2>3, Healing DEF IInv
  <2>4. ref' = ref \/ pc' = pc \/ \E u \in Threads : Heal(u)
    BY <1>1, ZenonT(60) DEF Next, vars, threadVars, Work, Mutate, Barrier, Threads, TakeStack, StripeDone,
       PopObject, StackDone, SkipField, VisitField, LoadField, Mark, Push, Exited, Commit, LoadGood,
       LoadBad, Store, Allocate, Exit, MarkStart, Select
  <2> QED BY <2>1, <2>2, <2>3, <2>4
<1>2. IInv /\ [Next]_vars =>
        [(\E t \in Threads : pc[t] = "heal" /\ pc'[t] # "heal") =>
           \A s \in Slots : ref'[s].obj = ref[s].obj]_vars
  BY <1>1
<1> QED BY <1>2, InvariantHolds, PTL DEF Spec, HealKeepsReference

\* No slot loses its colour: neither a heal nor a store (ygc_barrier_mark_on_field,
\* a store of what a mutator holds) makes a good reference bad again.
GoodIsKept == [][\A s \in Slots : Good(s) => Good(s)']_vars

THEOREM ColourIsKept == Spec => GoodIsKept
<1>1. ASSUME IInv, [Next]_vars PROVE \A s \in Slots : Good(s) => Good(s)'
  <2>1. CASE ref' = ref
    BY <2>1 DEF Good
  <2>2. CASE \E u \in Threads : Heal(u)
    BY <1>1, <2>2, Healing DEF IInv
  <2>3. CASE \E m \in Mutators, s \in Slots : Store(m, s)
    <3>1. PICK m \in Mutators, s \in Slots : Store(m, s)
      BY <2>3
    <3>2. PICK r \in {Ref(o, TRUE) : o \in holds[m]} \cup {NullRef} : ref' = [ref EXCEPT ![s] = r]
      BY <3>1 DEF Store
    <3>3. r.good /\ ref \in [Slots -> Refs]
      BY <1>1 DEF Ref, NullRef, IInv, TypeOK
    <3> QED BY <3>2, <3>3 DEF Good
  <2>4. CASE MarkStart
    BY <2>4 DEF MarkStart, Good, Ref
  <2>5. \/ ref' = ref \/ MarkStart \/ \E u \in Threads : Heal(u)
        \/ \E m \in Mutators, s \in Slots : Store(m, s)
    BY <1>1 DEF Next, vars, threadVars, Work, Mutate, Barrier, Threads, TakeStack, StripeDone,
       PopObject, StackDone, SkipField, VisitField, LoadField, Mark, Push, Exited, Commit, LoadGood,
       LoadBad, Allocate, Exit, Select
  <2> QED BY <2>1, <2>2, <2>3, <2>4, <2>5
<1>2. IInv /\ [Next]_vars => [\A s \in Slots : Good(s) => Good(s)']_vars
  BY <1>1
<1> QED BY <1>2, InvariantHolds, PTL DEF Spec, GoodIsKept

-----------------------------------------------------------------------------
(* What the selection frees.                                               *)

FreedUnmarked ==
  /\ phase # "select" => freed = {}
  /\ \A o \in marked : PageOf[o] \notin freed

LEMMA FreedStaysUnmarked == FreedUnmarked /\ [Next]_vars => FreedUnmarked'
<1> SUFFICES ASSUME FreedUnmarked, [Next]_vars PROVE FreedUnmarked'
  OBVIOUS
<1>1. CASE Select
  BY <1>1 DEF Select, FreedUnmarked
<1>2. CASE phase # "select" /\ freed' = freed
  BY <1>2 DEF FreedUnmarked
<1>3. CASE UNCHANGED vars
  BY <1>3 DEF FreedUnmarked, vars
<1>4. Select \/ (phase # "select" /\ freed' = freed) \/ UNCHANGED vars
  BY ZenonT(60) DEF Next, Work, Mutate, Barrier, TakeStack, StripeDone, PopObject, StackDone, SkipField,
     VisitField, LoadField, Mark, Push, Heal, Exited, Commit, LoadGood, LoadBad, Store, Allocate,
     Exit, MarkStart, At, Move, Operate
<1> QED BY <1>1, <1>2, <1>3, <1>4

\* ygc_select_relocation_set frees no page that a good reference leads to, of
\* the heap or of a mutator: what may be lost is only what no barrier has seen.
GoodPagesAreKept ==
  LET seen == {ref[s].obj : s \in {q \in Slots : Good(q)}}
              \cup (UNION {holds[m] : m \in Mutators}) IN
  \A o \in seen : o \in Objects \ fresh => PageOf[o] \notin freed

THEOREM SelectionKeepsGood == Spec => []GoodPagesAreKept
<1>1. Init => FreedUnmarked
  BY DEF Init, FreedUnmarked
<1>2. Spec => []FreedUnmarked
  BY <1>1, FreedStaysUnmarked, PTL DEF Spec
<1>3. IInv /\ FreedUnmarked => GoodPagesAreKept
  BY MarkingAssumption DEF IInv, GoodMeansMarked, FreedUnmarked, GoodPagesAreKept
<1> QED BY <1>2, <1>3, InvariantHolds, PTL
=============================================================================
