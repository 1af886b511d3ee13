----------------------------- MODULE ChunkProofs -----------------------------
(***************************************************************************)
(* What holds of every chunk, from the content list it is parsed from      *)
(* (PaperParsing) to the results, the context and the detail it is shown   *)
(* in (Retrieval).  The two have the finite orders in common: lines stand  *)
(* one above the other, chunks are nearer or better than others, and       *)
(* counting what comes before is what both are about.  The last theorem    *)
(* about parsing is what Retrieval assumes of the batches it indexes.      *)
(***************************************************************************)
EXTENDS PaperParsing, Retrieval, FiniteSetTheorems, TLAPS

-----------------------------------------------------------------------------
(* The first n members of a finite set in a strict order, given as a set   *)
(* of pairs.                                                               *)

Orders(R, S) ==
    /\ \A c \in S : <<c, c>> \notin R
    /\ \A c, d \in S : c # d => <<c, d>> \in R \/ <<d, c>> \in R
    /\ \A c, d, e \in S : <<c, d>> \in R /\ <<d, e>> \in R => <<c, e>> \in R

Below(R, S, c) == {d \in S : <<d, c>> \in R}

Prefix(n, R, S) == {c \in S : Cardinality(Below(R, S, c)) < n}

LEMMA BelowCounts ==
    ASSUME NEW R, NEW S, IsFiniteSet(S), Orders(R, S), NEW c \in S
    PROVE  /\ Cardinality(Below(R, S, c)) \in Nat
           /\ Cardinality(Below(R, S, c)) < Cardinality(S)
<1>1. Below(R, S, c) \in SUBSET S /\ c \notin Below(R, S, c)
  BY DEF Below, Orders
<1>2. IsFiniteSet(Below(R, S, c)) /\ Below(R, S, c) # S
  BY <1>1, FS_Subset
<1> QED
  BY <1>1, <1>2, FS_Subset, FS_CardinalityType

LEMMA BelowGrows ==
    ASSUME NEW R, NEW S, IsFiniteSet(S), Orders(R, S), NEW c \in S, NEW d \in S,
           <<c, d>> \in R
    PROVE  Cardinality(Below(R, S, c)) < Cardinality(Below(R, S, d))
<1>1. /\ Below(R, S, c) \in SUBSET Below(R, S, d)
      /\ c \in Below(R, S, d) /\ c \notin Below(R, S, c)
  BY DEF Below, Orders
<1>2. IsFiniteSet(Below(R, S, d))
  <2>1. Below(R, S, d) \in SUBSET S
    BY DEF Below
  <2> QED
    BY <2>1, FS_Subset
<1>3. Below(R, S, c) # Below(R, S, d)
  BY <1>1
<1> QED
  BY <1>1, <1>2, <1>3, FS_Subset, BelowCounts

(* Whatever is left out comes after whatever is taken.                     *)
LEMMA PrefixBest ==
    ASSUME NEW R, NEW S, IsFiniteSet(S), Orders(R, S), NEW n \in Nat,
           NEW c \in S \ Prefix(n, R, S), NEW d \in Prefix(n, R, S)
    PROVE  <<d, c>> \in R
<1>1. c \in S /\ d \in S /\ c # d
  BY DEF Prefix
<1>2. /\ Cardinality(Below(R, S, d)) < n
      /\ ~(Cardinality(Below(R, S, c)) < n)
  BY DEF Prefix
<1>3. <<c, d>> \notin R
  <2> SUFFICES ASSUME <<c, d>> \in R PROVE FALSE
    OBVIOUS
  <2>1. Cardinality(Below(R, S, c)) < Cardinality(Below(R, S, d))
    BY <1>1, BelowGrows
  <2>2. Cardinality(Below(R, S, c)) \in Nat /\ Cardinality(Below(R, S, d)) \in Nat
    BY <1>1, BelowCounts
  <2> QED
    BY <1>2, <2>1, <2>2
<1> QED
  BY <1>1, <1>3 DEF Orders

(* How many come before a member is its place: every place is taken once.  *)
LEMMA PlacesTaken ==
    ASSUME NEW R, NEW S, IsFiniteSet(S), Orders(R, S)
    PROVE  [c \in S |-> Cardinality(Below(R, S, c))]
             \in Bijection(S, 0..(Cardinality(S) - 1))
<1> DEFINE place == [c \in S |-> Cardinality(Below(R, S, c))]
           places == 0..(Cardinality(S) - 1)
<1>1. Cardinality(S) \in Nat
  BY FS_CardinalityType
<1>2. \A c \in S : place[c] \in places
  <2> TAKE c \in S
  <2>1. Cardinality(Below(R, S, c)) \in Nat
        /\ Cardinality(Below(R, S, c)) < Cardinality(S)
    BY BelowCounts
  <2>2. place[c] = Cardinality(Below(R, S, c))
    OBVIOUS
  <2> HIDE DEF place
  <2> QED
    BY <1>1, <2>1, <2>2
<1>3. ASSUME NEW c \in S, NEW d \in S, place[c] = place[d] PROVE c = d
  <2> SUFFICES ASSUME c # d PROVE FALSE
    OBVIOUS
  <2>1. Cardinality(Below(R, S, c)) = Cardinality(Below(R, S, d))
    BY <1>3
  <2>2. /\ Cardinality(Below(R, S, c)) \in Nat
        /\ Cardinality(Below(R, S, d)) \in Nat
    BY BelowCounts
  <2>3. CASE <<c, d>> \in R
    BY <2>1, <2>2, <2>3, BelowGrows
  <2>4. CASE <<d, c>> \in R
    BY <2>1, <2>2, <2>4, BelowGrows
  <2> QED
    BY <2>3, <2>4 DEF Orders
<1>4. place \in [S -> places] /\ DOMAIN place = S
  BY <1>2
<1> HIDE DEF place
<1>5. place \in Injection(S, places)
  BY <1>3, <1>4 DEF Injection, IsInjective
<1>6. IsFiniteSet(places) /\ Cardinality(places) = Cardinality(S)
  BY <1>1, FS_Interval
<1> HIDE DEF places
<1>7. place \in Surjection(S, places)
  BY <1>5, <1>6, FS_Injection
<1> QED
  BY <1>5, <1>7 DEF Bijection, place, places

LEMMA PrefixSize ==
    ASSUME NEW R, NEW S, IsFiniteSet(S), Orders(R, S), NEW n \in Nat
    PROVE  /\ IsFiniteSet(Prefix(n, R, S))
           /\ Cardinality(Prefix(n, R, S)) <= n
           /\ Cardinality(Prefix(n, R, S)) < n => Prefix(n, R, S) = S
<1> DEFINE P == Prefix(n, R, S)
<1>1. P \in SUBSET S
  BY DEF Prefix
<1>2. IsFiniteSet(P) /\ Cardinality(P) \in Nat /\ Cardinality(S) \in Nat
  BY <1>1, FS_Subset, FS_CardinalityType
<1>3. CASE Cardinality(S) <= n
  <2>1. P = S
    <3>1. ASSUME NEW c \in S PROVE Cardinality(Below(R, S, c)) < n
      BY <1>2, <1>3, BelowCounts
    <3> QED
      BY <3>1 DEF Prefix
  <2> QED
    BY <1>2, <1>3, <2>1
<1>4. CASE n < Cardinality(S)
  <2> DEFINE place == [c \in S |-> Cardinality(Below(R, S, c))]
             taken == [c \in P |-> Cardinality(Below(R, S, c))]
             places == 0..(n - 1)
  <2>1. place \in Bijection(S, 0..(Cardinality(S) - 1))
    BY PlacesTaken
  <2>2. \A c \in S : place[c] = Cardinality(Below(R, S, c))
    OBVIOUS
  <2>3. \A c \in P : taken[c] = place[c] /\ c \in S
    BY <1>1
  <2>4. \A c \in S : place[c] \in Nat /\ (c \in P <=> place[c] < n)
    BY BelowCounts DEF Prefix
  <2>5. DOMAIN taken = P /\ taken = [c \in P |-> taken[c]]
    OBVIOUS
  <2>6. DOMAIN place = S
    OBVIOUS
  <2> HIDE DEF place, taken, P
  <2>7. taken \in Injection(P, places)
    <3>1. \A c \in P : taken[c] \in places
      BY <2>3, <2>4
    <3>2. taken \in [P -> places]
      BY <2>5, <3>1
    <3> QED
      BY <2>1, <2>3, <2>5, <2>6, <3>2 DEF Bijection, Injection, IsInjective
  <2>8. ASSUME NEW k \in places PROVE \E c \in P : taken[c] = k
    <3>1. k \in 0..(Cardinality(S) - 1) /\ k < n
      BY <1>2, <1>4
    <3>2. PICK c \in S : place[c] = k
      BY <2>1, <3>1 DEF Bijection, Surjection
    <3> QED
      BY <2>3, <2>4, <3>1, <3>2
  <2>9. taken \in Surjection(P, places)
    BY <2>7, <2>8 DEF Injection, Surjection
  <2>10. IsFiniteSet(places) /\ Cardinality(places) = n
    BY FS_Interval
  <2> HIDE DEF places
  <2>11. Cardinality(P) = n
    BY <2>7, <2>9, <2>10, FS_Injection
  <2> QED
    BY <1>2, <2>11 DEF P
<1> QED
  BY <1>2, <1>3, <1>4

LEMMA LeastAndGreatest ==
    ASSUME NEW R, NEW S, IsFiniteSet(S), Orders(R, S), S # {}
    PROVE  /\ \E c \in S : \A d \in S \ {c} : <<c, d>> \in R
           /\ \E c \in S : \A d \in S \ {c} : <<d, c>> \in R
<1> DEFINE place == [c \in S |-> Cardinality(Below(R, S, c))]
           last == Cardinality(S) - 1
<1>1. last \in Nat
  BY FS_CardinalityType, FS_EmptySet
<1>2. \A k \in 0..last : \E c \in S : place[c] = k
  BY PlacesTaken DEF Bijection, Surjection
<1>3. \A c \in S : place[c] = Cardinality(Below(R, S, c))
  OBVIOUS
<1> HIDE DEF place
<1>4. \A c \in S : place[c] \in Nat /\ place[c] <= last
  BY <1>1, <1>3, BelowCounts, FS_CardinalityType
<1>5. \A c, d \in S : <<c, d>> \in R => place[c] < place[d]
  BY <1>3, BelowGrows
<1>6. PICK c \in S, e \in S : place[c] = 0 /\ place[e] = last
  BY <1>1, <1>2
<1> HIDE DEF last
<1>7. ASSUME NEW d \in S \ {c} PROVE <<c, d>> \in R
  <2>1. ~(place[d] < place[c])
    BY <1>4, <1>6
  <2> QED
    BY <1>5, <1>6, <2>1 DEF Orders
<1>8. ASSUME NEW d \in S \ {e} PROVE <<d, e>> \in R
  <2>1. ~(place[e] < place[d])
    BY <1>1, <1>4, <1>6
  <2> QED
    BY <1>5, <2>1 DEF Orders
<1> QED
  BY <1>6, <1>7, <1>8

-----------------------------------------------------------------------------
(* The lines of a body, in the order of the paper.                         *)

(* A body as the parsers cut it out of the content list of a paper.        *)
IsBody(body) ==
    /\ IsFiniteSet(DOMAIN body) /\ DOMAIN body \subseteq Nat
    /\ \A i \in DOMAIN body :
         /\ body[i].type \in {"text", "list", "table", "image", "footer", "header"}
         /\ Len(body[i].lines) \in Nat
         /\ DOMAIN body[i].lines = 1..Len(body[i].lines)
         /\ body[i].type = "image" => body[i].lines = <<>>
         /\ body[i].type \notin {"image", "list"} => DOMAIN body[i].lines = {1}

InOrder(S) == {r \in S \X S : Above(r[1], r[2])}

LEMMA AboveOrders ==
    ASSUME NEW S \in SUBSET (Nat \X Nat)
    PROVE  Orders(InOrder(S), S)
<1>1. \A c, d \in S : <<c, d>> \in InOrder(S) <=> Above(c, d)
  BY DEF InOrder
<1>2. \A c \in S : c = <<c[1], c[2]>> /\ c[1] \in Nat /\ c[2] \in Nat
  OBVIOUS
<1>3. \A c \in S : ~Above(c, c)
  BY <1>2 DEF Above
<1>4. \A c, d \in S : c # d => Above(c, d) \/ Above(d, c)
  <2> TAKE c, d \in S
  <2> HAVE c # d
  <2>1. c[1] # d[1] \/ c[2] # d[2]
    BY <1>2
  <2> QED
    BY <1>2, <2>1 DEF Above
<1>5. \A c, d, e \in S : Above(c, d) /\ Above(d, e) => Above(c, e)
  BY <1>2 DEF Above
<1> QED
  BY <1>1, <1>3, <1>4, <1>5 DEF Orders

LEMMA AboveTotal ==
    ASSUME NEW c \in Nat \X Nat, NEW d \in Nat \X Nat
    PROVE  /\ ~Above(c, c)
           /\ c = d \/ Above(c, d) \/ Above(d, c)
           /\ Above(c, d) => c # d /\ ~Above(d, c)
           /\ \A e \in Nat \X Nat : Above(c, d) /\ Above(d, e) => Above(c, e)
<1>1. /\ c = <<c[1], c[2]>> /\ c[1] \in Nat /\ c[2] \in Nat
      /\ d = <<d[1], d[2]>> /\ d[1] \in Nat /\ d[2] \in Nat
  OBVIOUS
<1>2. c = d \/ c[1] # d[1] \/ c[2] # d[2]
  BY <1>1
<1> QED
  BY <1>1, <1>2 DEF Above

LEMMA FirstAndLastPlace ==
    ASSUME NEW S \in SUBSET (Nat \X Nat), IsFiniteSet(S), S # {}
    PROVE  /\ \E c \in S : \A d \in S \ {c} : Above(c, d)
           /\ \E c \in S : \A d \in S \ {c} : Above(d, c)
<1>1. \A c, d \in S : <<c, d>> \in InOrder(S) <=> Above(c, d)
  BY DEF InOrder
<1>2. /\ \E c \in S : \A d \in S \ {c} : <<c, d>> \in InOrder(S)
      /\ \E c \in S : \A d \in S \ {c} : <<d, c>> \in InOrder(S)
  <2>1. Orders(InOrder(S), S)
    BY AboveOrders
  <2> HIDE DEF InOrder
  <2> QED
    BY <2>1, LeastAndGreatest
<1> QED
  BY <1>1, <1>2

LEMMA PlacesFinite ==
    ASSUME NEW body, IsBody(body)
    PROVE  IsFiniteSet(Places(body)) /\ Places(body) \subseteq Nat \X Nat
<1> DEFINE of == [i \in DOMAIN body |-> {i} \X DOMAIN body[i].lines]
           all == {{i} \X DOMAIN body[i].lines : i \in DOMAIN body}
<1>1. IsFiniteSet(all)
  <2>1. of \in Surjection(DOMAIN body, all)
    BY DEF Surjection
  <2> QED
    BY <2>1, FS_Surjection DEF IsBody
<1>2. \A T \in all : IsFiniteSet(T)
  <2> TAKE T \in all
  <2>1. PICK i \in DOMAIN body : T = {i} \X DOMAIN body[i].lines
    OBVIOUS
  <2>2. Len(body[i].lines) \in Nat /\ DOMAIN body[i].lines = 1..Len(body[i].lines)
    BY DEF IsBody
  <2>3. IsFiniteSet(DOMAIN body[i].lines)
    BY <2>2, FS_Interval
  <2> QED
    BY <2>1, <2>3, FS_Singleton, FS_Product
<1>3. \A i \in DOMAIN body : i \in Nat /\ DOMAIN body[i].lines \subseteq Nat
  BY DEF IsBody
<1>4. UNION all \subseteq Nat \X Nat
  BY <1>3
<1>5. IsFiniteSet(UNION all)
  <2> HIDE DEF all
  <2> QED
    BY <1>1, <1>2, FS_UNION
<1> QED
  BY <1>4, <1>5 DEF Places

LEMMA FlattenPlaces ==
    ASSUME NEW body, IsBody(body)
    PROVE  /\ IsFiniteSet(Flatten(body))
           /\ Flatten(body) \subseteq Places(body) /\ Flatten(body) \subseteq Nat \X Nat
           /\ \A p \in Flatten(body) : body[p[1]].type \in Read
           /\ Filled(body, Flatten(body)) = Indexed(body, Places(body))
<1>1. Flatten(body) \in SUBSET Places(body)
  BY DEF Flatten
<1>2. \A p \in Flatten(body) : body[p[1]].type \in Read
  BY DEF Flatten, Read
<1>3. Filled(body, Flatten(body)) = Indexed(body, Places(body))
  BY <1>1, <1>2 DEF Filled, Indexed, Flatten
<1> QED
  BY <1>1, <1>2, <1>3, PlacesFinite, FS_Subset

-----------------------------------------------------------------------------
(* Where the parts begin.                                                  *)

(* The first lines of a body, up to q, read from the top.                  *)
ReadTo(body, q, A) ==
    /\ A \subseteq UpTo(Flatten(body), q)
    /\ \A p \in UpTo(Flatten(body), q) :
         p \in A <=> LabelOf(LineAt(body, p)) = Cardinality({s \in A : Above(s, p)}) + 1

LEMMA ReadOn ==
    ASSUME NEW body, IsBody(body), NEW q \in Flatten(body), NEW B \in SUBSET Flatten(body),
           \A p \in B : Above(p, q),
           \A p \in Flatten(body) : Above(p, q) =>
             (p \in B <=> LabelOf(LineAt(body, p)) = Cardinality({s \in B : Above(s, p)}) + 1)
    PROVE  \E A \in SUBSET Flatten(body) : ReadTo(body, q, A)
<1> DEFINE F == Flatten(body)
           here == IF LabelOf(LineAt(body, q)) = Cardinality(B) + 1 THEN {q} ELSE {}
           A == B \cup here
<1>1. F \subseteq Nat \X Nat /\ q \in Nat \X Nat
  BY FlattenPlaces
<1>2. here \subseteq {q} /\ (q \in here <=> LabelOf(LineAt(body, q)) = Cardinality(B) + 1)
  OBVIOUS
<1> HIDE DEF here, F
<1>3. A \subseteq UpTo(F, q)
  BY <1>2 DEF UpTo, F
<1>4. ASSUME NEW p \in UpTo(F, q)
      PROVE  {s \in A : Above(s, p)} = {s \in B : Above(s, p)}
  <2>1. p \in Nat \X Nat /\ (p = q \/ Above(p, q))
    BY <1>1 DEF UpTo
  <2>2. ~Above(q, p)
    BY <1>1, <2>1, AboveTotal
  <2> QED
    BY <1>2, <2>2
<1>5. {s \in B : Above(s, q)} = B /\ q \notin B
  BY <1>1, AboveTotal
<1>6. ASSUME NEW p \in UpTo(F, q)
      PROVE  p \in A <=> LabelOf(LineAt(body, p)) = Cardinality({s \in A : Above(s, p)}) + 1
  <2>1. CASE p = q
    BY <1>2, <1>4, <1>5, <2>1
  <2>2. CASE p # q
    <3>1. p \in F /\ Above(p, q)
      BY <2>2 DEF UpTo
    <3>2. p \in A <=> p \in B
      BY <1>2, <2>2
    <3> QED
      BY <1>4, <3>1, <3>2 DEF F
  <2> QED
    BY <2>1, <2>2
<1>7. A \in SUBSET F
  BY <1>2 DEF F
<1> QED
  BY <1>3, <1>6, <1>7 DEF ReadTo, F

(* Otherwise there is a first line down to which it cannot be read.        *)
LEMMA EveryLineRead ==
    ASSUME NEW body, IsBody(body)
    PROVE  \A q \in Flatten(body) :
             \E A \in SUBSET Flatten(body) : ReadTo(body, q, A)
<1> DEFINE F == Flatten(body)
           bad == {q \in F : \A A \in SUBSET F : ~ReadTo(body, q, A)}
<1> SUFFICES ASSUME bad # {} PROVE FALSE
  OBVIOUS
<1>1. IsFiniteSet(F) /\ F \subseteq Nat \X Nat
  BY FlattenPlaces
<1>2. IsFiniteSet(bad) /\ bad \in SUBSET (Nat \X Nat)
  BY <1>1, FS_Subset
<1>3. PICK q \in bad : \A p \in bad \ {q} : Above(q, p)
  <2> HIDE DEF bad
  <2> QED
    BY <1>2, FirstAndLastPlace
<1> DEFINE before == {p \in F : Above(p, q)}
<1>4. CASE before = {}
  <2>1. \E A \in SUBSET F : ReadTo(body, q, A)
    BY <1>4, ReadOn
  <2> QED
    BY <2>1
<1>5. CASE before # {}
  <2>1. IsFiniteSet(before) /\ before \in SUBSET (Nat \X Nat)
    BY <1>1, FS_Subset
  <2>2. PICK r \in before : \A p \in before \ {r} : Above(p, r)
    <3> HIDE DEF before
    <3> QED
      BY <1>5, <2>1, FirstAndLastPlace
  <2>3. r \in F /\ r \notin bad
    <3>1. r \in Nat \X Nat /\ q \in Nat \X Nat /\ Above(r, q)
      BY <1>2, <2>1
    <3>2. r # q /\ ~Above(q, r)
      BY <3>1, AboveTotal
    <3> QED
      BY <1>3, <3>2
  <2>4. PICK B \in SUBSET F : ReadTo(body, r, B)
    BY <2>3
  <2>5. UpTo(F, r) = before
    <3>1. \A p \in F : Above(p, r) => Above(p, q)
      <4> TAKE p \in F
      <4>1. p \in Nat \X Nat /\ r \in Nat \X Nat /\ q \in Nat \X Nat /\ Above(r, q)
        BY <1>1, <1>2, <2>1
      <4> QED
        BY <4>1, AboveTotal
    <3> QED
      BY <2>2, <3>1 DEF UpTo
  <2>6. /\ \A p \in B : Above(p, q)
        /\ \A p \in F : Above(p, q) =>
             (p \in B <=> LabelOf(LineAt(body, p)) = Cardinality({s \in B : Above(s, p)}) + 1)
    BY <2>4, <2>5 DEF ReadTo
  <2>7. \E A \in SUBSET F : ReadTo(body, q, A)
    BY <2>6, ReadOn
  <2> QED
    BY <2>7
<1> QED
  BY <1>4, <1>5

(* There is a choice of labels that is sequential: Starts is one.          *)
LEMMA StartsRead ==
    ASSUME NEW body, IsBody(body)
    PROVE  /\ Starts(body) \subseteq Flatten(body) /\ IsFiniteSet(Starts(body))
           /\ Sequential(body, Starts(body))
<1> DEFINE F == Flatten(body)
           labelled == {p \in F : LabelOf(LineAt(body, p)) # NoLabel}
<1>1. IsFiniteSet(F) /\ F \in SUBSET (Nat \X Nat)
  BY FlattenPlaces
<1>2. \E A \in SUBSET labelled : Sequential(body, A)
  <2>1. CASE F = {}
    BY <2>1 DEF Sequential
  <2>2. CASE F # {}
    <3>1. PICK r \in F : \A p \in F \ {r} : Above(p, r)
      <4> HIDE DEF F
      <4> QED
        BY <1>1, <2>2, FirstAndLastPlace
    <3>2. UpTo(F, r) = F
      BY <3>1 DEF UpTo
    <3>3. PICK A \in SUBSET F : ReadTo(body, r, A)
      BY EveryLineRead
    <3>4. \A p \in F : p \in A <=>
            LabelOf(LineAt(body, p)) = Cardinality({s \in A : Above(s, p)}) + 1
      BY <3>2, <3>3 DEF ReadTo
    <3>5. \A p \in F : Cardinality({s \in A : Above(s, p)}) \in Nat
      <4> TAKE p \in F
      <4>1. {s \in A : Above(s, p)} \in SUBSET F
        OBVIOUS
      <4> QED
        BY <1>1, <4>1, FS_Subset, FS_CardinalityType
    <3>6. A \in SUBSET labelled
      <4>1. ASSUME NEW p \in A PROVE LabelOf(LineAt(body, p)) # 0
        <5> DEFINE n == Cardinality({s \in A : Above(s, p)})
        <5>1. n \in Nat /\ LabelOf(LineAt(body, p)) = n + 1
          BY <3>4, <3>5
        <5> HIDE DEF n
        <5> QED
          BY <5>1
      <4> QED
        BY <4>1 DEF NoLabel
    <3> QED
      BY <3>4, <3>6 DEF Sequential
  <2> QED
    BY <2>1, <2>2
<1>3. Starts(body) \in SUBSET labelled /\ Sequential(body, Starts(body))
  BY <1>2 DEF Starts, FilterSequentialLabels
<1> QED
  BY <1>1, <1>3, FS_Subset

(* And no other is: where two choices differed first, the same labels      *)
(* would count above.                                                      *)
THEOREM OneReading ==
    ASSUME NEW body, IsBody(body), NEW A \in SUBSET Flatten(body), Sequential(body, A)
    PROVE  A = Starts(body)
<1> DEFINE F == Flatten(body)
           B == Starts(body)
           differ == (A \ B) \cup (B \ A)
<1> SUFFICES ASSUME differ # {} PROVE FALSE
  OBVIOUS
<1>1. B \subseteq F /\ Sequential(body, B)
  BY StartsRead
<1> HIDE DEF B
<1>2. IsFiniteSet(differ) /\ differ \in SUBSET (Nat \X Nat) /\ differ \in SUBSET F
  <2>1. IsFiniteSet(F) /\ F \subseteq Nat \X Nat /\ differ \in SUBSET F
    BY <1>1, FlattenPlaces
  <2> QED
    BY <2>1, FS_Subset
<1>3. PICK p \in differ : \A d \in differ \ {p} : Above(p, d)
  <2> HIDE DEF differ
  <2> QED
    BY <1>2, FirstAndLastPlace
<1>4. \A d \in differ : ~Above(d, p)
  BY <1>2, <1>3, AboveTotal
<1>5. {q \in A : Above(q, p)} = {q \in B : Above(q, p)}
  BY <1>4
<1>6. p \in A <=> p \in B
  BY <1>1, <1>2, <1>5 DEF Sequential
<1> QED
  BY <1>6

-----------------------------------------------------------------------------
(* The segments that are displayed.                                        *)

(* Of two lines, the index of the upper one is smaller.                    *)
LEMMA IndexesCount ==
    ASSUME NEW F \in SUBSET (Nat \X Nat), IsFiniteSet(F), NEW s \in F, NEW p \in Nat \X Nat
    PROVE  Cardinality(UpTo(F, s)) <= Cardinality(UpTo(F, p)) <=> s = p \/ Above(s, p)
<1>1. /\ UpTo(F, s) \in SUBSET F /\ UpTo(F, p) \in SUBSET F
      /\ IsFiniteSet(UpTo(F, s)) /\ IsFiniteSet(UpTo(F, p))
  <2>1. UpTo(F, s) \in SUBSET F /\ UpTo(F, p) \in SUBSET F
    BY DEF UpTo
  <2> QED
    BY <2>1, FS_Subset
<1>2. Cardinality(UpTo(F, s)) \in Nat /\ Cardinality(UpTo(F, p)) \in Nat
  BY <1>1, FS_CardinalityType
<1>3. ASSUME s = p \/ Above(s, p)
      PROVE  Cardinality(UpTo(F, s)) <= Cardinality(UpTo(F, p))
  <2>1. UpTo(F, s) \in SUBSET UpTo(F, p)
    <3>1. ASSUME NEW r \in F, r = s \/ Above(r, s) PROVE r = p \/ Above(r, p)
      BY <1>3, <3>1, AboveTotal
    <3> QED
      BY <3>1 DEF UpTo
  <2> QED
    BY <1>1, <2>1, FS_Subset
<1>4. ASSUME ~(s = p \/ Above(s, p))
      PROVE  Cardinality(UpTo(F, p)) < Cardinality(UpTo(F, s))
  <2>1. Above(p, s)
    BY <1>4, AboveTotal
  <2>2. UpTo(F, p) \in SUBSET UpTo(F, s)
    <3>1. ASSUME NEW r \in F, r = p \/ Above(r, p) PROVE r = s \/ Above(r, s)
      BY <2>1, <3>1, AboveTotal
    <3> QED
      BY <3>1 DEF UpTo
  <2>3. s \in UpTo(F, s) /\ s \notin UpTo(F, p)
    BY <1>4 DEF UpTo
  <2>4. UpTo(F, p) # UpTo(F, s)
    BY <2>3
  <2> QED
    BY <1>1, <1>2, <2>2, <2>4, FS_Subset
<1> QED
  BY <1>2, <1>3, <1>4

LEMMA Counted ==
    ASSUME NEW S, IsFiniteSet(S), NEW q
    PROVE  Cardinality(UpTo(S, q)) \in 0..Cardinality(S)
<1>1. UpTo(S, q) \in SUBSET S
  BY DEF UpTo
<1> QED
  BY <1>1, FS_Subset, FS_CardinalityType

LEMMA DisplayedPlaces ==
    ASSUME NEW body, IsBody(body)
    PROVE  /\ Displayed(body) \subseteq Nat \X Nat
           /\ Indexed(body, Displayed(body)) = Filled(body, Flatten(body))
           /\ \A p \in Places(body) : body[p[1]].type = "table" => p = <<p[1], 1>>
           /\ \A p \in Places(body) : body[p[1]].type # "image"
           /\ Filled(body, Flatten(body)) \subseteq Displayed(body)
<1>1. \A p \in Places(body) :
        /\ p[1] \in DOMAIN body /\ p[2] \in DOMAIN body[p[1]].lines
        /\ p = <<p[1], p[2]>> /\ p \in Nat \X Nat
  <2>1. Places(body) \subseteq Nat \X Nat
    BY PlacesFinite
  <2>2. \A p \in Places(body) : p[1] \in DOMAIN body /\ p[2] \in DOMAIN body[p[1]].lines
    BY DEF Places
  <2> QED
    BY <2>1, <2>2
<1>2. \A i \in MediaBlocks(body) : i \in DOMAIN body /\ i \in Nat
  BY DEF MediaBlocks, IsBody
<1>3. \A p \in Places(body) : body[p[1]].type = "table" => p = <<p[1], 1>>
  <2> TAKE p \in Places(body)
  <2> HAVE body[p[1]].type = "table"
  <2>1. DOMAIN body[p[1]].lines = {1}
    BY <1>1 DEF IsBody
  <2> QED
    BY <1>1, <2>1
<1>4. \A p \in Places(body) : body[p[1]].type # "image"
  <2> SUFFICES ASSUME NEW p \in Places(body), body[p[1]].type = "image" PROVE FALSE
    OBVIOUS
  <2>1. body[p[1]].lines = <<>>
    BY <1>1 DEF IsBody
  <2> QED
    BY <1>1, <2>1
<1>5. Displayed(body) \subseteq Nat \X Nat
  BY <1>1, <1>2 DEF Displayed, Filled
<1>6. Filled(body, Flatten(body)) \subseteq Displayed(body)
  <2> SUFFICES ASSUME NEW p \in Filled(body, Flatten(body)) PROVE p \in Displayed(body)
    OBVIOUS
  <2>1. p \in Places(body) /\ p \in Filled(body, Places(body))
    BY FlattenPlaces DEF Filled
  <2>2. CASE p[1] \in MediaBlocks(body)
    <3>1. p = <<p[1], 1>>
      BY <1>3, <1>4, <2>1, <2>2 DEF MediaBlocks
    <3>2. \A i \in MediaBlocks(body) : <<i, 1>> \in Displayed(body)
      BY DEF Displayed
    <3> QED
      BY <2>2, <3>1, <3>2
  <2>3. CASE p[1] \notin MediaBlocks(body)
    BY <2>1, <2>3 DEF Displayed
  <2> QED
    BY <2>2, <2>3
<1>7. Indexed(body, Displayed(body)) \subseteq Filled(body, Flatten(body))
  <2> SUFFICES ASSUME NEW p \in Indexed(body, Displayed(body))
               PROVE  p \in Indexed(body, Places(body))
    BY FlattenPlaces
  <2>1. p \in Displayed(body) /\ body[p[1]].type \in Read /\ LineAt(body, p) # Blank
    BY DEF Indexed
  <2>2. p \in Places(body)
    <3>1. CASE p \in Filled(body, Places(body))
      BY <3>1 DEF Filled
    <3>2. CASE p \notin Filled(body, Places(body))
      <4>1. PICK i \in MediaBlocks(body) : p = <<i, 1>>
        BY <2>1, <3>2 DEF Displayed
      <4>2. body[i].type \in Read /\ i \in DOMAIN body
        BY <1>2, <2>1, <4>1
      <4>3. DOMAIN body[i].lines = {1}
        BY <4>1, <4>2 DEF MediaBlocks, Read, IsBody
      <4> QED
        BY <4>1, <4>2, <4>3 DEF Places
    <3> QED
      BY <3>1, <3>2
  <2> QED
    BY <2>1, <2>2 DEF Indexed
<1>8. Filled(body, Flatten(body)) \subseteq Indexed(body, Displayed(body))
  BY <1>6, FlattenPlaces DEF Indexed
<1> QED
  BY <1>3, <1>4, <1>5, <1>6, <1>7, <1>8

(* What is displayed has reached no label below it, and where no blank     *)
(* item precedes a label, all above it.                                    *)
LEMMA ReachedAreAbove ==
    ASSUME NEW body, IsBody(body), NEW p \in Displayed(body)
    PROVE  LET reached == Reached(body, Starts(body), Indexed(body, UpTo(Displayed(body), p)))
           IN  /\ reached \subseteq UpTo(Starts(body), p)
               /\ \A s \in UpTo(Starts(body), p) :
                    (\A q \in UpTo(Flatten(body), s) : LineAt(body, q) # Blank)
                      => s \in reached
<1> DEFINE F == Filled(body, Flatten(body))
           S == Starts(body)
<1>1. /\ Flatten(body) \in SUBSET (Nat \X Nat) /\ IsFiniteSet(Flatten(body))
      /\ S \subseteq Flatten(body) /\ p \in Nat \X Nat
  BY FlattenPlaces, StartsRead, DisplayedPlaces
<1>2. F \in SUBSET (Nat \X Nat) /\ F \in SUBSET Flatten(body) /\ IsFiniteSet(F)
  <2>1. F \in SUBSET Flatten(body)
    BY DEF Filled
  <2> QED
    BY <1>1, <2>1, FS_Subset
<1>3. Indexed(body, UpTo(Displayed(body), p)) = UpTo(F, p)
  <2>1. Indexed(body, UpTo(Displayed(body), p)) = UpTo(Indexed(body, Displayed(body)), p)
    BY DEF Indexed, UpTo
  <2> QED
    BY <2>1, DisplayedPlaces
<1>4. ASSUME NEW s \in UpTo(S, p),
             \A q \in UpTo(Flatten(body), s) : LineAt(body, q) # Blank
      PROVE  Cardinality(UpTo(Flatten(body), s)) <= Cardinality(UpTo(F, p))
  <2>1. s \in Flatten(body) /\ (s = p \/ Above(s, p))
    BY <1>1 DEF UpTo
  <2>2. s \in UpTo(Flatten(body), s)
    BY <2>1 DEF UpTo
  <2>3. s \in F /\ UpTo(Flatten(body), s) = UpTo(F, s)
    BY <1>4, <2>2 DEF UpTo, Filled
  <2> HIDE DEF F
  <2> QED
    BY <1>1, <1>2, <2>1, <2>3, IndexesCount
<1>5. ASSUME NEW s \in S, Cardinality(UpTo(Flatten(body), s)) <= Cardinality(UpTo(F, p))
      PROVE  s = p \/ Above(s, p)
  <2>1. UpTo(F, p) \in SUBSET UpTo(Flatten(body), p)
    BY <1>2 DEF UpTo
  <2>2. /\ UpTo(Flatten(body), p) \in SUBSET Flatten(body)
        /\ UpTo(Flatten(body), s) \in SUBSET Flatten(body)
    BY DEF UpTo
  <2>3. /\ IsFiniteSet(UpTo(Flatten(body), p)) /\ IsFiniteSet(UpTo(Flatten(body), s))
        /\ IsFiniteSet(UpTo(F, p))
        /\ Cardinality(UpTo(F, p)) <= Cardinality(UpTo(Flatten(body), p))
    BY <1>1, <2>1, <2>2, FS_Subset
  <2>4. /\ Cardinality(UpTo(Flatten(body), p)) \in Nat
        /\ Cardinality(UpTo(Flatten(body), s)) \in Nat
        /\ Cardinality(UpTo(F, p)) \in Nat
    BY <2>3, FS_CardinalityType
  <2>5. Cardinality(UpTo(Flatten(body), s)) <= Cardinality(UpTo(Flatten(body), p))
    BY <1>5, <2>3, <2>4
  <2> QED
    BY <1>1, <1>5, <2>5, IndexesCount
<1> HIDE DEF F, S
<1>6. Reached(body, S, UpTo(F, p)) =
        {s \in S : Cardinality(UpTo(Flatten(body), s)) <= Cardinality(UpTo(F, p))}
  BY DEF Reached
<1>7. UpTo(S, p) = {s \in S : s = p \/ Above(s, p)}
  BY DEF UpTo
<1> QED
  BY <1>3, <1>4, <1>5, <1>6, <1>7 DEF S

(* What is displayed comes late, if it does not stand with its part.       *)
LEMMA SegmentsLag ==
    ASSUME NEW body, IsBody(body), NEW n, NEW p \in LogicalSegment(body, n)
    PROVE  /\ p \in Displayed(body)
           /\ n \in 0..Cardinality(UpTo(Starts(body), p))
<1> DEFINE reached == Reached(body, Starts(body), Indexed(body, UpTo(Displayed(body), p)))
<1>1. p \in Displayed(body) /\ n = Cardinality(reached)
  BY DEF LogicalSegment
<1>2. reached \in SUBSET UpTo(Starts(body), p)
  BY <1>1, ReachedAreAbove
<1>3. IsFiniteSet(UpTo(Starts(body), p))
  <2>1. UpTo(Starts(body), p) \in SUBSET Starts(body)
    BY DEF UpTo
  <2> QED
    BY <2>1, StartsRead, FS_Subset
<1> HIDE DEF reached
<1> QED
  BY <1>1, <1>2, <1>3, FS_Subset, FS_CardinalityType

(* As far as no blank item precedes a label, the segments are the parts:   *)
(* the first label that a line below it has not reached would be one more  *)
(* than those it has.                                                      *)
LEMMA SegmentsAreParts ==
    ASSUME NEW body, IsBody(body), NEW n \in Nat, Aligned(body, n + 1)
    PROVE  LogicalSegment(body, n) =
             {p \in Displayed(body) : Cardinality(UpTo(Starts(body), p)) = n}
<1> SUFFICES ASSUME NEW p \in Displayed(body)
             PROVE  Cardinality(Reached(body, Starts(body),
                                        Indexed(body, UpTo(Displayed(body), p)))) = n
                      <=> Cardinality(UpTo(Starts(body), p)) = n
  BY DEF LogicalSegment
<1> DEFINE S == Starts(body)
           above == UpTo(S, p)
           reached == Reached(body, S, Indexed(body, UpTo(Displayed(body), p)))
           missed == above \ reached
<1>1. S \in SUBSET (Nat \X Nat) /\ IsFiniteSet(S) /\ p \in Nat \X Nat
  BY StartsRead, FlattenPlaces, DisplayedPlaces
<1>2. reached \subseteq above
  BY ReachedAreAbove
<1>3. ASSUME NEW s \in above, Cardinality(UpTo(S, s)) <= n + 1
      PROVE  s \in reached
  <2>1. \A q \in UpTo(Flatten(body), s) : LineAt(body, q) # Blank
    BY <1>3 DEF Aligned, UpTo
  <2> QED
    BY <2>1, ReachedAreAbove
<1> HIDE DEF reached, S
<1>4. /\ above \in SUBSET S /\ IsFiniteSet(above)
      /\ reached \in SUBSET S /\ IsFiniteSet(reached)
      /\ missed \in SUBSET (Nat \X Nat) /\ IsFiniteSet(missed)
  <2>1. above \in SUBSET S /\ missed \in SUBSET S /\ reached \in SUBSET S
    BY <1>2 DEF UpTo
  <2> QED
    BY <1>1, <2>1, FS_Subset
<1>5. ASSUME missed # {}, Cardinality(above) = n \/ Cardinality(reached) = n
      PROVE  FALSE
  <2>1. PICK s \in missed : \A d \in missed \ {s} : Above(s, d)
    <3> HIDE DEF missed
    <3> QED
      BY <1>4, <1>5, FirstAndLastPlace
  <2>2. s \in S /\ s \in Nat \X Nat /\ (s = p \/ Above(s, p))
    BY <1>4, <2>1 DEF UpTo
  <2>3. UpTo(S, s) \in SUBSET above
    <3>1. ASSUME NEW d \in S, d = s \/ Above(d, s) PROVE d = p \/ Above(d, p)
      BY <1>1, <2>2, <3>1, AboveTotal
    <3> QED
      BY <3>1 DEF UpTo
  <2>4. UpTo(S, s) \in SUBSET (reached \cup {s})
    <3>1. ASSUME NEW d \in UpTo(S, s), d # s PROVE d \notin missed
      <4>1. Above(d, s) /\ d \in Nat \X Nat
        BY <1>1, <3>1 DEF UpTo
      <4>2. ~Above(s, d)
        BY <2>2, <4>1, AboveTotal
      <4> QED
        BY <2>1, <3>1, <4>2
    <3> QED
      BY <2>3, <3>1
  <2>5. Cardinality(UpTo(S, s)) <= n + 1
    <3>1. CASE Cardinality(above) = n
      <4>1. IsFiniteSet(UpTo(S, s)) /\ Cardinality(UpTo(S, s)) <= n
        BY <1>4, <2>3, <3>1, FS_Subset
      <4> QED
        BY <4>1, FS_CardinalityType
    <3>2. CASE Cardinality(reached) = n
      <4>1. /\ IsFiniteSet(reached \cup {s})
            /\ Cardinality(reached \cup {s}) <= n + 1
        <5>1. /\ IsFiniteSet(reached \cup {s})
              /\ Cardinality(reached \cup {s}) =
                   IF s \in reached THEN Cardinality(reached) ELSE Cardinality(reached) + 1
          BY <1>4, FS_AddElement
        <5> QED
          BY <3>2, <5>1
      <4>2. /\ IsFiniteSet(UpTo(S, s))
            /\ Cardinality(UpTo(S, s)) <= Cardinality(reached \cup {s})
        BY <2>4, <4>1, FS_Subset
      <4> QED
        BY <4>1, <4>2, FS_CardinalityType
    <3> QED
      BY <1>5, <3>1, <3>2
  <2> QED
    BY <1>3, <2>1, <2>5
<1>6. missed = {} => reached = above
  BY <1>2
<1> QED
  BY <1>5, <1>6 DEF reached, S

-----------------------------------------------------------------------------
(* The chunks of one question.                                             *)

LEMMA PartsCounted ==
    ASSUME NEW body, IsBody(body)
    PROVE  /\ Cardinality(Starts(body)) \in Nat
           /\ {NoLabel} \cup Parts(body) = 0..Cardinality(Starts(body))
           /\ NoLabel \notin Parts(body)
           /\ \A q : Cardinality(UpTo(Starts(body), q)) \in {NoLabel} \cup Parts(body)
           /\ \A i : OwnerHint(body, i) \in {NoLabel} \cup Parts(body)
<1>1. IsFiniteSet(Starts(body)) /\ Cardinality(Starts(body)) \in Nat
  BY StartsRead, FS_CardinalityType
<1>2. {NoLabel} \cup Parts(body) = 0..Cardinality(Starts(body)) /\ NoLabel \notin Parts(body)
  BY <1>1 DEF Parts, NoLabel
<1>3. \A q : Cardinality(UpTo(Starts(body), q)) \in 0..Cardinality(Starts(body))
  BY <1>1, Counted
<1>4. ASSUME NEW i PROVE OwnerHint(body, i) \in 0..Cardinality(Starts(body))
  <2>1. {s \in Starts(body) : s[1] <= i} \in SUBSET Starts(body)
    OBVIOUS
  <2> QED
    BY <1>1, <2>1, FS_Subset, FS_CardinalityType DEF OwnerHint
<1> QED
  BY <1>1, <1>2, <1>3, <1>4

(* A figure is owned by the part it stands in.                             *)
LEMMA OwnersDisplay ==
    ASSUME NEW body, IsBody(body), NEW i \in MediaBlocks(body)
    PROVE  /\ <<i, 1>> \in Displayed(body)
           /\ Cardinality(UpTo(Starts(body), <<i, 1>>)) = OwnerHint(body, i)
<1> DEFINE p == <<i, 1>>
<1>1. p \in Displayed(body)
  BY DEF Displayed
<1>2. ASSUME NEW s \in Starts(body) PROVE s = p \/ Above(s, p) <=> s[1] <= i
  <2>1. /\ s \in Places(body) /\ s[1] \in Nat /\ s[2] \in Nat /\ s = <<s[1], s[2]>>
        /\ i \in Nat
    BY StartsRead, FlattenPlaces DEF MediaBlocks, IsBody
  <2>2. CASE s[1] = i
    <3>1. s = p
      BY <2>1, <2>2, DisplayedPlaces DEF MediaBlocks
    <3> QED
      BY <2>1, <2>2, <3>1
  <2>3. CASE s[1] # i
    BY <2>1, <2>3 DEF Above
  <2> QED
    BY <2>2, <2>3
<1>3. UpTo(Starts(body), p) = {s \in Starts(body) : s[1] <= i}
  BY <1>2 DEF UpTo
<1> QED
  BY <1>1, <1>3 DEF OwnerHint

(* The text and the display of a part.                                     *)
LEMMA PartAgrees ==
    ASSUME NEW body, IsBody(body), NEW n \in Nat, Aligned(body, n + 1)
    PROVE  Indexed(body, LogicalSegment(body, n)) = Filled(body, SubQuestion(body, n))
<1>1. Indexed(body, LogicalSegment(body, n)) =
        {p \in Indexed(body, Displayed(body)) : Cardinality(UpTo(Starts(body), p)) = n}
  BY SegmentsAreParts DEF Indexed
<1>2. Filled(body, SubQuestion(body, n)) =
        {p \in Filled(body, Flatten(body)) : Cardinality(UpTo(Starts(body), p)) = n}
  BY DEF Filled, SubQuestion
<1> QED
  BY <1>1, <1>2, DisplayedPlaces

LEMMA ReadIsFilled ==
    ASSUME NEW body, IsBody(body), NEW ps \in SUBSET Flatten(body)
    PROVE  Indexed(body, ps) = Filled(body, ps)
  BY FlattenPlaces DEF Indexed, Filled

(* All segments together, and all parts together.                          *)
LEMMA Together ==
    ASSUME NEW body, IsBody(body)
    PROVE  /\ UNION {LogicalSegment(body, n) : n \in {NoLabel} \cup Parts(body)}
                = Displayed(body)
           /\ UNION {SubQuestion(body, n) : n \in {NoLabel} \cup Parts(body)}
                = Flatten(body)
<1> DEFINE N == {NoLabel} \cup Parts(body)
           count(p) == Cardinality(Reached(body, Starts(body),
                                           Indexed(body, UpTo(Displayed(body), p))))
<1>1. \A q : Cardinality(UpTo(Starts(body), q)) \in N
  BY PartsCounted
<1>2. ASSUME NEW p PROVE count(p) \in N
  <2>1. Reached(body, Starts(body), Indexed(body, UpTo(Displayed(body), p)))
          \in SUBSET Starts(body)
    BY DEF Reached
  <2>2. count(p) \in 0..Cardinality(Starts(body))
    BY <2>1, StartsRead, FS_Subset, FS_CardinalityType
  <2> QED
    BY <2>2, PartsCounted
<1>3. \A n : LogicalSegment(body, n) = {p \in Displayed(body) : count(p) = n}
  BY DEF LogicalSegment
<1> HIDE DEF N, count
<1>4. UNION {SubQuestion(body, n) : n \in N} = Flatten(body)
  BY <1>1 DEF SubQuestion
<1>5. UNION {LogicalSegment(body, n) : n \in N} = Displayed(body)
  BY <1>2, <1>3
<1> QED
  BY <1>4, <1>5 DEF N

LEMMA QuestionTextAgrees ==
    ASSUME NEW q, IsBody(q.body)
    PROVE  /\ Indexed(q.body, QuestionText(q)) = Filled(q.body, Flatten(q.body))
           /\ Displayed(q.body) \subseteq QuestionText(q)
<1>1. QuestionText(q) = IF Displayed(q.body) # {} THEN Displayed(q.body)
                        ELSE Flatten(q.body)
  BY Together DEF QuestionText
<1> QED
  BY <1>1, DisplayedPlaces, ReadIsFilled

LEMMA PartLinesAgree ==
    ASSUME NEW q, IsBody(q.body), NEW n \in Nat, Aligned(q.body, n + 1)
    PROVE  /\ Indexed(q.body, PartLines(q, n)) = Filled(q.body, SubQuestion(q.body, n))
           /\ \A p \in Displayed(q.body) :
                Cardinality(UpTo(Starts(q.body), p)) = n => p \in PartLines(q, n)
<1>1. SubQuestion(q.body, n) \in SUBSET Flatten(q.body)
  BY DEF SubQuestion
<1>2. Indexed(q.body, SubQuestion(q.body, n)) = Filled(q.body, SubQuestion(q.body, n))
  BY <1>1, ReadIsFilled
<1>3. \A p \in Displayed(q.body) :
        Cardinality(UpTo(Starts(q.body), p)) = n => p \in LogicalSegment(q.body, n)
  BY SegmentsAreParts
<1> QED
  BY <1>2, <1>3, PartAgrees DEF PartLines

(* No part displays a line of an earlier one, or of the preamble.          *)
LEMMA PartLinesLag ==
    ASSUME NEW q, IsBody(q.body), NEW n \in Nat, NEW p \in PartLines(q, n)
    PROVE  n <= Cardinality(UpTo(Starts(q.body), p))
<1>1. CASE p \in LogicalSegment(q.body, n)
  <2>1. IsFiniteSet(UpTo(Starts(q.body), p))
    <3>1. UpTo(Starts(q.body), p) \in SUBSET Starts(q.body)
      BY DEF UpTo
    <3> QED
      BY <3>1, StartsRead, FS_Subset
  <2>2. Cardinality(UpTo(Starts(q.body), p)) \in Nat
    BY <2>1, FS_CardinalityType
  <2> QED
    BY <1>1, <2>2, SegmentsLag
<1>2. CASE p \in SubQuestion(q.body, n)
  BY <1>2 DEF SubQuestion
<1> QED
  BY <1>1, <1>2 DEF PartLines

LEMMA MarksOfRead ==
    ASSUME NEW body, NEW ps
    PROVE  Marks(body, Filled(body, ps)) = Marks(body, ps)
<1>1. Marked # Blank
  BY DEF Marked, Blank
<1>2. {p \in Filled(body, ps) : LineAt(body, p) = Marked}
        = {p \in ps : LineAt(body, p) = Marked}
  BY <1>1 DEF Filled
<1> QED
  BY <1>2 DEF Marks, CambridgeMarks, UOEMarks, MarkedLines

-----------------------------------------------------------------------------
(* The questions of a paper.                                               *)

FoundBlocks ==
    {[type |-> b.type, lines |-> b.lines, page |-> page] :
        b \in Blocks, page \in 1..MaxPages}

(* What the pipeline knows of a paper: nothing is made of a content list   *)
(* that is not complete, and all chunks are made of the one that is.       *)
ParseInv ==
    /\ blocks \in Seq(FoundBlocks)
    /\ stage # "parsed" => chunks = {}
    /\ stage = "parsed" => chunks = UNION {BuildChunks(n) : n \in DOMAIN Questions}

LEMMA BlocksAreBody ==
    ASSUME blocks \in Seq(FoundBlocks)
    PROVE  IsBody(blocks)
<1>1. Len(blocks) \in Nat /\ DOMAIN blocks = 1..Len(blocks)
  OBVIOUS
<1>2. IsFiniteSet(DOMAIN blocks) /\ DOMAIN blocks \subseteq Nat
  BY <1>1, FS_Interval
<1>3. \A i \in DOMAIN blocks : blocks[i] \in FoundBlocks
  OBVIOUS
<1>4. ASSUME NEW i \in DOMAIN blocks
      PROVE  \E b \in Blocks : blocks[i].type = b.type /\ blocks[i].lines = b.lines
  BY <1>3 DEF FoundBlocks
<1> QED
  BY <1>2, <1>4, BlocksAssumption DEF IsBody

LEMMA RestrictedBody ==
    ASSUME NEW body, IsBody(body), NEW S \in SUBSET (DOMAIN body)
    PROVE  IsBody(Restrict(body, S)) /\ DOMAIN Restrict(body, S) = S
<1>1. DOMAIN Restrict(body, S) = S /\ \A i \in S : Restrict(body, S)[i] = body[i]
  BY DEF Restrict
<1>2. IsFiniteSet(S)
  BY FS_Subset DEF IsBody
<1> QED
  BY <1>1, <1>2 DEF IsBody

LEMMA BodiesFound ==
    ASSUME blocks \in Seq(FoundBlocks), NEW n \in DOMAIN Questions
    PROVE  IsBody(Questions[n].body)
<1>1. IsBody(blocks)
  BY BlocksAreBody
<1>2. CASE source.parser = "cambridge"
  <2>1. n = WholePaper /\ Questions[n].body = CambridgeBody(blocks)
    BY <1>2 DEF Questions, CambridgeQuestions
  <2>2. IsBody(CambridgeBody(blocks))
    BY <1>1, RestrictedBody DEF CambridgeBody
  <2> QED
    BY <2>1, <2>2
<1>3. CASE source.parser # "cambridge"
  <2> DEFINE kept == Content(blocks)
  <2>1. IsBody(kept)
    BY <1>1, RestrictedBody DEF Content
  <2>2. n \in Markers(kept) /\ Questions[n].body = SplitQuestions(kept)[n]
    BY <1>3 DEF Questions, UOEQuestions
  <2> HIDE DEF kept
  <2>3. SplitQuestions(kept)[n] =
          Restrict(kept, {i \in DOMAIN kept :
                            i > n /\ \A m \in Markers(kept) : m > n => i < m})
    BY <2>2 DEF SplitQuestions
  <2> QED
    BY <2>1, <2>2, <2>3, RestrictedBody
<1> QED
  BY <1>2, <1>3

LEMMA QuestionsFinite ==
    ASSUME blocks \in Seq(FoundBlocks)
    PROVE  IsFiniteSet(DOMAIN Questions)
<1>1. CASE source.parser = "cambridge"
  <2>1. DOMAIN Questions = {WholePaper}
    BY <1>1 DEF Questions, CambridgeQuestions
  <2> QED
    BY <2>1, FS_Singleton
<1>2. CASE source.parser # "cambridge"
  <2>1. DOMAIN Questions = Markers(Content(blocks))
    BY <1>2 DEF Questions, UOEQuestions
  <2>2. DOMAIN Content(blocks) \in SUBSET (DOMAIN blocks)
    BY DEF Content, Restrict
  <2>3. Markers(Content(blocks)) \in SUBSET (DOMAIN blocks)
    BY <2>2 DEF Markers
  <2>4. IsFiniteSet(DOMAIN blocks)
    BY BlocksAreBody DEF IsBody
  <2> QED
    BY <2>1, <2>3, <2>4, FS_Subset
<1> QED
  BY <1>1, <1>2

(* The chunk of a question, or of one of its parts.                        *)
ChunkOf(n, k) ==
    [of |-> n, part |-> k, id |-> ChunkId(Questions[n], k),
     parent |-> IF k = NoLabel THEN {} ELSE {ChunkId(Questions[n], NoLabel)},
     lines |-> IF k = NoLabel THEN QuestionText(Questions[n])
               ELSE PartLines(Questions[n], k),
     media |-> MediaRefs(Questions[n], k),
     marks |-> IF k = NoLabel THEN NoMarks
               ELSE Marks(Questions[n].body, SubQuestion(Questions[n].body, k))]

LEMMA FamilyOf ==
    ASSUME ParseInv, stage = "parsed", NEW n \in DOMAIN Questions
    PROVE  {c \in chunks : c.of = n} =
             {ChunkOf(n, k) : k \in {NoLabel} \cup Parts(Questions[n].body)}
<1>1. \A m \in DOMAIN Questions :
        BuildChunks(m) = {ChunkOf(m, k) : k \in {NoLabel} \cup Parts(Questions[m].body)}
  <2> TAKE m \in DOMAIN Questions
  <2> DEFINE body == Questions[m].body
  <2>1. NoLabel \notin Parts(body)
    BY BodiesFound, PartsCounted DEF ParseInv
  <2> HIDE DEF body
  <2>2. BuildChunks(m) =
          {ChunkOf(m, NoLabel)} \cup {ChunkOf(m, k) : k \in Parts(body)}
    BY <2>1 DEF BuildChunks, ChunkOf, body
  <2> QED
    BY <2>2 DEF body
<1>2. \A m, k : ChunkOf(m, k).of = m
  BY DEF ChunkOf
<1>3. chunks = UNION {BuildChunks(m) : m \in DOMAIN Questions}
  BY DEF ParseInv
<1>4. \A m \in DOMAIN Questions : \A c \in BuildChunks(m) : c.of = m
  BY <1>1, <1>2
<1>5. {c \in chunks : c.of = n} = BuildChunks(n)
  BY <1>3, <1>4
<1> QED
  BY <1>1, <1>5

LEMMA EveryChunk ==
    ASSUME ParseInv, NEW c \in chunks
    PROVE  /\ stage = "parsed" /\ c.of \in DOMAIN Questions
           /\ IsBody(Questions[c.of].body)
           /\ c.part \in {NoLabel} \cup Parts(Questions[c.of].body)
           /\ c = ChunkOf(c.of, c.part)
<1>1. stage = "parsed" /\ chunks = UNION {BuildChunks(m) : m \in DOMAIN Questions}
  BY DEF ParseInv
<1>2. PICK m \in DOMAIN Questions : c \in BuildChunks(m)
  BY <1>1
<1>3. c.of = m
  BY <1>2 DEF BuildChunks
<1>4. PICK k \in {NoLabel} \cup Parts(Questions[m].body) : c = ChunkOf(m, k)
  BY <1>1, <1>3, FamilyOf
<1>5. c.part = k
  BY <1>4 DEF ChunkOf
<1> QED
  BY <1>1, <1>3, <1>4, <1>5, BodiesFound DEF ParseInv

-----------------------------------------------------------------------------
(* The invariants.                                                         *)

LEMMA ParseInvHolds == ParseSpec => []ParseInv
<1>1. ParseInit => ParseInv
  BY DEF ParseInit, ParseInv
<1>2. ParseInv /\ [ParseNext]_parseVars => ParseInv'
  <2> SUFFICES ASSUME ParseInv, [ParseNext]_parseVars PROVE ParseInv'
    OBVIOUS
  <2>1. UNCHANGED <<source, blocks>> =>
          /\ Questions' = Questions
          /\ (UNION {BuildChunks(n) : n \in DOMAIN Questions})'
               = UNION {BuildChunks(n) : n \in DOMAIN Questions}
    BY DEF Questions, UOEQuestions, BuildChunks, Marks
  <2>2. CASE Find
    <3>1. LastPage \in Nat \ {0}
      BY DEF ParseInv, FoundBlocks, LastPage
    <3>2. PICK b \in Blocks, page \in LastPage..MaxPages :
            blocks' = Append(blocks, [type |-> b.type, lines |-> b.lines, page |-> page])
      BY <2>2 DEF Find
    <3>3. page \in 1..MaxPages
      BY <3>1, PaperAssumption
    <3>4. [type |-> b.type, lines |-> b.lines, page |-> page] \in FoundBlocks
      BY <3>3 DEF FoundBlocks
    <3>5. blocks' \in Seq(FoundBlocks)
      BY <3>2, <3>4 DEF ParseInv
    <3>6. FoundBlocks' = FoundBlocks
      BY DEF FoundBlocks
    <3>7. stage' # "parsed" /\ chunks' = {}
      BY <2>2 DEF Find, ParseInv
    <3> QED
      BY <3>5, <3>6, <3>7 DEF ParseInv
  <2>3. CASE RunPipeline
    BY <2>1, <2>3 DEF RunPipeline, ParseInv, FoundBlocks
  <2>4. CASE Skip
    BY <2>4 DEF Skip, ParseInv, FoundBlocks
  <2>5. CASE UNCHANGED parseVars
    BY <2>1, <2>5 DEF parseVars, ParseInv, FoundBlocks
  <2> QED
    BY <2>2, <2>3, <2>4, <2>5 DEF ParseNext
<1> QED
  BY <1>1, <1>2, PTL DEF ParseSpec

LEMMA AgreesInv ==
    ASSUME ParseInv
    PROVE  PartsAgree
<1> SUFFICES ASSUME NEW c \in chunks, InStep(c) PROVE Agree(c)
  BY DEF PartsAgree
<1> DEFINE q == Questions[c.of]
<1>1. IsBody(q.body) /\ c = ChunkOf(c.of, c.part)
      /\ c.part \in {NoLabel} \cup Parts(q.body)
  BY EveryChunk
<1>2. CASE c.part = NoLabel
  <2>1. c.lines = QuestionText(q)
    BY <1>1, <1>2 DEF ChunkOf
  <2> QED
    BY <1>1, <1>2, <2>1, QuestionTextAgrees DEF Agree
<1>3. CASE c.part # NoLabel
  <2>1. /\ c.lines = PartLines(q, c.part)
        /\ c.marks = Marks(q.body, SubQuestion(q.body, c.part))
    BY <1>1, <1>3 DEF ChunkOf
  <2>2. c.part \in Nat /\ Aligned(q.body, c.part + 1)
    BY <1>1, <1>3, PartsCounted DEF InStep, Parts
  <2>3. Indexed(q.body, c.lines) = Filled(q.body, SubQuestion(q.body, c.part))
    BY <1>1, <2>1, <2>2, PartLinesAgree
  <2> HIDE DEF q
  <2>4. c.marks = Marks(q.body, Indexed(q.body, c.lines))
    BY <2>1, <2>3, MarksOfRead
  <2> QED
    BY <1>3, <2>3, <2>4 DEF Agree, q
<1> QED
  BY <1>2, <1>3

LEMMA MediaInv ==
    ASSUME ParseInv
    PROVE  MediaFollowsItsPart
<1> SUFFICES ASSUME NEW n \in {c.of : c \in chunks},
                    NEW i \in MediaBlocks(Questions[n].body)
             PROVE
      LET body == Questions[n].body
          family == {c \in chunks : c.of = n}
          owners(j) == {c \in family : <<j, "direct">> \in c.media}
          refers(c, j) == \E r \in c.media : r[1] = j
      IN  /\ Cardinality(owners(i)) = 1
          /\ \A c \in owners(i) :
               /\ InStep(c) => <<i, 1>> \in c.lines
               /\ c.part = NoLabel =>
                    \A d \in family \ {c} : <<i, 1>> \notin d.lines
          /\ \A c \in family :
               IF c.part = NoLabel THEN refers(c, i)
               ELSE refers(c, i) => \A d \in owners(i) : d.part \in {c.part, NoLabel}
  BY DEF MediaFollowsItsPart
<1> DEFINE q == Questions[n]
           body == q.body
           family == {c \in chunks : c.of = n}
           parts == {NoLabel} \cup Parts(body)
           owner == OwnerHint(body, i)
           owners(j) == {c \in family : <<j, "direct">> \in c.media}
           refers(c, j) == \E r \in c.media : r[1] = j
<1>1. stage = "parsed" /\ n \in DOMAIN Questions /\ IsBody(body)
  BY EveryChunk
<1>2. family = {ChunkOf(n, k) : k \in parts}
  BY <1>1, FamilyOf
<1>3. owner \in parts /\ NoLabel \notin Parts(body)
  BY <1>1, PartsCounted
<1>4. ASSUME NEW k \in parts
      PROVE  /\ ChunkOf(n, k).part = k
             /\ ChunkOf(n, k).media = MediaRefs(q, k)
             /\ ChunkOf(n, k).lines = IF k = NoLabel THEN QuestionText(q) ELSE PartLines(q, k)
  BY DEF ChunkOf
<1>5. ASSUME NEW k \in parts PROVE <<i, "direct">> \in MediaRefs(q, k) <=> k = owner
  BY DEF MediaRefs
<1>6. ASSUME NEW k \in parts
      PROVE  (\E r \in MediaRefs(q, k) : r[1] = i) <=> k \in {NoLabel, owner} \/ owner = NoLabel
  <2>1. \A rel : <<i, rel>>[1] = i
    OBVIOUS
  <2>2. CASE k = NoLabel
    <3>1. <<i, "direct">> \in MediaRefs(q, k) \/ <<i, "visible_from_child">> \in MediaRefs(q, k)
      BY <2>2 DEF MediaRefs
    <3> QED
      BY <2>1, <2>2, <3>1
  <2>3. CASE k # NoLabel
    <3> DEFINE owned == {j \in MediaBlocks(body) : OwnerHint(body, j) = k}
               shared == {j \in MediaBlocks(body) : OwnerHint(body, j) = NoLabel}
    <3>1. MediaRefs(q, k) = (owned \X {"direct"}) \cup (shared \X {"inherited_shared"})
      BY <2>3 DEF MediaRefs
    <3>2. i \in owned <=> k = owner
      OBVIOUS
    <3>3. i \in shared <=> owner = NoLabel
      OBVIOUS
    <3> HIDE DEF owned, shared, owner, q, body
    <3>4. (\E r \in MediaRefs(q, k) : r[1] = i) <=> i \in owned \cup shared
      <4>1. ASSUME i \in owned PROVE <<i, "direct">> \in MediaRefs(q, k)
        BY <3>1, <4>1
      <4>2. ASSUME i \in shared PROVE <<i, "inherited_shared">> \in MediaRefs(q, k)
        BY <3>1, <4>2
      <4>3. ASSUME NEW r \in MediaRefs(q, k) PROVE r[1] \in owned \cup shared
        BY <3>1, <4>3
      <4> QED
        BY <2>1, <4>1, <4>2, <4>3
    <3> QED
      BY <2>3, <3>2, <3>3, <3>4
  <2> QED
    BY <2>2, <2>3
<1> DEFINE only == ChunkOf(n, owner)
<1>7. owners(i) = {only} /\ only.part = owner
  BY <1>2, <1>3, <1>4, <1>5
<1>8. Cardinality(owners(i)) = 1
  BY <1>7, FS_Singleton
<1>9. /\ InStep(only) => <<i, 1>> \in only.lines
      /\ owner = NoLabel =>
           \A d \in family \ {only} : <<i, 1>> \notin d.lines
  <2>1. <<i, 1>> \in Displayed(body) /\ Cardinality(UpTo(Starts(body), <<i, 1>>)) = owner
    BY <1>1, OwnersDisplay
  <2>2. \A k \in parts : k \in Nat /\ (k # NoLabel => k > 0)
    BY <1>1, PartsCounted DEF Parts, NoLabel
  <2>3. ASSUME InStep(only) PROVE <<i, 1>> \in only.lines
    <3>1. CASE owner = NoLabel
      BY <1>1, <1>3, <1>4, <2>1, <3>1, QuestionTextAgrees
    <3>2. CASE owner # NoLabel
      <4>1. Aligned(body, owner + 1)
        <5>1. only.of = n /\ only.part = owner
          BY DEF ChunkOf
        <5> HIDE DEF only, owner
        <5> QED
          BY <2>3, <3>2, <5>1 DEF InStep
      <4>2. owner \in Nat /\ only.lines = PartLines(q, owner)
        BY <1>3, <1>4, <2>2, <3>2
      <4> HIDE DEF only, owner, q
      <4> QED
        BY <1>1, <2>1, <4>1, <4>2, PartLinesAgree
    <3> QED
      BY <3>1, <3>2
  <2>4. ASSUME owner = NoLabel, NEW k \in parts, ChunkOf(n, k) # only
        PROVE  <<i, 1>> \notin ChunkOf(n, k).lines
    <3>1. k # NoLabel /\ ChunkOf(n, k).lines = PartLines(q, k)
      BY <1>4, <2>4
    <3>2. k \in Nat /\ k > 0
      BY <2>2, <2>4, <3>1
    <3>3. \A p \in PartLines(q, k) : k <= Cardinality(UpTo(Starts(body), p))
      BY <1>1, <3>2, PartLinesLag
    <3>4. Cardinality(UpTo(Starts(body), <<i, 1>>)) = 0
      BY <2>1, <2>4 DEF NoLabel
    <3>5. <<i, 1>> \in PartLines(q, k) => k <= 0
      BY <3>3, <3>4
    <3> QED
      BY <3>1, <3>2, <3>5
  <2>5. \A d \in family \ {only} : \E k \in parts : d = ChunkOf(n, k) /\ ChunkOf(n, k) # only
    BY <1>2
  <2> QED
    BY <2>3, <2>4, <2>5
<1>10. ASSUME NEW k \in parts
       PROVE  IF k = NoLabel THEN refers(ChunkOf(n, k), i)
              ELSE refers(ChunkOf(n, k), i) => owner \in {k, NoLabel}
  BY <1>4, <1>6
<1>11. \A c \in owners(i) :
         /\ InStep(c) => <<i, 1>> \in c.lines
         /\ c.part = NoLabel => \A d \in family \ {c} : <<i, 1>> \notin d.lines
  <2> HIDE DEF only, family, owners, owner
  <2> QED
    BY <1>7, <1>9
<1>12. \A c \in family :
         IF c.part = NoLabel THEN refers(c, i)
         ELSE refers(c, i) => \A d \in owners(i) : d.part \in {c.part, NoLabel}
  <2> SUFFICES ASSUME NEW k \in parts
               PROVE  IF k = NoLabel THEN refers(ChunkOf(n, k), i)
                      ELSE refers(ChunkOf(n, k), i) =>
                             \A d \in owners(i) : d.part \in {k, NoLabel}
    BY <1>2, <1>4
  <2> HIDE DEF only, family, owners, owner, refers
  <2> QED
    BY <1>7, <1>10
<1> QED
  BY <1>8, <1>11, <1>12

LEMMA IdsDiffer ==
    ASSUME ParseInv, Identified, NEW n \in DOMAIN Questions, NEW m \in DOMAIN Questions,
           NEW j, NEW k, ChunkId(Questions[n], j) = ChunkId(Questions[m], k)
    PROVE  n = m /\ j = k
<1>1. j = k
  <2>1. ASSUME NEW q, NEW part PROVE ChunkId(q, part).part = part
    BY DEF ChunkId
  <2>2. ChunkId(Questions[n], j).part = j
    BY <2>1
  <2>3. ChunkId(Questions[m], k).part = k
    BY <2>1
  <2> QED
    BY <2>2, <2>3
<1>2. CASE Cardinality(DOMAIN Questions) = 1
  <2>1. IsFiniteSet(DOMAIN Questions)
    BY QuestionsFinite DEF ParseInv
  <2>2. n = m
    BY <1>2, <2>1, FS_Singleton
  <2> QED
    BY <1>1, <2>2
<1>3. CASE /\ \A i \in DOMAIN Questions :
                Questions[i].year # Unknown /\ Questions[i].paper # Unknown
           /\ \A h, i \in DOMAIN Questions :
                Questions[h].number = Questions[i].number => h = i
  <2> DEFINE q == Questions[n]
             r == Questions[m]
  <2>1. /\ q.year # Unknown /\ q.paper # Unknown
        /\ r.year # Unknown /\ r.paper # Unknown
        /\ ChunkId(q, j) = ChunkId(r, k)
    BY <1>3
  <2> HIDE DEF q, r
  <2>2. /\ ChunkId(q, j).year # Unknown <=> q.number # Unknown
        /\ ChunkId(r, k).year # Unknown <=> r.number # Unknown
        /\ q.number # Unknown => ChunkId(q, j).number = q.number
        /\ r.number # Unknown => ChunkId(r, k).number = r.number
    BY <2>1 DEF ChunkId, Unknown
  <2>3. q.number = r.number
    BY <2>1, <2>2
  <2>4. n = m
    BY <1>3, <2>3 DEF q, r
  <2> QED
    BY <1>1, <2>4
<1> QED
  BY <1>2, <1>3 DEF Identified

LEMMA DistinctInv ==
    ASSUME ParseInv
    PROVE  FamiliesDistinct
<1> SUFFICES ASSUME Identified, NEW c \in chunks, NEW d \in chunks
             PROVE  /\ c.id = d.id => c = d
                    /\ d.id \in c.parent <=>
                         d.of = c.of /\ d.part = NoLabel /\ c.part # NoLabel
  BY DEF FamiliesDistinct
<1>1. /\ c.of \in DOMAIN Questions /\ c = ChunkOf(c.of, c.part)
      /\ d.of \in DOMAIN Questions /\ d = ChunkOf(d.of, d.part)
  BY EveryChunk
<1>2. /\ c.id = ChunkId(Questions[c.of], c.part)
      /\ d.id = ChunkId(Questions[d.of], d.part)
      /\ c.parent = IF c.part = NoLabel THEN {}
                    ELSE {ChunkId(Questions[c.of], NoLabel)}
  BY <1>1 DEF ChunkOf
<1>3. c.id = d.id => c.of = d.of /\ c.part = d.part
  <2>1. ChunkId(Questions[c.of], c.part) = ChunkId(Questions[d.of], d.part)
          => c.of = d.of /\ c.part = d.part
    BY <1>1, IdsDiffer
  <2> QED
    BY <1>2, <2>1
<1>4. ASSUME c.part # NoLabel
      PROVE  d.id = ChunkId(Questions[c.of], NoLabel) <=> d.of = c.of /\ d.part = NoLabel
  <2>1. ChunkId(Questions[d.of], d.part) = ChunkId(Questions[c.of], NoLabel)
          => d.of = c.of /\ d.part = NoLabel
    BY <1>1, IdsDiffer
  <2> QED
    BY <1>2, <2>1
<1>5. d.id \in c.parent <=> d.of = c.of /\ d.part = NoLabel /\ c.part # NoLabel
  BY <1>2, <1>4
<1> QED
  BY <1>1, <1>3, <1>5

(* What Retrieval assumes of the batches that are indexed: the parent of a *)
(* chunk is in the batch and has none itself.                              *)
LEMMA BatchInv ==
    ASSUME ParseInv, NEW c \in chunks, NEW p \in c.parent
    PROVE  \E d \in chunks : d.id = p /\ d.parent = {}
<1> DEFINE n == c.of
           d == ChunkOf(n, NoLabel)
<1>1. stage = "parsed" /\ n \in DOMAIN Questions /\ c = ChunkOf(n, c.part)
  BY EveryChunk
<1>2. p = ChunkId(Questions[n], NoLabel)
  BY <1>1 DEF ChunkOf
<1>3. d.id = p /\ d.parent = {}
  BY <1>2 DEF ChunkOf
<1>4. d \in chunks
  <2>1. d \in {e \in chunks : e.of = n}
    BY <1>1, FamilyOf
  <2> QED
    BY <2>1
<1> QED
  BY <1>3, <1>4

(* A chunk displays the lines that its part was found to have, and its     *)
(* marks are the marks of these lines, for any content list: the three     *)
(* loops over a body agree on every part that ends before a blank item has *)
(* stood in front of a label, and on the question as a whole.              *)
THEOREM PartsSafety == ParseSpec => []PartsAgree
  BY ParseInvHolds, AgreesInv, PTL

(* Every figure of any content list has one owner, the chunk that displays *)
(* it, and no part refers to a figure of another.                          *)
THEOREM MediaSafety == ParseSpec => []MediaFollowsItsPart
  BY ParseInvHolds, MediaInv, PTL

(* No two chunks of an identified paper have one id, and a part names its  *)
(* own question as its parent.                                             *)
THEOREM FamilySafety == ParseSpec => []FamiliesDistinct
  BY ParseInvHolds, DistinctInv, PTL

(* Every paper, identified or not, becomes a batch as Retrieval assumes    *)
(* it: a chunk's parent is in its batch, and has no parent.                *)
THEOREM BatchesAsAssumed ==
    ParseSpec => [](\A c \in chunks : \A p \in c.parent :
                        \E d \in chunks : d.id = p /\ d.parent = {})
<1>1. ParseInv => \A c \in chunks : \A p \in c.parent :
                      \E d \in chunks : d.id = p /\ d.parent = {}
  BY BatchInv
<1> QED
  BY <1>1, ParseInvHolds, PTL

-----------------------------------------------------------------------------
(* Retrieval: the inductive invariant.                                     *)

(* Rows belong to the collection there is, and no question is older than   *)
(* its sub-questions.                                                      *)
RowsInv ==
    /\ collection.id <= writes
    /\ \A c \in Chunk :
         /\ stored[c].write <= writes
         /\ stored[c].write # 0 => Exists /\ stored[c].of = collection.id
         /\ stored[c].write # 0 /\ ParentOf[c] # NoChunk =>
              stored[ParentOf[c]].write >= stored[c].write

(* Between the two statements: whatever has been written since, a question *)
(* of the collection that was read is not older than the sub-question.     *)
DetailInv ==
    /\ at \in {"chunk", "parent"} => query \in Detail
    /\ at # "idle" => shown.parent = NoRow
    /\ at = "parent" =>
         LET p == ParentOf[query.chunk] IN
         /\ p # NoChunk
         /\ shown.chunk.of = row.id
         /\ shown.chunk.write <= writes
         /\ p \in RowsOf(row.id) => stored[p].write >= shown.chunk.write

Apart == queue \cap (packed \cup omitted) = {} /\ packed \cap omitted = {}

PackInv ==
    /\ at \notin {"idle", "pack"} => Handled = {} /\ used = 0
    /\ Apart
    /\ ContextFaithful

(* What a search knows after each of its statements: the collection loaded  *)
(* declares the filter, no more is asked for than the reranker may see,     *)
(* and the candidates are the nearest matches.                              *)
RankInv ==
    /\ at \notin {"idle", "grade", "pack"} => results = {}
    /\ at \in {"schema", "load", "select", "rank", "cut"} => query \in Query \cup Detail
    /\ at \in {"load", "select", "rank", "cut"} /\ query \in Query => ~TooMany
    /\ at \in {"select", "rank", "cut"} =>
         query \in Query /\ row.id # 0 /\ Allowed(row.schema)
    /\ at \in {"rank", "cut"} =>
         matched \subseteq Chunk /\ candidates = First(Fetched, matched, Nearer)
    /\ at = "cut" =>
         \A c \in Chunk : (Reranks /\ c \in candidates) \/ scores[c] = Near[c]
    /\ ResultsHonest

IInv == TypeOK /\ RowsInv /\ DetailInv /\ ParentFits /\ RankInv /\ PackInv

-----------------------------------------------------------------------------
(* Estimates.                                                              *)

LEMMA EstimateNat ==
    ASSUME NEW n \in Nat
    PROVE  Estimate(n) \in Nat /\ Estimate(n) >= 1
  BY DEF Estimate, Larger

(* What a truncated text may take.                                         *)
LEMMA TokensBounded ==
    ASSUME NEW c \in Chunk, NEW n \in Tokens(c)
    PROVE  n \in Nat /\ n <= Larger(MaxSingle, Estimate(Marker) + 1) + 1
<1>1. Length[c] \in Nat /\ Marker \in Nat /\ MaxSingle \in Nat
  BY RetrievalAssumption
<1>2. CASE Estimate(Length[c]) <= MaxSingle
  BY <1>1, <1>2, EstimateNat DEF Tokens, Larger
<1>3. CASE ~(Estimate(Length[c]) <= MaxSingle)
  <2>1. PICK kept \in 0..(4 * Target + 3) : n = Estimate(kept + 1 + Marker)
    BY <1>3 DEF Tokens
  <2>2. Target \in Nat
    BY <1>1, EstimateNat DEF Target
  <2>3. Estimate(Marker) \in Nat /\ Marker \div 4 <= Estimate(Marker)
    BY <1>1, EstimateNat DEF Estimate, Larger
  <2>4. (kept + 1 + Marker) \div 4 <= Target + 1 + (Marker \div 4)
    BY <1>1, <2>1, <2>2
  <2>5. n <= Target + 1 + Estimate(Marker)
    BY <1>1, <2>1, <2>2, <2>3, <2>4 DEF Estimate, Larger
  <2>6. n \in Nat
    BY <1>1, <2>1, <2>2, EstimateNat
  <2> QED
    BY <1>1, <2>2, <2>3, <2>5, <2>6 DEF Target, Larger
<1> QED
  BY <1>2, <1>3

-----------------------------------------------------------------------------
(* Deduplication.                                                          *)

LEMMA NoDuplicatesLeft ==
    ASSUME NEW A \in SUBSET Chunk, scores \in [Chunk -> Score]
    PROVE  \A c \in A \ Duplicates(A) : ParentOf[c] \notin A \ Duplicates(A)
<1>1. \A c, d \in Chunk : scores[c] > scores[d] \/ scores[c] <= scores[d]
  BY RetrievalAssumption DEF Score
<1> QED
  BY <1>1, RetrievalAssumption DEF Duplicates

(* A question that goes, goes for a better sub-question, and that one      *)
(* stays; a sub-question that goes, goes for its question or for what the  *)
(* question goes for.                                                      *)
LEMMA BestStays ==
    ASSUME NEW A \in SUBSET Chunk, scores \in [Chunk -> Score], NEW c \in A
    PROVE  \E d \in (A \ Duplicates(A)) \cap Family(c) : scores[d] >= scores[c]
<1>1. \A d, e \in Chunk : scores[d] \in Nat
  BY RetrievalAssumption DEF Score
<1>2. \A p \in A, d \in A : ParentOf[d] = p /\ scores[d] > scores[p] => d \notin Duplicates(A)
  BY <1>1, RetrievalAssumption DEF Duplicates
<1>3. CASE c \notin Duplicates(A)
  BY <1>1, <1>3 DEF Family
<1>4. CASE \E d \in A : ParentOf[d] = c /\ scores[d] > scores[c]
  BY <1>1, <1>2, <1>4 DEF Family
<1>5. CASE ParentOf[c] \in A /\ scores[c] <= scores[ParentOf[c]]
  <2> DEFINE p == ParentOf[c]
  <2>1. p \in Chunk /\ p # NoChunk /\ p \in Family(c)
    BY <1>5, RetrievalAssumption DEF Family
  <2>2. CASE p \notin Duplicates(A)
    BY <1>1, <1>5, <2>1, <2>2
  <2>3. CASE p \in Duplicates(A)
    <3>1. PICK d \in A : ParentOf[d] = p /\ scores[d] > scores[p]
      BY <2>1, <2>3, RetrievalAssumption DEF Duplicates
    <3>2. d \in Family(c)
      BY <2>1, <3>1 DEF Family
    <3> QED
      BY <1>1, <1>2, <1>5, <2>1, <3>1, <3>2
  <2> QED
    BY <2>2, <2>3
<1> QED
  BY <1>3, <1>4, <1>5 DEF Duplicates

-----------------------------------------------------------------------------
(* Types.                                                                  *)

LEMMA RowTypes ==
    /\ NoRow \in ChunkRow /\ NoCollection \in Collection
    /\ NoCollection.id = 0 /\ NoRow.of = 0 /\ NoRow.write = 0
  BY RetrievalAssumption
  DEF NoRow, ChunkRow, NoCollection, Collection, Schema, Threshold, Score

LEMMA TypesInit == Init => TypeOK
<1>1. Init => query \in Query \cup Detail \cup {NoQuery} /\ at \in Place
              /\ outcome \in Outcome
  BY DEF Init, Place, Outcome
<1>2. Init => collection \in Collection /\ row \in Collection
              /\ stored \in [Chunk -> ChunkRow]
              /\ shown \in [chunk : ChunkRow, parent : ChunkRow]
  BY RowTypes DEF Init
<1> QED
  BY <1>1, <1>2, RetrievalAssumption DEF Init, TypeOK, Score

LEMMA TypesWriters ==
    ASSUME TypeOK, WriterStep
    PROVE  TypeOK'
<1> USE DEF TypeOK, Writes, requestVars, packVars, queryVars
<1>1. CASE Delete
  BY <1>1, RowTypes, RetrievalAssumption DEF Delete
<1>2. CASE Calibrate
  <2>1. PICK k \in {"vector", "rerank"}, score \in Score :
          Writes([collection EXCEPT !.min[k] = score])
    BY <1>2 DEF Calibrate
  <2>2. [collection EXCEPT !.min[k] = score] \in Collection
    BY DEF Collection, Threshold
  <2> QED
    BY <1>2, <2>1, <2>2, RetrievalAssumption DEF Calibrate
<1>3. ASSUME NEW batch \in Paper, Index(batch) PROVE TypeOK'
  <2>1. PICK schema \in IF Exists THEN {collection.schema} ELSE Schema :
          LET col == IF Exists THEN collection
                     ELSE [NoCollection EXCEPT !.id = writes + 1, !.schema = schema]
          IN /\ Writes(col)
             /\ stored' = [c \in Chunk |->
                  IF c \in batch THEN [of |-> col.id, write |-> writes + 1]
                  ELSE stored[c]]
    BY <1>3 DEF Index
  <2> DEFINE col == IF Exists THEN collection
                    ELSE [NoCollection EXCEPT !.id = writes + 1, !.schema = schema]
  <2>2. writes + 1 \in 0..MaxWrites
    BY <2>1, RetrievalAssumption
  <2>3. col \in Collection
    BY <2>1, <2>2, RowTypes DEF Collection
  <2>4. [of |-> col.id, write |-> writes + 1] \in ChunkRow
    BY <2>2, <2>3 DEF ChunkRow, Collection
  <2>5. stored' \in [Chunk -> ChunkRow]
    BY <2>1, <2>4
  <2> QED
    BY <2>1, <2>2, <2>3, <2>5
<1> QED
  BY <1>1, <1>2, <1>3 DEF WriterStep

LEMMA TypesSearch ==
    ASSUME TypeOK, SearchStep
    PROVE  TypeOK'
<1> USE DEF TypeOK, dbVars, requestVars, packVars, queryVars, Ends, Outcome
<1>1. CASE Ask
  <2>1. at' \in Place
    BY <1>1 DEF Ask, Place
  <2> QED
    BY <1>1, <2>1, RowTypes, RetrievalAssumption DEF Ask, Score
<1>2. CASE GetSchema
  <2>1. cache' \in Schema \cup {NoSchema}
    BY <1>2 DEF GetSchema, Collection
  <2>2. at' \in Place /\ outcome' \in Outcome
    BY <1>2 DEF GetSchema, Place
  <2> QED
    BY <1>2, <2>1, <2>2 DEF GetSchema
<1>3. CASE LoadCollection
  BY <1>3 DEF LoadCollection, Loads, Place
<1>4. CASE Select
  <2>1. matched' \subseteq Chunk /\ candidates' \subseteq Chunk
    BY <1>4 DEF Select, RowsOf, First
  <2> QED
    BY <1>4, <2>1 DEF Select, Place
<1>5. CASE Rank
  BY <1>5 DEF Rank, Place
<1>6. CASE Cut
  <2>1. minimum' \in Score /\ results' \subseteq Chunk
    BY <1>6 DEF Cut, First, Collection, Threshold
  <2>2. at' \in Place /\ outcome' \in Outcome
    BY <1>6 DEF Cut, Place
  <2> QED
    BY <1>6, <2>1, <2>2 DEF Cut
<1>7. CASE Fail
  BY <1>7 DEF Fail, Place
<1> QED
  BY <1>1, <1>2, <1>3, <1>4, <1>5, <1>6, <1>7 DEF SearchStep

LEMMA TypesContext ==
    ASSUME TypeOK, ContextStep
    PROVE  TypeOK'
<1> USE DEF TypeOK, dbVars, requestVars, packVars, queryVars, Ends, Outcome
<1>1. CASE Grade
  BY <1>1 DEF Grade, Place
<1>2. CASE PackEnds
  BY <1>2 DEF PackEnds, Place
<1>3. ASSUME NEW c \in Chunk, PackChunk(c) PROVE TypeOK'
  <2>1. PICK n \in Tokens(c) :
          /\ tokens' = [tokens EXCEPT ![c] = n]
          /\ IF Fits(n)
             THEN packed' = packed \cup {c} /\ used' = used + n /\ UNCHANGED omitted
             ELSE omitted' = omitted \cup {c} /\ UNCHANGED <<packed, used>>
    BY <1>3 DEF PackChunk
  <2>2. n \in Nat
    BY TokensBounded
  <2> QED
    BY <1>3, <2>1, <2>2 DEF PackChunk
<1> QED
  BY <1>1, <1>2, <1>3 DEF ContextStep

LEMMA TypesDetail ==
    ASSUME TypeOK, DetailInv, DetailStep
    PROVE  TypeOK'
<1> USE DEF TypeOK, DetailInv, dbVars, requestVars, packVars, queryVars, Ends, Outcome
<1>0. at \in {"chunk", "parent"} => query.chunk \in Chunk
  BY DEF Detail
<1>1. CASE ReadChunk
  <2>1. shown' \in [chunk : ChunkRow, parent : ChunkRow]
    BY <1>0, <1>1 DEF ReadChunk
  <2> QED
    BY <1>1, <2>1 DEF ReadChunk, Place
<1>2. CASE ReadParent
  <2>1. shown' \in [chunk : ChunkRow, parent : ChunkRow]
    BY <1>0, <1>2, RowTypes DEF ReadParent, RowsOf
  <2> QED
    BY <1>2, <2>1 DEF ReadParent, Place
<1> QED
  BY <1>1, <1>2 DEF DetailStep

LEMMA TypesNext ==
    ASSUME TypeOK, DetailInv, [Next]_vars
    PROVE  TypeOK'
<1>1. CASE UNCHANGED vars
  BY <1>1 DEF TypeOK, vars, dbVars, requestVars, packVars, queryVars
<1> QED
  BY <1>1, TypesSearch, TypesContext, TypesDetail, TypesWriters DEF Next

-----------------------------------------------------------------------------
(* Rows of the database.                                                   *)

LEMMA IndexEffect ==
    ASSUME TypeOK, NEW batch \in Paper, Index(batch)
    PROVE  /\ Writes(collection')
           /\ collection'.id = IF Exists THEN collection.id ELSE writes + 1
           /\ \A c \in Chunk :
                stored'[c] = IF c \in batch
                             THEN [of |-> collection'.id, write |-> writes + 1]
                             ELSE stored[c]
<1> DEFINE Col(schema) == IF Exists THEN collection
                          ELSE [NoCollection EXCEPT !.id = writes + 1, !.schema = schema]
<1>1. PICK schema \in IF Exists THEN {collection.schema} ELSE Schema :
        LET col == Col(schema)
        IN /\ Writes(col)
           /\ stored' = [c \in Chunk |->
                IF c \in batch THEN [of |-> col.id, write |-> writes + 1] ELSE stored[c]]
  BY DEF Index
<1>2. collection' = Col(schema)
  BY <1>1 DEF Writes
<1>3. Col(schema).id = IF Exists THEN collection.id ELSE writes + 1
  BY DEF NoCollection
<1> HIDE DEF Col
<1> QED
  BY <1>1, <1>2, <1>3

LEMMA WriterEffect ==
    ASSUME TypeOK, WriterStep
    PROVE  /\ writes \in Nat /\ writes' = writes + 1
           /\ UNCHANGED <<at, query, shown, row>>
           /\ \A c \in Chunk : \/ stored'[c] = stored[c] \/ stored'[c].write = 0
                               \/ stored'[c].write = writes + 1
<1>1. writes \in Nat
  BY RetrievalAssumption DEF TypeOK
<1> USE DEF Writes, queryVars, requestVars
<1>2. CASE Delete
  BY <1>1, <1>2, RowTypes DEF Delete
<1>3. CASE Calibrate
  BY <1>1, <1>3 DEF Calibrate
<1>4. ASSUME NEW batch \in Paper, Index(batch)
      PROVE  /\ writes' = writes + 1 /\ UNCHANGED <<at, query, shown, row>>
             /\ \A c \in Chunk : stored'[c] = stored[c] \/ stored'[c].write = writes + 1
  BY <1>4, IndexEffect
<1> QED
  BY <1>1, <1>2, <1>3, <1>4 DEF WriterStep

LEMMA RowsWriters ==
    ASSUME TypeOK, RowsInv, WriterStep
    PROVE  RowsInv'
<1>0. /\ writes \in Nat /\ collection.id \in Nat
      /\ \A c \in Chunk : stored[c].write \in Nat
  BY RetrievalAssumption DEF TypeOK, Collection, ChunkRow
<1>1. CASE Delete
  BY <1>0, <1>1, RowTypes, RetrievalAssumption DEF Delete, Writes, RowsInv
<1>2. CASE Calibrate
  <2>1. PICK k \in {"vector", "rerank"}, score \in Score :
          Writes([collection EXCEPT !.min[k] = score])
    BY <1>2 DEF Calibrate
  <2>2. collection'.id = collection.id
    BY <2>1 DEF TypeOK, Collection, Writes
  <2>3. writes' = writes + 1 /\ stored' = stored
    BY <1>2, <2>1 DEF Calibrate, Writes
  <2> QED
    BY <1>0, <2>2, <2>3 DEF RowsInv, Exists
<1>3. ASSUME NEW batch \in Paper, Index(batch) PROVE RowsInv'
  <2>1. /\ writes' = writes + 1
        /\ collection'.id = IF Exists THEN collection.id ELSE writes + 1
        /\ \A c \in Chunk :
             stored'[c] = IF c \in batch
                          THEN [of |-> collection'.id, write |-> writes + 1]
                          ELSE stored[c]
    BY <1>3, IndexEffect DEF Writes
  <2>2. \A c \in Chunk : /\ ParentOf[c] # NoChunk => ParentOf[c] \in Chunk
                         /\ ParentOf[c] # NoChunk /\ c \in batch => ParentOf[c] \in batch
    BY RetrievalAssumption
  <2>3. collection'.id <= writes' /\ Exists'
    BY <1>0, <2>1 DEF RowsInv, Exists
  <2>4. \A c \in Chunk : /\ stored'[c].write <= writes'
                         /\ stored'[c].write # 0 => stored'[c].of = collection'.id
    BY <1>0, <2>1 DEF RowsInv
  <2>5. ASSUME NEW c \in Chunk, stored'[c].write # 0, ParentOf[c] # NoChunk
        PROVE  stored'[ParentOf[c]].write >= stored'[c].write
    <3>1. ParentOf[c] \in Chunk /\ (c \in batch => ParentOf[c] \in batch)
      BY <2>2, <2>5
    <3>2. CASE ParentOf[c] \in batch
      <4>1. stored'[ParentOf[c]].write = writes + 1
        BY <2>1, <3>1, <3>2
      <4> QED
        BY <1>0, <2>1, <2>4, <4>1
    <3>3. CASE ParentOf[c] \notin batch
      <4>1. stored'[ParentOf[c]] = stored[ParentOf[c]] /\ stored'[c] = stored[c]
        BY <2>1, <3>1, <3>3
      <4> QED
        BY <2>5, <4>1 DEF RowsInv
    <3> QED
      BY <3>2, <3>3
  <2> QED
    BY <2>3, <2>4, <2>5 DEF RowsInv
<1> QED
  BY <1>1, <1>2, <1>3 DEF WriterStep

LEMMA RowsNext ==
    ASSUME TypeOK, RowsInv, [Next]_vars
    PROVE  RowsInv'
<1>1. CASE UNCHANGED dbVars
  BY <1>1 DEF RowsInv, Exists, dbVars
<1>2. SearchStep \/ ContextStep \/ DetailStep \/ UNCHANGED vars => UNCHANGED dbVars
  BY DEF SearchStep, ContextStep, DetailStep, Ask, GetSchema, LoadCollection, Select,
         Rank, Cut, Fail, Grade, PackEnds, PackChunk, ReadChunk, ReadParent, vars
<1> QED
  BY <1>1, <1>2, RowsWriters DEF Next

-----------------------------------------------------------------------------
(* A chunk's detail.                                                       *)

LEMMA DetailWriters ==
    ASSUME TypeOK, RowsInv, DetailInv, ParentFits, WriterStep
    PROVE  DetailInv' /\ ParentFits'
<1>1. UNCHANGED <<at, query, shown, row>>
  BY WriterEffect
<1>2. writes' = writes + 1 /\ writes \in Nat
  BY WriterEffect
<1>3. \A c \in Chunk : \/ stored'[c] = stored[c] \/ stored'[c].write = 0
                       \/ stored'[c].write = writes + 1
  BY WriterEffect
<1>4. shown.chunk.write \in Nat
  BY RetrievalAssumption DEF TypeOK, ChunkRow
<1>5. at = "parent" => ParentOf[query.chunk] # NoChunk /\ query.chunk \in Chunk
  BY DEF DetailInv, Detail
<1>6. at = "parent" =>
        LET p == ParentOf[query.chunk] IN
        p \in RowsOf(row.id)' => stored'[p].write >= shown.chunk.write
  <2> SUFFICES ASSUME at = "parent", NEW p \in Chunk, p = ParentOf[query.chunk],
                      stored'[p].write # 0, stored'[p].of = row.id
               PROVE  stored'[p].write >= shown.chunk.write
    BY <1>1 DEF RowsOf
  <2>1. shown.chunk.write <= writes
    BY DEF DetailInv
  <2>2. CASE stored'[p] = stored[p]
    BY <2>2 DEF DetailInv, RowsOf
  <2>3. CASE stored'[p].write = writes + 1
    BY <1>2, <1>4, <2>1, <2>3
  <2> QED
    BY <1>3, <2>2, <2>3
<1>7. ParentFits'
  BY <1>1 DEF ParentFits
<1> QED
  BY <1>1, <1>2, <1>4, <1>6, <1>7 DEF DetailInv

LEMMA DetailReads ==
    ASSUME TypeOK, RowsInv, DetailInv, ParentFits, DetailStep
    PROVE  DetailInv' /\ ParentFits'
<1>1. at \in {"chunk", "parent"} => query \in Detail /\ query.chunk \in Chunk
  BY DEF DetailInv, Detail
<1>2. shown \in [chunk : ChunkRow, parent : ChunkRow]
  BY DEF TypeOK
<1>3. CASE ReadChunk
  <2>1. at = "chunk" /\ UNCHANGED <<dbVars, query, row>> /\ shown.parent = NoRow
    BY <1>3 DEF ReadChunk, requestVars, DetailInv
  <2>2. CASE query.chunk \notin RowsOf(row.id)
    BY <1>3, <2>1, <2>2 DEF ReadChunk, Ends, DetailInv, ParentFits
  <2>3. CASE query.chunk \in RowsOf(row.id)
    <3>1. shown' = [shown EXCEPT !.chunk = stored[query.chunk]]
      BY <1>3, <2>3 DEF ReadChunk
    <3>2. shown'.parent = NoRow /\ shown'.chunk = stored[query.chunk]
      BY <1>2, <2>1, <3>1
    <3>3. at' = "idle" \/ (at' = "parent" /\ ParentOf[query.chunk] # NoChunk)
      BY <1>3, <2>3 DEF ReadChunk, Ends
    <3>4. stored[query.chunk].write # 0 /\ stored[query.chunk].of = row.id
      BY <2>3 DEF RowsOf
    <3>5. ParentOf[query.chunk] # NoChunk =>
            stored[ParentOf[query.chunk]].write >= stored[query.chunk].write
      BY <1>1, <2>1, <3>4 DEF RowsInv
    <3>6. stored[query.chunk].write <= writes
      BY <1>1, <2>1 DEF RowsInv
    <3> QED
      BY <1>1, <2>1, <3>2, <3>3, <3>4, <3>5, <3>6
      DEF DetailInv, ParentFits, dbVars, RowsOf
  <2> QED
    BY <2>2, <2>3
<1>4. CASE ReadParent
  <2> DEFINE p == ParentOf[query.chunk]
  <2>1. at = "parent" /\ at' = "idle"
    BY <1>4 DEF ReadParent, Ends
  <2>2. shown'.chunk = shown.chunk
        /\ shown'.parent = IF p \in RowsOf(row.id) THEN stored[p] ELSE NoRow
    BY <1>2, <1>4 DEF ReadParent
  <2>3. p \in RowsOf(row.id) =>
          stored[p].of = row.id /\ stored[p].write >= shown.chunk.write
    BY <2>1 DEF DetailInv, RowsOf
  <2>4. ParentFits'
    BY <2>1, <2>2, <2>3 DEF ParentFits, DetailInv
  <2> QED
    BY <2>1, <2>4 DEF DetailInv
<1> QED
  BY <1>3, <1>4 DEF DetailStep

LEMMA DetailOthers ==
    ASSUME TypeOK, DetailInv, ParentFits, SearchStep \/ ContextStep \/ UNCHANGED vars
    PROVE  DetailInv' /\ ParentFits'
<1>1. CASE Ask
  <2>1. at' \in {"load", "schema"} /\ shown'.parent = NoRow
    BY <1>1 DEF Ask
  <2> QED
    BY <2>1 DEF DetailInv, ParentFits
<1>2. CASE LoadCollection
  <2>1. at' \in {"idle", "select", "chunk"} /\ UNCHANGED <<query, shown>> /\ at # "idle"
    BY <1>2 DEF LoadCollection, Loads, Ends
  <2>2. at' = "chunk" => query.kind = "detail"
    BY <1>2 DEF LoadCollection, Loads, Ends
  <2>3. query \in Query => query.kind # "detail"
    BY DEF Query
  <2>4. at' = "chunk" => query \in Detail
    BY <2>2, <2>3 DEF TypeOK, NoQuery
  <2> QED
    BY <2>1, <2>4 DEF DetailInv, ParentFits
<1>3. CASE GetSchema \/ Select \/ Rank \/ Cut \/ Fail \/ ContextStep
  <2>1. at # "idle" /\ UNCHANGED shown
    BY <1>3 DEF GetSchema, Select, Rank, Cut, Fail, ContextStep, Grade, PackEnds,
                PackChunk, queryVars
  <2>2. at' \notin {"chunk", "parent"}
    BY <1>3 DEF GetSchema, Select, Rank, Cut, Fail, ContextStep, Grade, PackEnds,
                PackChunk, Ends
  <2> QED
    BY <2>1, <2>2 DEF DetailInv, ParentFits
<1>4. CASE UNCHANGED vars
  BY <1>4 DEF DetailInv, ParentFits, vars, dbVars, queryVars, requestVars, RowsOf
<1> QED
  BY <1>1, <1>2, <1>3, <1>4 DEF SearchStep

-----------------------------------------------------------------------------
(* Ranking.                                                                *)

(* What a page is: the best of a set by some order, as many as fit.        *)
Page(taken, n, S) ==
    /\ taken \subseteq S /\ Cardinality(taken) <= n
    /\ Cardinality(taken) < n => taken = S

LEMMA NearerOrders ==
    ASSUME NEW S \in SUBSET Chunk
    PROVE  Orders({p \in S \X S : Nearer(p[1], p[2])}, S)
<1>1. \A c \in S : Near[c] \in Nat /\ c \in Nat
  BY RetrievalAssumption DEF Score
<1>2. \A c, d \in S : c # d => Nearer(c, d) \/ Nearer(d, c)
  BY <1>1 DEF Nearer
<1>3. \A c, d, e \in S : Nearer(c, d) /\ Nearer(d, e) => Nearer(c, e)
  BY <1>1 DEF Nearer
<1>4. \A c \in S : ~Nearer(c, c)
  BY <1>1 DEF Nearer
<1> HIDE DEF Nearer
<1> QED
  BY <1>2, <1>3, <1>4 DEF Orders

LEMMA NearestFirst ==
    ASSUME NEW S \in SUBSET Chunk, NEW n \in Nat
    PROVE  /\ Page(First(n, S, Nearer), n, S)
           /\ \A c \in S \ First(n, S, Nearer), d \in First(n, S, Nearer) : Nearer(d, c)
<1> DEFINE R == {p \in S \X S : Nearer(p[1], p[2])}
<1>1. IsFiniteSet(S)
  BY RetrievalAssumption, FS_Subset
<1>2. Orders(R, S)
  BY NearerOrders
<1>3. \A c, d \in S : <<d, c>> \in R <=> Nearer(d, c)
  OBVIOUS
<1>4. \A c \in S : Below(R, S, c) = {d \in S : Nearer(d, c)}
  BY <1>3 DEF Below
<1>5. First(n, S, Nearer) = Prefix(n, R, S)
  BY <1>4 DEF First, Prefix
<1>6. First(n, S, Nearer) \subseteq S
  BY DEF First
<1> HIDE DEF R
<1>7. Page(First(n, S, Nearer), n, S)
  BY <1>1, <1>2, <1>5, <1>6, PrefixSize DEF Page
<1>8. ASSUME NEW c \in S \ Prefix(n, R, S), NEW d \in Prefix(n, R, S) PROVE Nearer(d, c)
  BY <1>1, <1>2, <1>3, PrefixBest DEF Prefix
<1> QED
  BY <1>5, <1>7, <1>8

LEMMA OutranksOrders ==
    ASSUME NEW S \in SUBSET Chunk, scores \in [Chunk -> Score]
    PROVE  Orders({p \in S \X S : Outranks(p[1], p[2])}, S)
<1>1. \A c \in S : scores[c] \in Nat /\ Near[c] \in Nat /\ c \in Nat
  BY RetrievalAssumption DEF Score
<1>2. \A c, d \in S : c # d => Outranks(c, d) \/ Outranks(d, c)
  BY <1>1 DEF Outranks, Nearer
<1>3. \A c, d, e \in S : Outranks(c, d) /\ Outranks(d, e) => Outranks(c, e)
  BY <1>1 DEF Outranks, Nearer
<1>4. \A c \in S : ~Outranks(c, c)
  BY <1>1 DEF Outranks, Nearer
<1> HIDE DEF Outranks
<1> QED
  BY <1>2, <1>3, <1>4 DEF Orders

LEMMA BestFirst ==
    ASSUME NEW S \in SUBSET Chunk, NEW n \in Nat, scores \in [Chunk -> Score]
    PROVE  /\ Page(First(n, S, Outranks), n, S)
           /\ \A c \in S \ First(n, S, Outranks), d \in First(n, S, Outranks) :
                Outranks(d, c)
<1> DEFINE R == {p \in S \X S : Outranks(p[1], p[2])}
<1>1. IsFiniteSet(S)
  BY RetrievalAssumption, FS_Subset
<1>2. Orders(R, S)
  BY OutranksOrders
<1>3. \A c, d \in S : <<d, c>> \in R <=> Outranks(d, c)
  OBVIOUS
<1>4. \A c \in S : Below(R, S, c) = {d \in S : Outranks(d, c)}
  BY <1>3 DEF Below
<1>5. First(n, S, Outranks) = Prefix(n, R, S)
  BY <1>4 DEF First, Prefix
<1>6. First(n, S, Outranks) \subseteq S
  BY DEF First
<1> HIDE DEF R
<1>7. Page(First(n, S, Outranks), n, S)
  BY <1>1, <1>2, <1>5, <1>6, PrefixSize DEF Page
<1>8. ASSUME NEW c \in S \ Prefix(n, R, S), NEW d \in Prefix(n, R, S)
      PROVE  Outranks(d, c)
  BY <1>1, <1>2, <1>3, PrefixBest DEF Prefix
<1> QED
  BY <1>5, <1>7, <1>8

(* The reranker may see as many as are asked for.                          *)
LEMMA EnoughFetched ==
    ASSUME query \in Query, ~TooMany
    PROVE  /\ query.limit \in Nat /\ Fetched \in Nat /\ Fetched >= query.limit
<1>1. query.limit \in Nat /\ query.rerank \in BOOLEAN
  BY RetrievalAssumption DEF Query
<1>2. Cap \in Nat
  BY RetrievalAssumption
<1> QED
  BY <1>1, <1>2 DEF Fetched, Smaller, TooMany

(* A search or a study request cuts its candidates to a page.              *)
LEMMA RankCut ==
    ASSUME TypeOK, RankInv, Cut, Exists
    PROVE  ResultsHonest'
<1> DEFINE passing == {c \in candidates : scores[c] >= minimum'}
<1>1. /\ at = "cut" /\ query \in Query /\ row.id # 0 /\ Allowed(row.schema) /\ ~TooMany
      /\ matched \in SUBSET Chunk /\ candidates = First(Fetched, matched, Nearer)
      /\ \A c \in Chunk : (Reranks /\ c \in candidates) \/ scores[c] = Near[c]
  BY DEF Cut, RankInv
<1>2. /\ UNCHANGED <<query, row, matched, candidates, scores, reranker>>
      /\ results' = First(query.limit, passing, Outranks)
      /\ minimum' = collection.min[IF Reranks THEN "rerank" ELSE "vector"]
  BY DEF Cut
<1>3. query.limit \in Nat /\ Fetched \in Nat /\ Fetched >= query.limit
  BY <1>1, EnoughFetched
<1>4. minimum' \in Nat /\ \A c \in Chunk : scores[c] \in Nat /\ Near[c] \in Nat /\ c \in Nat
  BY <1>2, RetrievalAssumption DEF TypeOK, Collection, Threshold, Score
<1>5. /\ Page(candidates, Fetched, matched)
      /\ \A c \in matched \ candidates, e \in candidates : Nearer(e, c)
  BY <1>1, <1>3, NearestFirst
<1>6. candidates \subseteq matched /\ passing \in SUBSET Chunk
  BY <1>1, <1>5 DEF Page
<1>7. /\ Page(results', query.limit, passing)
      /\ \A c \in passing \ results', d \in results' : Outranks(d, c)
  BY <1>2, <1>3, <1>6, BestFirst DEF TypeOK
<1>8. results' \subseteq passing
  BY <1>7 DEF Page
<1>9. \A c \in results' : c \in candidates /\ scores[c] >= minimum'
  BY <1>8
<1>10. ASSUME NEW c \in matched \ results', NEW d \in results'
       PROVE  \/ scores[c] < minimum'
              \/ Outranks(d, c)
              \/ Reranks /\ c \notin candidates /\ \A e \in candidates : Nearer(e, c)
  <2>1. c \in Chunk /\ d \in Chunk /\ d \in candidates
    BY <1>1, <1>6, <1>9
  <2>2. CASE c \in passing
    BY <1>7, <2>2
  <2>3. CASE c \in candidates \ passing
    BY <1>4, <2>1, <2>3
  <2>4. CASE c \notin candidates
    <3>1. \A e \in candidates : Nearer(e, c)
      BY <1>5, <2>4
    <3>2. CASE ~Reranks
      <4>1. scores[c] = Near[c] /\ scores[d] = Near[d]
        BY <1>1, <2>1, <3>2
      <4> QED
        BY <1>4, <2>1, <3>1, <4>1 DEF Outranks, Nearer
    <3> QED
      BY <2>4, <3>1, <3>2
  <2> QED
    BY <2>2, <2>3, <2>4
<1>11. ASSUME Cardinality(results') # query.limit,
              NEW c \in (IF Reranks THEN candidates ELSE matched) \ results'
       PROVE  scores[c] < minimum'
  <2>1. IsFiniteSet(Chunk) /\ results' \in SUBSET Chunk /\ candidates \in SUBSET Chunk
    BY <1>1, <1>6, <1>8, RetrievalAssumption
  <2>2. /\ IsFiniteSet(candidates)
        /\ Cardinality(results') \in Nat /\ Cardinality(candidates) \in Nat
    BY <2>1, FS_Subset, FS_CardinalityType
  <2>3. Cardinality(results') < query.limit /\ results' = passing
    BY <1>3, <1>7, <1>11, <2>2 DEF Page
  <2>4. c \in Chunk
    BY <1>1, <1>6, <1>11
  <2>5. CASE c \in candidates
    BY <1>4, <1>11, <2>3, <2>4, <2>5
  <2>6. CASE c \notin candidates
    <3>1. ~Reranks /\ c \in matched
      BY <1>11, <2>6
    <3>2. candidates # matched
      BY <2>6, <3>1
    <3>3. Cardinality(candidates) = Fetched
      BY <1>3, <1>5, <2>2, <3>2 DEF Page
    <3>4. candidates # passing
      BY <1>3, <2>2, <2>3, <3>3
    <3>5. PICK e \in candidates : ~(scores[e] >= minimum')
      BY <3>4
    <3>6. e \in Chunk /\ Nearer(e, c)
      BY <1>5, <2>1, <2>6, <3>1
    <3>7. scores[c] = Near[c] /\ scores[e] = Near[e]
      BY <1>1, <2>4, <3>1, <3>6
    <3> QED
      BY <1>4, <2>4, <3>5, <3>6, <3>7 DEF Nearer
  <2> QED
    BY <2>5, <2>6
<1>12. Allowed(row.schema)' /\ (row.id # 0)' /\ Reranks' = Reranks
  BY <1>1, <1>2 DEF Allowed, Reranks
<1>13. results' \subseteq matched' /\ Cardinality(results') <= query'.limit
  BY <1>2, <1>6, <1>7, <1>9 DEF Page
<1>14. \A c, d \in Chunk : Outranks(d, c)' <=> Outranks(d, c)
  BY <1>2 DEF Outranks
<1>15. results' \subseteq Chunk /\ matched' \subseteq Chunk
  BY <1>1, <1>2, <1>6, <1>9
<1> HIDE DEF passing
<1>16. \A c \in matched' \ results', d \in results' :
         \/ scores'[c] < minimum'
         \/ Outranks(d, c)'
         \/ Reranks' /\ c \notin candidates' /\ \A e \in candidates' : Nearer(e, c)
  BY <1>2, <1>10, <1>12, <1>14, <1>15
<1>17. \/ Cardinality(results') = query'.limit
       \/ \A c \in (IF Reranks' THEN candidates' ELSE matched') \ results' :
            scores'[c] < minimum'
  BY <1>2, <1>11, <1>12
<1> QED
  BY <1>2, <1>9, <1>12, <1>13, <1>16, <1>17 DEF ResultsHonest

rankVars == <<query, row, matched, candidates, scores, minimum, results, reranker>>

LEMMA RankKept ==
    ASSUME RankInv, UNCHANGED rankVars,
           at' \in {at, "idle", "grade", "pack"} \/ (at = "chunk" /\ at' = "parent")
    PROVE  RankInv'
<1>1. ResultsHonest'
  BY DEF RankInv, ResultsHonest, rankVars, Allowed, Reranks, Outranks, Nearer
<1>2. First(Fetched, matched, Nearer)' = First(Fetched, matched, Nearer)
  BY DEF First, Fetched, rankVars
<1>3. Allowed(row.schema)' = Allowed(row.schema) /\ TooMany' = TooMany
      /\ Reranks' = Reranks
  BY DEF Allowed, TooMany, Reranks, rankVars
<1> QED
  BY <1>1, <1>2, <1>3 DEF RankInv, rankVars

LEMMA RankOthers ==
    ASSUME TypeOK, RankInv,
           \/ Fail \/ ContextStep \/ DetailStep \/ WriterStep \/ UNCHANGED vars
           \/ Cut /\ ~Exists
    PROVE  RankInv'
<1> USE DEF rankVars, queryVars, requestVars
<1>1. CASE Fail \/ (Cut /\ ~Exists)
  BY <1>1, RankKept DEF Fail, Cut, Ends
<1>2. CASE ContextStep
  BY <1>2, RankKept DEF ContextStep, Grade, PackEnds, PackChunk, Ends
<1>3. CASE DetailStep
  BY <1>3, RankKept DEF DetailStep, ReadChunk, ReadParent, Ends
<1>4. CASE WriterStep
  <2>1. UNCHANGED <<at, queryVars, reranker>>
    BY <1>4, IndexEffect DEF WriterStep, Delete, Calibrate, Writes
  <2> QED
    BY <2>1, RankKept
<1>5. CASE UNCHANGED vars
  BY <1>5, RankKept DEF vars
<1> QED
  BY <1>1, <1>2, <1>3, <1>4, <1>5

LEMMA RankSearch ==
    ASSUME TypeOK, RankInv, Ask \/ GetSchema \/ LoadCollection \/ Select \/ Rank
    PROVE  RankInv'
<1>1. \A q \in Query : q.kind # "detail"
  BY DEF Query
<1>2. results' = {} => ResultsHonest'
  BY DEF ResultsHonest
<1>3. CASE Ask
  <2>1. /\ at' \in {"load", "schema"} /\ query' \in Query \cup Detail /\ results' = {}
        /\ at' = "load" => query'.kind = "detail"
    BY <1>3 DEF Ask
  <2> QED
    BY <1>1, <1>2, <2>1 DEF RankInv
<1>4. CASE GetSchema
  <2>1. /\ at = "schema" /\ at' \in {"idle", "load"} /\ UNCHANGED queryVars
        /\ at' = "load" => ~TooMany
    BY <1>4 DEF GetSchema, Ends
  <2>2. results' = {} /\ query' \in Query \cup Detail
    BY <2>1 DEF RankInv, queryVars, requestVars
  <2>3. TooMany' = TooMany
    BY <2>1 DEF TooMany, queryVars
  <2> QED
    BY <1>2, <2>1, <2>2, <2>3 DEF RankInv
<1>5. CASE LoadCollection
  <2>1. /\ at = "load" /\ UNCHANGED <<query, results>> /\ at' \in {"idle", "chunk", "select"}
        /\ at' = "select" => /\ row' = collection /\ collection.id # 0
                             /\ Allowed(collection.schema) /\ query.kind # "detail"
    BY <1>5 DEF LoadCollection, Loads, Ends, Exists
  <2>2. results' = {} /\ query' \in Query \cup Detail /\ (query \in Query => ~TooMany)
    BY <2>1 DEF RankInv
  <2>3. at' = "select" => query' \in Query
    BY <2>1, <2>2 DEF Detail
  <2>4. TooMany' = TooMany /\ (at' = "select" => Allowed(row.schema)')
    BY <2>1 DEF TooMany, Allowed
  <2> QED
    BY <1>2, <2>1, <2>2, <2>3, <2>4 DEF RankInv
<1>6. CASE Select
  <2>1. /\ at = "select" /\ at' \in {"idle", "rank"} /\ UNCHANGED <<query, row, results>>
        /\ matched' = RowsOf(row.id) \cap Matches
        /\ candidates' = First(Fetched, matched', Nearer)
    BY <1>6 DEF Select, Ends
  <2>2. /\ results' = {} /\ query' \in Query /\ row'.id # 0
        /\ Allowed(row.schema) /\ ~TooMany
    BY <2>1 DEF RankInv
  <2>3. Fetched' = Fetched /\ TooMany' = TooMany /\ Allowed(row.schema)' = Allowed(row.schema)
    BY <2>1 DEF Fetched, TooMany, Allowed
  <2>4. First(Fetched, matched, Nearer)' = First(Fetched, matched', Nearer)
    BY <2>3 DEF First
  <2>5. matched' \subseteq Chunk
    BY <2>1 DEF RowsOf
  <2> QED
    BY <1>2, <2>1, <2>2, <2>3, <2>4, <2>5 DEF RankInv
<1>7. CASE Rank
  <2>1. /\ at = "rank" /\ at' = "cut"
        /\ UNCHANGED <<query, row, results, matched, candidates, reranker>>
        /\ \A c \in Chunk : (Reranks /\ c \in candidates) \/ scores'[c] = Near[c]
    BY <1>7 DEF Rank
  <2>2. /\ results' = {} /\ query \in Query /\ row.id # 0
        /\ Allowed(row.schema) /\ ~TooMany /\ matched \subseteq Chunk
        /\ candidates = First(Fetched, matched, Nearer)
    BY <2>1 DEF RankInv
  <2>3. /\ Fetched' = Fetched /\ TooMany' = TooMany /\ Reranks' = Reranks
        /\ Allowed(row.schema)' = Allowed(row.schema)
    BY <2>1 DEF Fetched, TooMany, Allowed, Reranks
  <2>4. First(Fetched, matched, Nearer)' = First(Fetched, matched, Nearer)
    BY <2>1, <2>3 DEF First
  <2> QED
    BY <1>2, <2>1, <2>2, <2>3, <2>4 DEF RankInv
<1> QED
  BY <1>3, <1>4, <1>5, <1>6, <1>7

LEMMA RankNext ==
    ASSUME TypeOK, RankInv, [Next]_vars
    PROVE  RankInv'
<1>1. CASE Cut /\ Exists
  <2>1. ResultsHonest'
    BY <1>1, RankCut
  <2>2. at' \in {"idle", "grade"}
    BY <1>1 DEF Cut, Ends
  <2> QED
    BY <2>1, <2>2 DEF RankInv
<1> QED
  BY <1>1, RankSearch, RankOthers DEF Next, SearchStep

-----------------------------------------------------------------------------
(* The context.                                                            *)

LEMMA PackOthers ==
    ASSUME TypeOK, PackInv,
           SearchStep \/ DetailStep \/ WriterStep \/ UNCHANGED vars \/ PackEnds
    PROVE  PackInv'
<1> USE DEF PackInv, ContextFaithful, NoDuplicates, WithinBudget, Handled, Apart
<1>1. CASE Ask
  <2>1. /\ queue' = {} /\ packed' = {} /\ omitted' = {} /\ used' = 0
        /\ at' \in {"load", "schema"}
    BY <1>1 DEF Ask
  <2> QED
    BY <2>1, RetrievalAssumption DEF FamiliesKept
<1>2. CASE UNCHANGED packVars /\ (at' \in {at, "idle"} \/ at \notin {"idle", "pack"})
           /\ (at' = "pack" => at = "pack" /\ UNCHANGED <<accepted, scores>>)
  BY <1>2 DEF FamiliesKept, packVars
<1>3. CASE GetSchema \/ LoadCollection \/ Select \/ Rank \/ Cut \/ Fail \/ PackEnds
  BY <1>2, <1>3 DEF GetSchema, LoadCollection, Loads, Select, Rank, Cut, Fail, PackEnds,
     Ends, queryVars
<1>4. CASE DetailStep
  BY <1>2, <1>4 DEF DetailStep, ReadChunk, ReadParent, Ends
<1>5. CASE WriterStep \/ UNCHANGED vars
  <2>1. UNCHANGED <<packVars, at, accepted, scores>>
    BY <1>5, IndexEffect
    DEF WriterStep, Delete, Calibrate, Writes, queryVars, requestVars, vars
  <2> QED
    BY <1>2, <2>1
<1> QED
  BY <1>1, <1>3, <1>4, <1>5 DEF SearchStep

LEMMA PackGrade ==
    ASSUME TypeOK, PackInv, Grade
    PROVE  PackInv'
<1>1. /\ accepted' \in SUBSET Chunk /\ scores' = scores
      /\ queue' = accepted' \ Duplicates(accepted')
      /\ packed' = {} /\ omitted' = {} /\ used' = 0 /\ at' \in {"idle", "pack"}
  BY DEF TypeOK, PackInv, Handled, Grade, Ends
<1>2. scores \in [Chunk -> Score]
  BY DEF TypeOK
<1>3. Handled' = accepted' \ Duplicates(accepted')
  BY <1>1 DEF Handled
<1>4. NoDuplicates'
  BY <1>1, <1>2, <1>3, NoDuplicatesLeft DEF NoDuplicates
<1>5. FamiliesKept'
  BY <1>1, <1>2, <1>3, BestStays DEF FamiliesKept
<1> QED
  BY <1>1, <1>4, <1>5, RetrievalAssumption
  DEF PackInv, ContextFaithful, WithinBudget, Apart

LEMMA PackTurn ==
    ASSUME TypeOK, PackInv, NEW c \in Chunk, PackChunk(c)
    PROVE  PackInv'
<1>1. PICK n \in Tokens(c) :
        /\ tokens' = [tokens EXCEPT ![c] = n]
        /\ IF Fits(n)
           THEN packed' = packed \cup {c} /\ used' = used + n /\ UNCHANGED omitted
           ELSE omitted' = omitted \cup {c} /\ UNCHANGED <<packed, used>>
  BY DEF PackChunk
<1>2. n \in Nat /\ n <= Larger(MaxSingle, Estimate(Marker) + 1) + 1
  BY TokensBounded
<1>3. /\ c \in queue /\ queue' = queue \ {c} /\ at' = at /\ at = "pack"
      /\ UNCHANGED <<accepted, scores>>
  BY DEF PackChunk, NextInLine, requestVars
<1>4. c \notin packed \cup omitted
  BY <1>3 DEF PackInv, Apart
<1>5. Handled' = Handled /\ Apart'
  BY <1>1, <1>3, <1>4 DEF Handled, PackInv, Apart
<1>6. tokens'[c] = n /\ \A d \in Chunk \ {c} : tokens'[d] = tokens[d]
  BY <1>1 DEF TypeOK
<1>7. used \in Nat /\ Budget \in Nat /\ \A d \in Chunk : tokens[d] \in Nat
  BY RetrievalAssumption DEF TypeOK
<1>8. packed \subseteq Chunk /\ omitted \subseteq Chunk
  BY DEF TypeOK
<1>9. used' <= Budget
  BY <1>1, <1>2, <1>7 DEF Fits, PackInv, ContextFaithful, WithinBudget
<1>10. \A d \in omitted' : used' + tokens'[d] > Budget
  BY <1>1, <1>2, <1>4, <1>6, <1>7, <1>8
  DEF Fits, PackInv, ContextFaithful, WithinBudget
<1>11. \A d \in packed' \cup omitted' :
         tokens'[d] <= Larger(MaxSingle, Estimate(Marker) + 1) + 1
  BY <1>1, <1>2, <1>4, <1>6, <1>8 DEF PackInv, ContextFaithful, WithinBudget
<1> QED
  BY <1>3, <1>5, <1>9, <1>10, <1>11
  DEF PackInv, ContextFaithful, NoDuplicates, FamiliesKept, WithinBudget

-----------------------------------------------------------------------------
(* The inductive invariant holds: types, rows that belong together in the  *)
(* database and between the statements of a detail, a search that knows    *)
(* what its last statement found, and a context that is faithful after     *)
(* every turn of the packing loop.                                         *)
THEOREM Invariance == Spec => []IInv
<1>1. Init => IInv
  <2> SUFFICES ASSUME Init PROVE IInv
    OBVIOUS
  <2>1. RowsInv
    BY RowTypes, RetrievalAssumption DEF Init, RowsInv, Exists
  <2>2. DetailInv /\ ParentFits
    BY DEF Init, DetailInv, ParentFits
  <2>3. PackInv
    BY RetrievalAssumption DEF Init, PackInv, Handled, Apart, ContextFaithful, NoDuplicates,
       FamiliesKept, WithinBudget
  <2>4. RankInv
    BY DEF Init, RankInv, ResultsHonest
  <2> QED
    BY <2>1, <2>2, <2>3, <2>4, TypesInit DEF IInv
<1>2. IInv /\ [Next]_vars => IInv'
  <2> SUFFICES ASSUME IInv, [Next]_vars PROVE IInv'
    OBVIOUS
  <2> USE DEF IInv
  <2>1. TypeOK'
    BY TypesNext
  <2>2. RowsInv'
    BY RowsNext
  <2>3. DetailInv' /\ ParentFits'
    BY DetailWriters, DetailReads, DetailOthers DEF Next
  <2>4. PackInv'
    BY PackOthers, PackGrade, PackTurn DEF Next, ContextStep
  <2>5. RankInv'
    BY RankNext
  <2> QED
    BY <2>1, <2>2, <2>3, <2>4, <2>5
<1> QED
  BY <1>1, <1>2, PTL DEF Spec

(* Queries, rows and estimates are well formed. *)
THEOREM TypeCorrect == Spec => []TypeOK
  BY Invariance, PTL DEF IInv

(* For any collection, filter, limit and cap, any scores a reranker gives,  *)
(* and any writes between the statements of a search: its page is of a      *)
(* collection that declares the filter, holds the best there is above the   *)
(* threshold, and is short only when there is no more.                      *)
THEOREM ResultSafety == Spec => []ResultsHonest
  BY Invariance, PTL DEF IInv, RankInv

(* For any collection, limits and budget: no sub-question beside its       *)
(* question, the best of each family kept, nothing omitted that fits, and  *)
(* the budget exceeded by nothing, a single chunk's by one token at most.  *)
THEOREM ContextSafety == Spec => []ContextFaithful
  BY Invariance, PTL DEF IInv, PackInv

(* For any number of writes between the two statements of a detail: the    *)
(* parent shown belongs to the sub-question's collection and is not older. *)
THEOREM DetailSafety == Spec => []ParentFits
  BY Invariance, PTL DEF IInv

=============================================================================
