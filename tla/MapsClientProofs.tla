--------------------------- MODULE MapsClientProofs ---------------------------
(***************************************************************************)
(* Proofs about MapsClient, for any number of concurrent calls, and about  *)
(* what Parsers makes of whatever is pasted or answered.                   *)
(***************************************************************************)
EXTENDS MapsClient, Parsers, SequenceTheorems, WellFoundedInduction, TLAPS

\* Whatever index is preferred, authUserOrder yields each of the three.
LEMMA OrderIsComplete ==
  ASSUME NEW p \in AuthUsers \cup {None}
  PROVE  /\ AuthUserOrder(p) \in Seq(AuthUsers)
         /\ Len(AuthUserOrder(p)) = 3
         /\ Range(AuthUserOrder(p)) = AuthUsers
<1>1. CASE p = None
  BY <1>1 DEF AuthUserOrder, Range, AuthUsers
<1>2. CASE p \in AuthUsers
  <2> DEFINE e(i) == IF i = 1 THEN p ELSE IF i - 2 < p THEN i - 2 ELSE i - 1
             s    == [i \in 1..3 |-> e(i)]
  <2>1. AuthUserOrder(p) = s
    BY <1>2, IndexAssumption DEF AuthUserOrder
  <2>2. \A i \in 1..3 : e(i) \in AuthUsers
    BY <1>2 DEF AuthUsers
  <2>3. s \in Seq(AuthUsers) /\ Len(s) = 3
    BY <2>2
  <2>4. \A a \in AuthUsers : \E i \in 1..3 : s[i] = a
    <3>1. s[1] = p /\ s[2] = e(2) /\ s[3] = e(3)
      OBVIOUS
    <3>2. \A a \in AuthUsers : a = p \/ a = e(2) \/ a = e(3)
      BY <1>2 DEF AuthUsers
    <3> QED
      BY <3>1, <3>2
  <2>5. Range(s) = AuthUsers
    BY <2>2, <2>4 DEF Range
  <2> QED
    BY <2>1, <2>3, <2>5
<1> QED
  BY <1>1, <1>2

\* Taking the first index off an order loses no other.
LEMMA HeadOrTail ==
  ASSUME NEW s \in Seq(AuthUsers), s # <<>>
  PROVE  /\ Head(s) \in AuthUsers
         /\ Tail(s) \in Seq(AuthUsers) /\ Len(Tail(s)) = Len(s) - 1
         /\ Range(s) \subseteq Range(Tail(s)) \cup {Head(s)}
<1>1. Len(s) \in Nat \ {0} /\ \A i \in 1..Len(s) : s[i] \in AuthUsers
  OBVIOUS
<1>2. Head(s) = s[1] /\ Tail(s) \in Seq(AuthUsers) /\ Len(Tail(s)) = Len(s) - 1
  OBVIOUS
<1>3. \A i \in 2..Len(s) : i - 1 \in 1..Len(Tail(s)) /\ Tail(s)[i - 1] = s[i]
  OBVIOUS
<1>4. DOMAIN s = 1..Len(s) /\ DOMAIN Tail(s) = 1..Len(Tail(s))
  BY <1>2
<1>5. ASSUME NEW i \in DOMAIN s
      PROVE  s[i] \in Range(Tail(s)) \cup {Head(s)}
  <2>1. CASE i = 1
    BY <2>1, <1>2
  <2>2. CASE i # 1
    <3>1. i \in 2..Len(s)
      BY <2>2, <1>1, <1>4
    <3>2. i - 1 \in DOMAIN Tail(s) /\ Tail(s)[i - 1] = s[i]
      BY <3>1, <1>3, <1>4
    <3> QED
      BY <3>2 DEF Range
  <2> QED
    BY <2>1, <2>2
<1> QED
  BY <1>1, <1>2, <1>5 DEF Range

\* What holds of the calls, and what the two properties follow from.
IInv == TypeOK /\ StillToCome /\ SteadyIndexFound /\ NewestKnown

-----------------------------------------------------------------------------
(* The actions, one by one *)

\* A call begins: nothing was tried yet.
LEMMA BeginKeeps ==
  ASSUME IInv, NEW c \in Callers, Begin(c)
  PROVE  IInv'
<1> USE DEF IInv, Begin, client, api
<1>1. TypeOK'
  BY DEF TypeOK, PCs
<1>2. StillToCome'
  <2> SUFFICES ASSUME NEW d \in Callers PROVE CallGoesOn(d)'
    BY DEF StillToCome
  <2>1. CallGoesOn(d)
    BY DEF StillToCome
  <2>2. CASE d = c
    BY <2>2 DEF CallGoesOn, TypeOK
  <2>3. CASE d # c
    <3>1. pc'[d] = pc[d] /\ steady'[d] = steady[d] /\ failed'[d] = failed[d]
      BY <2>3 DEF TypeOK
    <3> QED
      BY <2>1, <3>1 DEF CallGoesOn
  <2> QED
    BY <2>2, <2>3
<1>3. SteadyIndexFound'
  BY DEF SteadyIndexFound, TypeOK
<1>4. NewestKnown'
  BY DEF NewestKnown, TypeOK
<1> QED
  BY <1>1, <1>2, <1>3, <1>4

\* The order holds every index, whichever another call made the preferred one.
LEMMA OrderKeeps ==
  ASSUME IInv, NEW c \in Callers, Order(c)
  PROVE  IInv'
<1> USE DEF IInv, Order, client, api, ghosts
<1> DEFINE o == AuthUserOrder(preferred)
<1>0. o \in Seq(AuthUsers) /\ Len(o) = 3 /\ Range(o) = AuthUsers
  BY OrderIsComplete DEF TypeOK
<1>e. o # <<>>
  BY <1>0
<1> HIDE DEF o
<1>o. order' = [order EXCEPT ![c] = o]
  BY DEF o
<1>1. TypeOK'
  BY <1>0, <1>o DEF TypeOK, PCs
<1>2. StillToCome'
  <2> SUFFICES ASSUME NEW d \in Callers PROVE CallGoesOn(d)'
    BY DEF StillToCome
  <2>1. CallGoesOn(d)
    BY DEF StillToCome
  <2>2. CASE d = c
    <3>1. order'[c] = o /\ pc'[c] = "try"
      BY <1>o DEF TypeOK
    <3>2. steady[c] \subseteq AuthUsers
      BY DEF TypeOK
    <3> QED
      BY <1>0, <1>e, <2>1, <2>2, <3>1, <3>2 DEF CallGoesOn
  <2>3. CASE d # c
    <3>1. pc'[d] = pc[d] /\ order'[d] = order[d]
      BY <2>3, <1>o DEF TypeOK
    <3> QED
      BY <2>1, <3>1 DEF CallGoesOn
  <2> QED
    BY <2>2, <2>3
<1>3. SteadyIndexFound'
  BY DEF SteadyIndexFound, TypeOK
<1>4. NewestKnown'
  BY DEF NewestKnown, TypeOK
<1> QED
  BY <1>1, <1>2, <1>3, <1>4

\* The index taken off the order is the one asked.
LEMMA TryKeeps ==
  ASSUME IInv, NEW c \in Callers, Try(c)
  PROVE  IInv'
<1> USE DEF IInv, Try, client, api, ghosts
<1> DEFINE h == Head(order[c])
           t == Tail(order[c])
<1>0. /\ h \in AuthUsers /\ t \in Seq(AuthUsers)
      /\ Range(order[c]) \subseteq Range(t) \cup {h}
  <2>1. order[c] \in Seq(AuthUsers) /\ order[c] # <<>>
    BY DEF TypeOK, StillToCome, CallGoesOn
  <2> QED
    BY <2>1, HeadOrTail
<1> HIDE DEF h, t
<1>o. order' = [order EXCEPT ![c] = t] /\ asked' = [asked EXCEPT ![c] = h]
  BY DEF h, t
<1>1. TypeOK'
  <2>1. order' \in [Callers -> Seq(AuthUsers)]
    BY <1>0, <1>o DEF TypeOK
  <2>2. asked' \in [Callers -> AuthUsers \cup {None}] /\ pc' \in [Callers -> PCs]
    BY <1>0, <1>o DEF TypeOK, PCs
  <2> QED
    BY <2>1, <2>2 DEF TypeOK
<1>2. StillToCome'
  <2> SUFFICES ASSUME NEW d \in Callers PROVE CallGoesOn(d)'
    BY DEF StillToCome
  <2>1. CallGoesOn(d)
    BY DEF StillToCome
  <2>2. CASE d = c
    <3>1. order'[c] = t /\ asked'[c] = h /\ pc'[c] = "http"
      BY <1>o DEF TypeOK
    <3> QED
      BY <1>0, <2>1, <2>2, <3>1 DEF CallGoesOn
  <2>3. CASE d # c
    <3>1. pc'[d] = pc[d] /\ order'[d] = order[d] /\ asked'[d] = asked[d]
      BY <2>3, <1>o DEF TypeOK
    <3> QED
      BY <2>1, <3>1 DEF CallGoesOn
  <2> QED
    BY <2>2, <2>3
<1>3. SteadyIndexFound'
  BY DEF SteadyIndexFound, TypeOK
<1>4. NewestKnown'
  BY <1>o DEF NewestKnown, TypeOK
<1> QED
  BY <1>1, <1>2, <1>3, <1>4

\* The accepted index is the newest, and the call is on its way to remember it.
LEMMA AcceptedKeeps ==
  ASSUME IInv, NEW c \in Callers, Accepted(c)
  PROVE  IInv'
<1> USE DEF IInv, Accepted, client, api
<1>0. asked[c] \in AuthUsers
  BY DEF StillToCome, CallGoesOn
<1>1. TypeOK'
  BY <1>0 DEF TypeOK, PCs
<1>2. StillToCome'
  <2> SUFFICES ASSUME NEW d \in Callers PROVE CallGoesOn(d)'
    BY DEF StillToCome
  <2>1. CallGoesOn(d)
    BY DEF StillToCome
  <2>2. CASE d = c
    BY <1>0, <2>1, <2>2 DEF CallGoesOn, TypeOK
  <2>3. CASE d # c
    <3>1. pc'[d] = pc[d]
      BY <2>3 DEF TypeOK
    <3> QED
      BY <2>1, <3>1 DEF CallGoesOn
  <2> QED
    BY <2>2, <2>3
<1>3. SteadyIndexFound'
  BY DEF SteadyIndexFound, TypeOK
<1>4. NewestKnown'
  <2>1. CASE \E d \in Callers \ {c} : pc[d] = "remember"
    BY <2>1 DEF NewestKnown
  <2>2. CASE \A d \in Callers \ {c} : pc[d] # "remember"
    <3>1. pc'[c] = "remember" /\ asked'[c] = newest'
      BY DEF TypeOK
    <3>2. \A d \in Callers \ {c} : pc'[d] # "remember"
      BY <2>2 DEF TypeOK
    <3> QED
      BY <3>1, <3>2 DEF NewestKnown
  <2> QED
    BY <2>1, <2>2
<1> QED
  BY <1>1, <1>2, <1>3, <1>4

\* An index without a result: if it was the last and nothing failed, none of
\* the indices was accepted all along.
LEMMA NoResultKeeps ==
  ASSUME IInv, NEW c \in Callers, Rejected(c) \/ RequestFails(c)
  PROVE  IInv'
<1> USE DEF IInv, client, api, ghosts
<1> DEFINE r == IF order[c] = <<>> THEN Expired ELSE result[c]
           p == IF order[c] = <<>> THEN "idle" ELSE "try"
<1>n. /\ pc[c] = "http" /\ NoResult(c)
      /\ UNCHANGED <<preferred, accepted, steady, newest, raced>>
  BY DEF Rejected, RequestFails
<1>p. /\ pc' = [pc EXCEPT ![c] = p]
      /\ result' = [result EXCEPT ![c] = r]
      /\ asked' = [asked EXCEPT ![c] = None]
      /\ order' = order
  BY <1>n DEF NoResult, TypeOK
<1>f. /\ failed' \in [Callers -> BOOLEAN]
      /\ \A d \in Callers : failed[d] => failed'[d]
      /\ \A d \in Callers \ {c} : failed'[d] <=> failed[d]
      /\ failed'[c] \/ asked[c] \notin accepted
  BY DEF Rejected, RequestFails, TypeOK
<1>i. p \in {"idle", "try"} /\ r \in AuthUsers \cup {None, Expired}
  BY DEF TypeOK
<1>s. steady[c] \subseteq accepted /\ (failed'[c] \/ steady[c] \subseteq Range(order[c]))
  <2>1. steady[c] \subseteq accepted /\ (failed[c] \/ steady[c] \subseteq Range(order[c]) \cup {asked[c]})
    BY <1>n DEF StillToCome, CallGoesOn
  <2> QED
    BY <2>1, <1>f
<1>1. TypeOK'
  BY <1>n, <1>p, <1>f, <1>i DEF TypeOK, PCs
<1>2. StillToCome'
  <2> SUFFICES ASSUME NEW d \in Callers PROVE CallGoesOn(d)'
    BY DEF StillToCome
  <2>1. CallGoesOn(d)
    BY DEF StillToCome
  <2>2. CASE d = c
    <3>1. pc'[c] = p /\ order'[c] = order[c] /\ steady'[c] = steady[c] /\ accepted' = accepted
      BY <1>n, <1>p DEF TypeOK
    <3>2. p = "try" => order[c] # <<>>
      OBVIOUS
    <3> HIDE DEF p
    <3> QED
      BY <1>i, <1>s, <2>2, <3>1, <3>2 DEF CallGoesOn
  <2>3. CASE d # c
    <3>1. /\ pc'[d] = pc[d] /\ order'[d] = order[d] /\ asked'[d] = asked[d]
          /\ steady'[d] = steady[d] /\ accepted' = accepted
          /\ failed'[d] <=> failed[d]
      BY <1>n, <1>p, <1>f, <2>3 DEF TypeOK
    <3> QED
      BY <2>1, <3>1 DEF CallGoesOn
  <2> QED
    BY <2>2, <2>3
<1>3. SteadyIndexFound'
  <2> SUFFICES ASSUME NEW d \in Callers, pc'[d] = "idle", result'[d] = Expired
               PROVE  failed'[d] \/ steady'[d] = {}
    BY DEF SteadyIndexFound
  <2>1. CASE d = c
    <3>1. order[c] = <<>>
      BY <1>p, <2>1 DEF TypeOK
    <3>2. Range(order[c]) = {}
      BY <3>1 DEF Range
    <3> QED
      BY <1>n, <1>s, <2>1, <3>2
  <2>2. CASE d # c
    <3>1. pc[d] = "idle" /\ result[d] = Expired
      BY <1>p, <2>2 DEF TypeOK
    <3> QED
      BY <1>n, <1>f, <2>2, <3>1 DEF SteadyIndexFound
  <2> QED
    BY <2>1, <2>2
<1>4. NewestKnown'
  <2>1. /\ \A d \in Callers : pc'[d] = "remember" <=> pc[d] = "remember"
        /\ \A d \in Callers : pc[d] = "remember" => asked'[d] = asked[d]
        /\ preferred' = preferred /\ newest' = newest /\ (raced' <=> raced)
    BY <1>n, <1>p, <1>i DEF TypeOK
  <2> QED
    BY <2>1 DEF NewestKnown
<1> QED
  BY <1>1, <1>2, <1>3, <1>4

\* Without a race, what is remembered is the newest.
LEMMA RememberKeeps ==
  ASSUME IInv, NEW c \in Callers, Remember(c)
  PROVE  IInv'
<1> USE DEF IInv, Remember, client, api
<1>0. asked[c] \in AuthUsers
  BY DEF StillToCome, CallGoesOn
<1>1. TypeOK'
  <2>1. order' \in [Callers -> Seq(AuthUsers)]
    BY DEF TypeOK
  <2> QED
    BY <1>0, <2>1 DEF TypeOK, PCs
<1>2. StillToCome'
  <2> SUFFICES ASSUME NEW d \in Callers PROVE CallGoesOn(d)'
    BY DEF StillToCome
  <2>1. CallGoesOn(d)
    BY DEF StillToCome
  <2>2. CASE d = c
    BY <2>2 DEF CallGoesOn, TypeOK
  <2>3. CASE d # c
    <3>1. /\ pc'[d] = pc[d] /\ order'[d] = order[d] /\ asked'[d] = asked[d]
          /\ steady'[d] = steady[d] /\ failed'[d] = failed[d]
      BY <2>3 DEF TypeOK
    <3> QED
      BY <2>1, <3>1 DEF CallGoesOn
  <2> QED
    BY <2>2, <2>3
<1>3. SteadyIndexFound'
  <2> SUFFICES ASSUME NEW d \in Callers, pc'[d] = "idle", result'[d] = Expired
               PROVE  failed'[d] \/ steady'[d] = {}
    BY DEF SteadyIndexFound
  <2>1. d # c
    BY <1>0, IndexAssumption DEF TypeOK
  <2>2. pc[d] = "idle" /\ result[d] = Expired /\ steady'[d] = steady[d] /\ failed'[d] = failed[d]
    BY <2>1 DEF TypeOK
  <2> QED
    BY <2>2 DEF SteadyIndexFound
<1>4. NewestKnown'
  <2>1. CASE raced
    BY <2>1 DEF NewestKnown
  <2>2. CASE ~raced
    <3>1. asked[c] = newest /\ \A d \in Callers \ {c} : pc[d] # "remember"
      BY <2>2 DEF NewestKnown
    <3>2. \A d \in Callers : pc'[d] # "remember"
      BY <3>1 DEF TypeOK
    <3> QED
      BY <3>1, <3>2 DEF NewestKnown
  <2> QED
    BY <2>1, <2>2
<1> QED
  BY <1>1, <1>2, <1>3, <1>4

\* A session that comes or goes is no longer one that was there all along.
LEMMA SessionsChangeKeeps ==
  ASSUME IInv, SessionsChange
  PROVE  IInv'
<1> USE DEF IInv, call, client
<1>1. PICK a \in AuthUsers :
        /\ accepted' = IF a \in accepted THEN accepted \ {a} ELSE accepted \cup {a}
        /\ steady' = [d \in Callers |-> steady[d] \ {a}]
  BY DEF SessionsChange
<1>2. UNCHANGED <<pc, order, asked, result, preferred, failed, newest, raced>>
  BY DEF SessionsChange
<1>3. accepted' \in SUBSET AuthUsers /\ accepted \ {a} \subseteq accepted'
  BY <1>1 DEF TypeOK
<1>4. \A d \in Callers : steady'[d] = steady[d] \ {a}
  BY <1>1
<1>5. TypeOK'
  <2>1. steady' \in [Callers -> SUBSET AuthUsers]
    BY <1>1 DEF TypeOK
  <2> QED
    BY <1>2, <1>3, <2>1 DEF TypeOK
<1>6. StillToCome'
  <2> SUFFICES ASSUME NEW d \in Callers PROVE CallGoesOn(d)'
    BY DEF StillToCome
  <2>1. CallGoesOn(d)
    BY DEF StillToCome
  <2>2. steady'[d] \subseteq accepted' /\ steady'[d] \subseteq steady[d]
    BY <1>3, <1>4, <2>1 DEF CallGoesOn
  <2> QED
    BY <1>2, <2>1, <2>2 DEF CallGoesOn
<1>7. SteadyIndexFound'
  BY <1>2, <1>4 DEF SteadyIndexFound
<1>8. NewestKnown'
  BY <1>2 DEF NewestKnown
<1> QED
  BY <1>5, <1>6, <1>7, <1>8

-----------------------------------------------------------------------------
(* The invariant and what follows from it *)

\* IInv holds when the client is made, and no step of any call breaks it.
THEOREM Invariance == Spec => []IInv
<1>1. Init => IInv
  <2> SUFFICES ASSUME Init PROVE IInv
    OBVIOUS
  <2> USE DEF Init
  <2>0. order \in [Callers -> Seq(AuthUsers)]
    <3>1. <<>> \in Seq(AuthUsers)
      OBVIOUS
    <3> QED
      BY <3>1
  <2>1. TypeOK
    BY <2>0 DEF TypeOK, PCs
  <2>2. StillToCome
    BY DEF StillToCome, CallGoesOn
  <2>3. SteadyIndexFound
    BY DEF SteadyIndexFound
  <2>4. NewestKnown
    BY DEF NewestKnown
  <2> QED
    BY <2>1, <2>2, <2>3, <2>4 DEF IInv
<1>2. IInv /\ [Next]_vars => IInv'
  <2> SUFFICES ASSUME IInv, [Next]_vars PROVE IInv'
    OBVIOUS
  <2>1. CASE SessionsChange
    BY <2>1, SessionsChangeKeeps
  <2>2. ASSUME NEW c \in Callers, Begin(c) \/ GetState(c)
        PROVE  IInv'
    BY <2>2, BeginKeeps, OrderKeeps, TryKeeps, AcceptedKeeps, NoResultKeeps, RememberKeeps
    DEF GetState
  <2>3. CASE UNCHANGED vars
    <3>1. UNCHANGED <<pc, order, asked, result, preferred, accepted, steady, failed, newest, raced>>
      BY <2>3 DEF vars, call, client, api, ghosts
    <3> QED
      BY <3>1 DEF IInv, TypeOK, StillToCome, CallGoesOn, SteadyIndexFound, NewestKnown
  <2> QED
    BY <2>1, <2>2, <2>3 DEF Next
<1> QED
  BY <1>1, <1>2, PTL DEF Spec

\* However many calls share the client and whichever preference they read, a
\* call whose requests were all answered reports ErrCookiesExpired only if no
\* index was accepted from its beginning to its end.
THEOREM SteadyIndexIsFound == Spec => []SteadyIndexFound
<1>1. IInv => SteadyIndexFound
  BY DEF IInv
<1> QED
  BY <1>1, Invariance, PTL

\* Once nobody is on the way to remember an index, the preferred one is the one
\* accepted last, unless two successes overlapped.
THEOREM PreferredIsNewest == Spec => []LastSuccessPreferred
<1>1. IInv => LastSuccessPreferred
  BY DEF IInv, NewestKnown, LastSuccessPreferred
<1> QED
  BY <1>1, Invariance, PTL

-----------------------------------------------------------------------------
(* The parsers *)

\* The relation < on the numbers is well-founded.
LEMMA LessIsWellFounded ==
  IsWellFoundedOn({p \in Nat \X Nat : p[1] < p[2]}, Nat)
<1>1. IsWellFoundedOn(OpToRel(<, Nat), Nat)
  BY NatLessThanWellFounded
<1>2. OpToRel(<, Nat) = {p \in Nat \X Nat : p[1] < p[2]}
  BY DEF OpToRel
<1> QED
  BY <1>1, <1>2

\* A set of numbers with a number in it has a least one.
LEMMA Least ==
  ASSUME NEW T \in SUBSET Nat, T # {}
  PROVE  \E n \in T : \A m \in T : n <= m
<1> DEFINE R == {p \in Nat \X Nat : p[1] < p[2]}
<1>1. PICK n \in T : \A m \in T : <<m, n>> \notin R
  <2> HIDE DEF R
  <2>1. IsWellFoundedOn(R, Nat)
    BY LessIsWellFounded DEF R
  <2> QED
    BY <2>1, WFMin
<1>2. ASSUME NEW m \in T PROVE n <= m
  <2>1. <<m, n>> \in Nat \X Nat /\ <<m, n>>[1] = m /\ <<m, n>>[2] = n
    OBVIOUS
  <2>2. ~(m < n)
    BY <1>1, <2>1
  <2> QED
    BY <2>2
<1> QED
  BY <1>2

\* Induction, over a set of numbers instead of a predicate.
LEMMA SetInduction ==
  ASSUME NEW A \in SUBSET Nat, 0 \in A, \A n \in A : n + 1 \in A
  PROVE  A = Nat
<1>1. SUFFICES ASSUME A # Nat PROVE FALSE
  OBVIOUS
<1>2. PICK n \in Nat \ A : \A m \in Nat \ A : n <= m
  BY <1>1, Least
<1>3. n - 1 \in Nat /\ n - 1 \in A
  BY <1>2
<1> QED
  BY <1>2, <1>3

\* A loop of n turns, what it holds before the first, and what each makes of it.
Turns(step, n, A) == \A i \in 1..n : \A y \in A : step[i][y] \in A
IsRun(f, n, A, first, step) ==
  /\ f \in [0..n -> A] /\ f[0] = first
  /\ \A i \in 1..n : f[i] = step[i][f[i - 1]]

\* A loop has a run.
LEMMA Iterated ==
  ASSUME NEW n \in Nat, NEW A, NEW first \in A, NEW step, Turns(step, n, A)
  PROVE  \E f : IsRun(f, n, A, first, step)
<1> DEFINE Loop(m, f) == IsRun(f, m, A, first, step)
           T == {m \in Nat : m <= n => \E f : Loop(m, f)}
<1>1. 0 \in T
  <2>1. Loop(0, [i \in 0..0 |-> first])
    BY DEF IsRun
  <2> QED
    BY <2>1
<1>2. ASSUME NEW m \in T PROVE m + 1 \in T
  <2>1. SUFFICES ASSUME m + 1 <= n PROVE \E f_ : Loop(m + 1, f_)
    <3>1. m + 1 \in Nat
      OBVIOUS
    <3> HIDE DEF Loop
    <3> QED
      BY <3>1
  <2>2. PICK f : Loop(m, f)
    BY <2>1
  <2> DEFINE last == step[m + 1][f[m]]
             g == [i \in 0..(m + 1) |-> IF i = m + 1 THEN last ELSE f[i]]
  <2>3. f[m] \in A /\ m + 1 \in 1..n
    BY <2>1, <2>2 DEF IsRun
  <2>4. last \in A
    BY <2>3 DEF Turns
  <2> HIDE DEF last
  <2>5. g \in [0..(m + 1) -> A] /\ g[0] = first
    BY <2>2, <2>4 DEF IsRun
  <2>6. ASSUME NEW i \in 1..(m + 1) PROVE g[i] = step[i][g[i - 1]]
    <3>1. CASE i = m + 1
      <4>1. g[i] = last /\ g[i - 1] = f[m]
        BY <3>1
      <4> QED
        BY <3>1, <4>1 DEF last
    <3>2. CASE i \in 1..m
      <4>1. g[i] = f[i] /\ g[i - 1] = f[i - 1]
        BY <3>2
      <4> QED
        BY <2>2, <3>2, <4>1 DEF IsRun
    <3> QED
      BY <3>1, <3>2
  <2>7. Loop(m + 1, g)
    BY <2>5, <2>6 DEF IsRun
  <2> HIDE DEF Loop, g
  <2> QED
    BY <2>7
<1>3. T = Nat
  <2> HIDE DEF T
  <2>1. T \in SUBSET Nat
    BY DEF T
  <2> QED
    BY <1>1, <1>2, <2>1, SetInduction
<1> QED
  BY <1>3

\* What Kept keeps of s, one index at a time.
KeepsTo(kept, s, indices) ==
  /\ kept[0] = <<>>
  /\ \A n \in 1..Len(s) :
        kept[n] = IF n \in indices THEN Append(kept[n - 1], s[n]) ELSE kept[n - 1]

\* Kept is the last of such sequences.
LEMMA KeptSteps ==
  ASSUME NEW A, NEW s \in Seq(A), NEW indices
  PROVE  \E kept : /\ kept \in [0..Len(s) -> Seq(A)] /\ KeepsTo(kept, s, indices)
                   /\ S!Kept(s, indices) = kept[Len(s)]
<1> DEFINE m == Len(s)
           next(i, y) == IF i \in indices THEN Append(y, s[i]) ELSE y
           step == [i \in 1..m |-> [y \in Seq(A) |-> next(i, y)]]
           Loop(f) == f = [i \in 0..m |-> IF i = 0 THEN <<>>
                                          ELSE IF i \in indices THEN Append(f[i - 1], s[i])
                                          ELSE f[i - 1]]
<1>0. m \in Nat
  OBVIOUS
<1>1. \A i \in 1..m : \A y \in Seq(A) : next(i, y) \in Seq(A)
  OBVIOUS
<1>2. PICK f : /\ f \in [0..m -> Seq(A)] /\ f[0] = <<>>
               /\ \A i \in 1..m : f[i] = next(i, f[i - 1])
  <2> HIDE DEF next
  <2>1. Turns(step, m, Seq(A))
    BY <1>1 DEF Turns
  <2>2. <<>> \in Seq(A)
    OBVIOUS
  <2> HIDE DEF m
  <2>3. PICK f : IsRun(f, m, Seq(A), <<>>, step)
    <3> HIDE DEF step
    <3> QED
      BY <1>0, <2>1, <2>2, Iterated
  <2>4. ASSUME NEW i \in 1..m PROVE f[i] = next(i, f[i - 1])
    <3>1. i - 1 \in 0..m
      BY <1>0
    <3>2. f[i - 1] \in Seq(A) /\ f[i] = step[i][f[i - 1]]
      BY <2>3, <3>1 DEF IsRun
    <3> QED
      BY <3>2
  <2> QED
    BY <2>3, <2>4 DEF IsRun
<1> HIDE DEF m
<1>3. Loop(f)
  <2> DEFINE h == [i \in 0..m |-> IF i = 0 THEN <<>> ELSE next(i, f[i - 1])]
  <2>1. ASSUME NEW i \in 0..m PROVE f[i] = h[i]
    <3> HIDE DEF next
    <3>1. i # 0 => i \in 1..m
      BY <1>0
    <3> QED
      BY <1>2, <3>1
  <2>2. f = [i \in 0..m |-> f[i]] /\ h = [i \in 0..m |-> h[i]]
    BY <1>2
  <2>3. f = h
    <3> HIDE DEF h
    <3> QED
      BY <2>1, <2>2
  <2> QED
    BY <2>3 DEF h
<1> DEFINE g == CHOOSE g : Loop(g)
<1>4. Loop(g)
  <2> HIDE DEF Loop
  <2> QED
    BY <1>3
<1>5. S!Kept(s, indices) = g[m]
  BY DEF S!Kept, m
<1> HIDE DEF g
<1>6. ASSUME NEW i \in 1..m PROVE g[i] = next(i, g[i - 1])
  <2>1. i \in 0..m /\ i # 0
    BY <1>0
  <2> QED
    BY <1>4, <2>1
<1>7. g[0] = <<>>
  BY <1>0, <1>4
<1>8. KeepsTo(g, s, indices)
  BY <1>6, <1>7 DEF KeepsTo, m
<1> DEFINE T == {i \in Nat : i \in 0..m => g[i] \in Seq(A)}
<1>9. T = Nat
  <2>1. 0 \in T
    <3>1. <<>> \in Seq(A)
      OBVIOUS
    <3>2. g[0] \in Seq(A)
      BY <1>7, <3>1
    <3> QED
      BY <3>2
  <2>2. ASSUME NEW i \in T PROVE i + 1 \in T
    <3>1. SUFFICES ASSUME i + 1 \in 0..m PROVE g[i + 1] \in Seq(A)
      OBVIOUS
    <3> DEFINE j == i + 1
    <3>2. j \in 1..m /\ j - 1 = i /\ i \in 0..m
      BY <1>0, <3>1
    <3> HIDE DEF j
    <3>3. g[i] \in Seq(A) /\ g[j] = next(j, g[i])
      BY <1>6, <3>2
    <3>4. g[j] \in Seq(A)
      <4> HIDE DEF next
      <4> QED
        BY <1>1, <3>2, <3>3
    <3> QED
      BY <3>4 DEF j
  <2>3. T \in SUBSET Nat
    OBVIOUS
  <2> HIDE DEF T
  <2> QED
    BY <2>1, <2>2, <2>3, SetInduction
<1>10. g \in [0..m -> Seq(A)]
  <2>1. g = [i \in 0..m |-> g[i]]
    BY <1>4
  <2>2. \A i \in 0..m : g[i] \in Seq(A)
    BY <1>9, <1>0
  <2> QED
    BY <2>1, <2>2
<1> QED
  BY <1>5, <1>8, <1>10 DEF m

\* The indices of what is kept, in order.
Enumerates(at, n, indices) ==
  /\ at \in [1..n -> indices]
  /\ \A i, j \in 1..n : i < j => at[i] < at[j]
  /\ \A k \in indices : \E i \in 1..n : at[i] = k

\* Of two sequences of one length, the same is kept.
LEMMA KeptIs ==
  ASSUME NEW A, NEW B, NEW s \in Seq(A), NEW t \in Seq(B), Len(s) = Len(t),
         NEW indices \in SUBSET (1..Len(s))
  PROVE  /\ S!Kept(s, indices) \in Seq(A) /\ S!Kept(t, indices) \in Seq(B)
         /\ Len(S!Kept(t, indices)) = Len(S!Kept(s, indices))
         /\ \E at : /\ Enumerates(at, Len(S!Kept(s, indices)), indices)
                    /\ \A i \in 1..Len(S!Kept(s, indices)) :
                          /\ S!Kept(s, indices)[i] = s[at[i]]
                          /\ S!Kept(t, indices)[i] = t[at[i]]
<1> DEFINE m == Len(s)
           upTo(n) == indices \cap (1..n)
<1>0. m \in Nat /\ Len(t) = m
  OBVIOUS
<1>1. PICK f : /\ f \in [0..m -> Seq(A)] /\ KeepsTo(f, s, indices)
               /\ S!Kept(s, indices) = f[m]
  <2>1. s \in Seq(A)
    OBVIOUS
  <2> QED
    BY <2>1, KeptSteps, Zenon
<1>2. PICK g : /\ g \in [0..m -> Seq(B)] /\ KeepsTo(g, t, indices)
               /\ S!Kept(t, indices) = g[m]
  <2>1. PICK h : /\ h \in [0..Len(t) -> Seq(B)] /\ KeepsTo(h, t, indices)
                 /\ S!Kept(t, indices) = h[Len(t)]
    <3>1. t \in Seq(B)
      OBVIOUS
    <3> QED
      BY <3>1, KeptSteps, Zenon
  <2> QED
    BY <1>0, <2>1
<1> DEFINE Same(n, at) ==
             /\ Enumerates(at, Len(f[n]), upTo(n)) /\ Len(g[n]) = Len(f[n])
             /\ \A i \in 1..Len(f[n]) : f[n][i] = s[at[i]] /\ g[n][i] = t[at[i]]
           T == {n \in Nat : n \in 0..m => \E at : Same(n, at)}
<1>3. \A n \in 1..m : /\ n \in indices => /\ f[n] = Append(f[n - 1], s[n])
                                            /\ g[n] = Append(g[n - 1], t[n])
                      /\ n \notin indices => f[n] = f[n - 1] /\ g[n] = g[n - 1]
  BY <1>0, <1>1, <1>2 DEF KeepsTo
<1>4. f[0] = <<>> /\ g[0] = <<>>
  BY <1>1, <1>2 DEF KeepsTo
<1>5. \A n \in 1..m : s[n] \in A /\ t[n] \in B
  BY <1>0
<1> HIDE DEF m
<1>6. 0 \in T
  <2>1. Same(0, [i \in 1..0 |-> 0])
    BY <1>4 DEF Enumerates
  <2> QED
    BY <2>1
<1>7. ASSUME NEW k \in T PROVE k + 1 \in T
  <2>1. SUFFICES ASSUME k + 1 \in 0..m PROVE \E at_ : Same(k + 1, at_)
    <3> HIDE DEF Same
    <3> QED
      OBVIOUS
  <2> DEFINE n == k + 1
  <2>2. /\ n \in 1..m /\ n - 1 = k /\ k \in 0..m /\ k < n
        /\ upTo(n) \ {n} = upTo(k) /\ n \notin upTo(k)
    BY <2>1, <1>0
  <2>3. PICK at : Same(k, at)
    BY <2>2
  <2>4. \A i \in upTo(k) : i \in 1..k
    OBVIOUS
  <2> HIDE DEF n
  <2>5. f[k] \in Seq(A) /\ g[k] \in Seq(B)
    BY <1>1, <1>2, <2>2
  <2> DEFINE l == Len(f[k])
             next == [i \in 1..(l + 1) |-> IF i = l + 1 THEN n ELSE at[i]]
  <2>6. l \in Nat /\ Len(g[k]) = l
    BY <2>3, <2>5
  <2>7. /\ at \in [1..l -> upTo(k)]
        /\ \A i, j \in 1..l : i < j => at[i] < at[j]
        /\ \A i \in upTo(k) : \E j \in 1..l : at[j] = i
        /\ \A i \in 1..l : f[k][i] = s[at[i]] /\ g[k][i] = t[at[i]]
    BY <2>3 DEF Enumerates
  <2>8. CASE n \in indices
    <3>1. f[n] = Append(f[k], s[n]) /\ g[n] = Append(g[k], t[n])
      BY <1>3, <2>2, <2>8
    <3>2. /\ Len(f[n]) = l + 1 /\ Len(g[n]) = l + 1
          /\ f[n][l + 1] = s[n] /\ g[n][l + 1] = t[n]
          /\ \A i \in 1..l : f[n][i] = f[k][i] /\ g[n][i] = g[k][i]
      <4>1. s[n] \in A /\ t[n] \in B
        BY <1>5, <2>2
      <4> QED
        BY <2>5, <2>6, <3>1, <4>1
    <3> HIDE DEF l
    <3>3. \A i \in 1..(l + 1) : i = l + 1 \/ i \in 1..l
      BY <2>6
    <3>4. upTo(n) = upTo(k) \cup {n}
      BY <2>2, <2>8
    <3>5. next[l + 1] = n /\ \A i \in 1..l : next[i] = at[i]
      BY <2>6
    <3>6. next \in [1..(l + 1) -> upTo(n)]
      BY <2>7, <3>3, <3>4
    <3> HIDE DEF next
    <3>7. ASSUME NEW i \in 1..(l + 1), NEW j \in 1..(l + 1), i < j PROVE next[i] < next[j]
      <4>1. i \in 1..l
        BY <2>6, <3>7
      <4>2. at[i] \in 1..k
        BY <2>4, <2>7, <4>1
      <4>3. CASE j = l + 1
        BY <2>2, <3>5, <4>1, <4>2, <4>3
      <4>4. CASE j \in 1..l
        BY <2>7, <3>5, <3>7, <4>1, <4>4
      <4> QED
        BY <3>3, <4>3, <4>4
    <3>8. \A i \in upTo(n) : \E j \in 1..(l + 1) : next[j] = i
      <4> SUFFICES ASSUME NEW i \in upTo(n) PROVE \E j \in 1..(l + 1) : next[j] = i
        OBVIOUS
      <4> HIDE DEF upTo
      <4>1. CASE i = n
        BY <2>6, <3>5, <4>1
      <4>2. CASE i \in upTo(k)
        <5>1. PICK j \in 1..l : at[j] = i
          BY <2>7, <4>2
        <5>2. j \in 1..(l + 1)
          BY <2>6
        <5> QED
          BY <3>5, <5>1, <5>2
      <4> QED
        BY <3>4, <4>1, <4>2
    <3>9. \A i \in 1..(l + 1) : f[n][i] = s[next[i]] /\ g[n][i] = t[next[i]]
      BY <2>7, <3>2, <3>3, <3>5
    <3>10. Enumerates(next, l + 1, upTo(n))
      BY <3>6, <3>7, <3>8 DEF Enumerates
    <3>11. Same(n, next)
      BY <3>2, <3>9, <3>10
    <3> QED
      BY <3>11 DEF n
  <2>9. CASE n \notin indices
    <3>1. f[n] = f[k] /\ g[n] = g[k]
      BY <1>3, <2>2, <2>9
    <3>2. upTo(n) = upTo(k)
      BY <2>2, <2>9
    <3> HIDE DEF upTo
    <3>3. Same(n, at)
      BY <2>3, <3>1, <3>2
    <3> HIDE DEF Same
    <3> QED
      BY <3>3 DEF n
  <2> QED
    BY <2>8, <2>9
<1>8. T = Nat
  <2>1. T \in SUBSET Nat
    OBVIOUS
  <2> HIDE DEF T
  <2> QED
    BY <1>6, <1>7, <2>1, SetInduction
<1>9. PICK at : Same(m, at)
  <2>1. m \in T
    BY <1>0, <1>8
  <2>2. m \in 0..m
    BY <1>0
  <2> HIDE DEF Same
  <2> QED
    BY <2>1, <2>2
<1>10. upTo(m) = indices
  BY DEF m
<1>11. f[m] \in Seq(A) /\ g[m] \in Seq(B)
  BY <1>0, <1>1, <1>2
<1> HIDE DEF upTo
<1>12. \A i \in 1..Len(f[m]) : f[m][i] = s[at[i]] /\ g[m][i] = t[at[i]]
  BY <1>9
<1>13. Enumerates(at, Len(f[m]), indices) /\ Len(g[m]) = Len(f[m])
  BY <1>9, <1>10
<1> QED
  BY <1>1, <1>2, <1>11, <1>12, <1>13

\* Both instances of Kept are one.
LEMMA KeptOfContacts ==
  ASSUME NEW s, NEW indices
  PROVE  C!Kept(s, indices) = S!Kept(s, indices)
BY DEF C!Kept, S!Kept

\* The first text that is not empty.
LEMMA FirstTextIs ==
  ASSUME NEW n \in Nat, NEW texts, DOMAIN texts = 1..n
  PROVE  \/ S!FirstText(texts) = "" /\ \A i \in 1..n : texts[i] = ""
         \/ \E k \in 1..n : /\ S!FirstText(texts) = texts[k] /\ texts[k] # ""
                            /\ \A j \in 1..(k - 1) : texts[j] = ""
<1> DEFINE found == {i \in DOMAIN texts : texts[i] # ""}
           first == CHOOSE i \in found : \A j \in found : i <= j
<1>1. CASE found = {}
  <2>1. S!FirstText(texts) = ""
    BY <1>1 DEF S!FirstText
  <2> QED
    BY <1>1, <2>1
<1>2. CASE found # {}
  <2>1. found \in SUBSET Nat
    <3>1. \A i \in 1..n : i \in Nat
      OBVIOUS
    <3> QED
      BY <3>1
  <2>2. \E i \in found : \A j \in found : i <= j
    <3> HIDE DEF found
    <3> QED
      BY <1>2, <2>1, Least
  <2>3. first \in found /\ \A j \in found : first <= j
    <3> HIDE DEF found
    <3> QED
      BY <2>2
  <2>4. S!FirstText(texts) = texts[first]
    BY <1>2 DEF S!FirstText
  <2> HIDE DEF first
  <2>5. first \in 1..n
    BY <2>3
  <2>6. texts[first] # ""
    BY <2>3
  <2>7. ASSUME NEW j \in 1..(first - 1) PROVE texts[j] = ""
    <3>1. first \in Nat /\ first <= n
      <4> HIDE DEF found
      <4> QED
        BY <2>5
    <3>2. j \in 1..n /\ ~(first <= j)
      BY <3>1
    <3> HIDE DEF found
    <3>3. j \notin found
      BY <2>3, <3>2
    <3> QED
      BY <3>2, <3>3 DEF found
  <2> QED
    BY <2>4, <2>5, <2>6, <2>7
<1> QED
  BY <1>1, <1>2

\* The same of the other instance.
LEMMA FirstTextOfContacts ==
  ASSUME NEW texts
  PROVE  C!FirstText(texts) = S!FirstText(texts)
BY DEF C!FirstText, S!FirstText

-----------------------------------------------------------------------------
(* The first ID in a value *)

\* Json, one level of nesting at a time.
LEMMA JsonSteps ==
  /\ S!Json[0] = Scalars
  /\ \A d \in 1..Nesting :
        S!Json[d] = Scalars \cup [kind : {"array"}, items : Seq(S!Json[d - 1])]
<1> DEFINE next(B) == Scalars \cup [kind : {"array"}, items : Seq(B)]
           Loop(m, f) == f = [d \in 0..m |-> IF d = 0 THEN Scalars ELSE next(f[d - 1])]
           T == {m \in Nat : \E f : Loop(m, f)}
<1>1. 0 \in T
  <2>1. Loop(0, [d \in 0..0 |-> Scalars])
    OBVIOUS
  <2> HIDE DEF Loop
  <2> QED
    BY <2>1
<1>2. ASSUME NEW m \in T PROVE m + 1 \in T
  <2>1. PICK f : Loop(m, f)
    OBVIOUS
  <2> DEFINE g == [d \in 0..(m + 1) |-> IF d = m + 1 THEN next(f[m]) ELSE f[d]]
  <2> HIDE DEF next
  <2>2. ASSUME NEW d \in 0..(m + 1)
        PROVE  g[d] = IF d = 0 THEN Scalars ELSE next(g[d - 1])
    <3>1. CASE d = m + 1
      <4>1. d # 0 /\ g[d - 1] = f[m]
        BY <3>1
      <4> QED
        BY <3>1, <4>1
    <3>2. CASE d \in 0..m
      <4>1. d # 0 => d - 1 \in 0..m /\ d - 1 # m + 1 /\ d - 1 \in 0..(m + 1)
        BY <3>2
      <4>2. g[d] = f[d] /\ (d # 0 => g[d - 1] = f[d - 1])
        BY <3>2, <4>1
      <4> QED
        BY <2>1, <3>2, <4>2
    <3> QED
      BY <3>1, <3>2
  <2>3. Loop(m + 1, g)
    <3> DEFINE h == [d \in 0..(m + 1) |-> IF d = 0 THEN Scalars ELSE next(g[d - 1])]
    <3>1. \A d \in 0..(m + 1) : g[d] = h[d]
      <4> HIDE DEF g
      <4> QED
        BY <2>2
    <3>2. g = [d \in 0..(m + 1) |-> g[d]] /\ h = [d \in 0..(m + 1) |-> h[d]]
      OBVIOUS
    <3>3. g = h
      <4> HIDE DEF g, h
      <4> QED
        BY <3>1, <3>2
    <3> HIDE DEF g
    <3> QED
      BY <3>3
  <2>4. m + 1 \in Nat
    OBVIOUS
  <2> HIDE DEF Loop, g
  <2> QED
    BY <2>3, <2>4
<1>3. T = Nat
  <2>1. T \in SUBSET Nat
    OBVIOUS
  <2> HIDE DEF T
  <2> QED
    BY <1>1, <1>2, <2>1, SetInduction
<1>4. Nesting \in Nat
  BY ParsersAssumption
<1>5. \E f : Loop(Nesting, f)
  <2>1. Nesting \in T
    BY <1>3, <1>4
  <2> HIDE DEF Loop
  <2> QED
    BY <2>1
<1> DEFINE j == CHOOSE f : Loop(Nesting, f)
<1>6. Loop(Nesting, j)
  <2> HIDE DEF Loop
  <2> QED
    BY <1>5
<1>7. S!Json = j
  BY DEF S!Json
<1> HIDE DEF j, next
<1>8. \A d \in 0..Nesting : j[d] = IF d = 0 THEN Scalars ELSE next(j[d - 1])
  BY <1>6
<1>9. 0 \in 0..Nesting /\ \A d \in 1..Nesting : d \in 0..Nesting /\ d # 0
  BY <1>4
<1> QED
  BY <1>7, <1>8, <1>9 DEF next

\* What is nested less is nested at most as deep.
LEMMA JsonGrows ==
  \A d \in 0..Nesting : S!Json[d] \subseteq S!Json[Nesting]
<1> DEFINE T == {d \in Nat : d + 1 \in 0..Nesting => S!Json[d] \subseteq S!Json[d + 1]}
           U == {k \in Nat : k \in 0..Nesting => S!Json[Nesting - k] \subseteq S!Json[Nesting]}
<1>1. Nesting \in Nat
  BY ParsersAssumption
<1>2. T = Nat
  <2>1. 0 \in T
    <3>1. 1 \in 0..Nesting => 1 \in 1..Nesting /\ 1 - 1 = 0 /\ 0 + 1 = 1
      OBVIOUS
    <3>2. 1 \in 0..Nesting => S!Json[0] \subseteq S!Json[1]
      BY <3>1, JsonSteps
    <3> QED
      BY <3>2
  <2>2. ASSUME NEW d \in T PROVE d + 1 \in T
    <3>1. SUFFICES ASSUME d + 1 + 1 \in 0..Nesting PROVE S!Json[d + 1] \subseteq S!Json[d + 1 + 1]
      OBVIOUS
    <3> DEFINE e == d + 1
    <3>2. /\ d + 1 \in 0..Nesting
          /\ e \in 1..Nesting /\ e - 1 = d /\ e + 1 \in 1..Nesting /\ (e + 1) - 1 = e
      BY <1>1, <3>1
    <3>3. S!Json[d] \subseteq S!Json[e]
      BY <3>2
    <3> HIDE DEF e
    <3>4. S!Json[e] = Scalars \cup [kind : {"array"}, items : Seq(S!Json[d])]
      BY <3>2, JsonSteps
    <3>5. S!Json[e + 1] = Scalars \cup [kind : {"array"}, items : Seq(S!Json[e])]
      BY <3>2, JsonSteps
    <3>6. Seq(S!Json[d]) \subseteq Seq(S!Json[e])
      <4> SUFFICES ASSUME NEW s \in Seq(S!Json[d]) PROVE s \in Seq(S!Json[e])
        OBVIOUS
      <4>1. \A i \in 1..Len(s) : s[i] \in S!Json[e]
        BY <3>3
      <4> QED
        BY <4>1
    <3>7. S!Json[e] \subseteq S!Json[e + 1]
      BY <3>4, <3>5, <3>6
    <3> QED
      BY <3>7 DEF e
  <2>3. T \in SUBSET Nat
    OBVIOUS
  <2> HIDE DEF T
  <2> QED
    BY <2>1, <2>2, <2>3, SetInduction
<1>3. U = Nat
  <2>1. 0 \in U
    <3>1. Nesting - 0 = Nesting
      BY <1>1
    <3> QED
      BY <3>1
  <2>2. ASSUME NEW k \in U PROVE k + 1 \in U
    <3>1. SUFFICES ASSUME k + 1 \in 0..Nesting
                   PROVE  S!Json[Nesting - (k + 1)] \subseteq S!Json[Nesting]
      OBVIOUS
    <3> DEFINE d == Nesting - (k + 1)
    <3>2. k \in 0..Nesting /\ d \in Nat /\ d + 1 = Nesting - k /\ d + 1 \in 0..Nesting
      BY <1>1, <3>1
    <3>3. S!Json[Nesting - k] \subseteq S!Json[Nesting]
      BY <3>2
    <3> HIDE DEF d
    <3>4. S!Json[d] \subseteq S!Json[d + 1]
      BY <1>2, <3>2
    <3>5. S!Json[d] \subseteq S!Json[Nesting]
      BY <3>2, <3>3, <3>4
    <3> QED
      BY <3>5 DEF d
  <2>3. U \in SUBSET Nat
    OBVIOUS
  <2> HIDE DEF U
  <2> QED
    BY <2>1, <2>2, <2>3, SetInduction
<1> QED
  <2> SUFFICES ASSUME NEW d \in 0..Nesting PROVE S!Json[d] \subseteq S!Json[Nesting]
    OBVIOUS
  <2> DEFINE k == Nesting - d
  <2>1. k \in Nat /\ k \in 0..Nesting /\ Nesting - k = d
    BY <1>1
  <2> HIDE DEF k
  <2>2. S!Json[Nesting - k] \subseteq S!Json[Nesting]
    BY <1>3, <2>1
  <2> QED
    BY <2>1, <2>2

\* A value is a scalar, or an array of values that are nested less.
LEMMA JsonCases ==
  ASSUME NEW d \in 0..Nesting, NEW v \in S!Json[d]
  PROVE  \/ v \in Scalars /\ ~S!IsArray(v)
         \/ d \in 1..Nesting /\ S!IsArray(v) /\ v.items \in Seq(S!Json[d - 1]) /\ ~S!IsString(v)
<1>0. Nesting \in Nat /\ \A w \in Scalars : ~S!IsArray(w)
  BY ParsersAssumption
<1>1. CASE v \in Scalars
  BY <1>0, <1>1
<1>2. CASE v \notin Scalars
  <2>1. d # 0
    BY <1>2, JsonSteps
  <2>2. d \in 1..Nesting
    BY <1>0, <2>1
  <2>3. v \in [kind : {"array"}, items : Seq(S!Json[d - 1])]
    BY <1>2, <2>2, JsonSteps
  <2>4. v.kind = "array" /\ v.items \in Seq(S!Json[d - 1])
    BY <2>3
  <2> QED
    BY <2>2, <2>4 DEF S!IsArray, S!IsString
<1> QED
  BY <1>1, <1>2
\* The first ID of a value, from those of its items.
LEMMA IDSteps ==
  ASSUME NEW d \in 0..Nesting, NEW v \in S!Json[d]
  PROVE  S!FirstIDString[d][v] =
            IF S!IsArray(v)
              THEN S!FirstText([i \in DOMAIN v.items |-> S!FirstIDString[d - 1][v.items[i]]])
            ELSE IF S!IsString(v) /\ S!LooksLikePlaceID(v) THEN S!Text(v) ELSE ""
<1> DEFINE value(w, y) ==
             IF S!IsArray(w)
               THEN S!FirstText([i \in DOMAIN w.items |-> y[w.items[i]]])
             ELSE IF S!IsString(w) /\ S!LooksLikePlaceID(w) THEN S!Text(w) ELSE ""
           next(e, y) == [w \in S!Json[e] |-> value(w, y)]
           Loop(m, f) == f = [e \in 0..m |-> next(e, f[e - 1])]
           T == {m \in Nat : \E f : Loop(m, f)}
<1>1. Nesting \in Nat
  BY ParsersAssumption
<1>2. \A y, z : next(0, y) = next(0, z)
  <2>1. \A w \in S!Json[0] : ~S!IsArray(w)
    BY ParsersAssumption, JsonSteps
  <2>2. \A w \in S!Json[0] : \A y, z : value(w, y) = value(w, z)
    BY <2>1
  <2> HIDE DEF value
  <2> QED
    BY <2>2
<1>3. 0 \in T
  <2> HIDE DEF next
  <2> DEFINE g == [e \in 0..0 |-> next(0, <<>>)]
  <2>1. Loop(0, g)
    <3> DEFINE h == [e \in 0..0 |-> next(e, g[e - 1])]
    <3>1. \A e \in 0..0 : g[e] = h[e]
      BY <1>2
    <3>2. g = [e \in 0..0 |-> g[e]] /\ h = [e \in 0..0 |-> h[e]]
      OBVIOUS
    <3>3. g = h
      <4> HIDE DEF g, h
      <4> QED
        BY <3>1, <3>2
    <3> HIDE DEF g
    <3> QED
      BY <3>3
  <2> HIDE DEF Loop, g
  <2> QED
    BY <2>1
<1>4. ASSUME NEW m \in T PROVE m + 1 \in T
  <2>1. PICK f : Loop(m, f)
    OBVIOUS
  <2> DEFINE g == [e \in 0..(m + 1) |-> IF e = m + 1 THEN next(m + 1, f[m]) ELSE f[e]]
  <2> HIDE DEF next
  <2>2. ASSUME NEW e \in 0..(m + 1)
        PROVE  g[e] = next(e, g[e - 1])
    <3>1. CASE e = m + 1
      <4>1. g[e - 1] = f[m]
        BY <3>1
      <4> QED
        BY <3>1, <4>1
    <3>2. CASE e \in 1..m
      <4>1. e - 1 \in 0..m /\ e - 1 # m + 1 /\ e - 1 \in 0..(m + 1) /\ e \in 0..m
        BY <3>2
      <4>2. g[e] = f[e] /\ g[e - 1] = f[e - 1]
        BY <3>2, <4>1
      <4> QED
        BY <2>1, <4>1, <4>2
    <3>3. CASE e = 0
      <4>1. g[e] = f[e] /\ f[e] = next(0, f[e - 1])
        BY <2>1, <3>3
      <4>2. next(0, f[e - 1]) = next(0, g[e - 1])
        BY <1>2
      <4> QED
        BY <3>3, <4>1, <4>2
    <3> QED
      BY <3>1, <3>2, <3>3
  <2>3. Loop(m + 1, g)
    <3> DEFINE h == [e \in 0..(m + 1) |-> next(e, g[e - 1])]
    <3>1. \A e \in 0..(m + 1) : g[e] = h[e]
      <4> HIDE DEF g
      <4> QED
        BY <2>2
    <3>2. g = [e \in 0..(m + 1) |-> g[e]] /\ h = [e \in 0..(m + 1) |-> h[e]]
      OBVIOUS
    <3>3. g = h
      <4> HIDE DEF g, h
      <4> QED
        BY <3>1, <3>2
    <3> HIDE DEF g
    <3> QED
      BY <3>3
  <2>4. m + 1 \in Nat
    OBVIOUS
  <2> HIDE DEF Loop, g
  <2> QED
    BY <2>3, <2>4
<1>5. T = Nat
  <2>1. T \in SUBSET Nat
    OBVIOUS
  <2> HIDE DEF T
  <2> QED
    BY <1>3, <1>4, <2>1, SetInduction
<1>6. \E f : Loop(Nesting, f)
  <2>1. Nesting \in T
    BY <1>1, <1>5
  <2> HIDE DEF Loop
  <2> QED
    BY <2>1
<1> DEFINE j == CHOOSE f : Loop(Nesting, f)
<1>7. Loop(Nesting, j)
  <2> HIDE DEF Loop
  <2> QED
    BY <1>6
<1>8. S!FirstIDString = j
  BY DEF S!FirstIDString
<1> HIDE DEF j
<1>9. j[d] = next(d, j[d - 1])
  <2> HIDE DEF next
  <2> QED
    BY <1>7
<1>10. j[d][v] = value(v, j[d - 1])
  <2> HIDE DEF value
  <2> QED
    BY <1>9
<1> QED
  BY <1>8, <1>10

\* The strings in a value, from those in its items.
LEMMA LeavesSteps ==
  ASSUME NEW d \in 0..Nesting, NEW v \in S!Json[d]
  PROVE  S!Leaves[d][v] =
            IF S!IsArray(v)
              THEN UNION {{<<<<i>> \o l[1], l[2]>> : l \in S!Leaves[d - 1][v.items[i]]} :
                            i \in DOMAIN v.items}
            ELSE IF S!IsString(v) THEN {<<<<>>, v>>} ELSE {}
<1> DEFINE value(w, y) ==
             IF S!IsArray(w)
               THEN UNION {{<<<<i>> \o l[1], l[2]>> : l \in y[w.items[i]]} :
                             i \in DOMAIN w.items}
             ELSE IF S!IsString(w) THEN {<<<<>>, w>>} ELSE {}
           next(e, y) == [w \in S!Json[e] |-> value(w, y)]
           Loop(m, f) == f = [e \in 0..m |-> next(e, f[e - 1])]
           T == {m \in Nat : \E f : Loop(m, f)}
<1>1. Nesting \in Nat
  BY ParsersAssumption
<1>2. \A y, z : next(0, y) = next(0, z)
  <2>1. \A w \in S!Json[0] : ~S!IsArray(w)
    BY ParsersAssumption, JsonSteps
  <2>2. \A w \in S!Json[0] : \A y, z : value(w, y) = value(w, z)
    BY <2>1
  <2> HIDE DEF value
  <2> QED
    BY <2>2
<1>3. 0 \in T
  <2> HIDE DEF next
  <2> DEFINE g == [e \in 0..0 |-> next(0, <<>>)]
  <2>1. Loop(0, g)
    <3> DEFINE h == [e \in 0..0 |-> next(e, g[e - 1])]
    <3>1. \A e \in 0..0 : g[e] = h[e]
      BY <1>2
    <3>2. g = [e \in 0..0 |-> g[e]] /\ h = [e \in 0..0 |-> h[e]]
      OBVIOUS
    <3>3. g = h
      <4> HIDE DEF g, h
      <4> QED
        BY <3>1, <3>2
    <3> HIDE DEF g
    <3> QED
      BY <3>3
  <2> HIDE DEF Loop, g
  <2> QED
    BY <2>1
<1>4. ASSUME NEW m \in T PROVE m + 1 \in T
  <2>1. PICK f : Loop(m, f)
    OBVIOUS
  <2> DEFINE g == [e \in 0..(m + 1) |-> IF e = m + 1 THEN next(m + 1, f[m]) ELSE f[e]]
  <2> HIDE DEF next
  <2>2. ASSUME NEW e \in 0..(m + 1)
        PROVE  g[e] = next(e, g[e - 1])
    <3>1. CASE e = m + 1
      <4>1. g[e - 1] = f[m]
        BY <3>1
      <4> QED
        BY <3>1, <4>1
    <3>2. CASE e \in 1..m
      <4>1. e - 1 \in 0..m /\ e - 1 # m + 1 /\ e - 1 \in 0..(m + 1) /\ e \in 0..m
        BY <3>2
      <4>2. g[e] = f[e] /\ g[e - 1] = f[e - 1]
        BY <3>2, <4>1
      <4> QED
        BY <2>1, <4>1, <4>2
    <3>3. CASE e = 0
      <4>1. g[e] = f[e] /\ f[e] = next(0, f[e - 1])
        BY <2>1, <3>3
      <4>2. next(0, f[e - 1]) = next(0, g[e - 1])
        BY <1>2
      <4> QED
        BY <3>3, <4>1, <4>2
    <3> QED
      BY <3>1, <3>2, <3>3
  <2>3. Loop(m + 1, g)
    <3> DEFINE h == [e \in 0..(m + 1) |-> next(e, g[e - 1])]
    <3>1. \A e \in 0..(m + 1) : g[e] = h[e]
      <4> HIDE DEF g
      <4> QED
        BY <2>2
    <3>2. g = [e \in 0..(m + 1) |-> g[e]] /\ h = [e \in 0..(m + 1) |-> h[e]]
      OBVIOUS
    <3>3. g = h
      <4> HIDE DEF g, h
      <4> QED
        BY <3>1, <3>2
    <3> HIDE DEF g
    <3> QED
      BY <3>3
  <2>4. m + 1 \in Nat
    OBVIOUS
  <2> HIDE DEF Loop, g
  <2> QED
    BY <2>3, <2>4
<1>5. T = Nat
  <2>1. T \in SUBSET Nat
    OBVIOUS
  <2> HIDE DEF T
  <2> QED
    BY <1>3, <1>4, <2>1, SetInduction
<1>6. \E f : Loop(Nesting, f)
  <2>1. Nesting \in T
    BY <1>1, <1>5
  <2> HIDE DEF Loop
  <2> QED
    BY <2>1
<1> DEFINE j == CHOOSE f : Loop(Nesting, f)
<1>7. Loop(Nesting, j)
  <2> HIDE DEF Loop
  <2> QED
    BY <1>6
<1>8. S!Leaves = j
  BY DEF S!Leaves
<1> HIDE DEF j
<1>9. j[d] = next(d, j[d - 1])
  <2> HIDE DEF next
  <2> QED
    BY <1>7
<1>10. j[d][v] = value(v, j[d - 1])
  <2> HIDE DEF value
  <2> QED
    BY <1>9
<1> QED
  BY <1>8, <1>10

\* Paths are compared by their first difference.
LEMMA EarlierBehind ==
  ASSUME NEW i \in Nat, NEW j \in Nat, NEW p \in Seq(Nat), NEW q \in Seq(Nat)
  PROVE  /\ i < j => S!Earlier(<<i>> \o p, <<j>> \o q)
         /\ S!Earlier(p, q) => S!Earlier(<<i>> \o p, <<i>> \o q)
<1> DEFINE a == <<i>> \o p
           b == <<j>> \o q
           c == <<i>> \o q
<1>1. /\ DOMAIN a = 1..(Len(p) + 1) /\ DOMAIN b = 1..(Len(q) + 1) /\ DOMAIN c = 1..(Len(q) + 1)
      /\ DOMAIN p = 1..Len(p) /\ DOMAIN q = 1..Len(q) /\ Len(p) \in Nat /\ Len(q) \in Nat
  OBVIOUS
<1>2. a[1] = i /\ b[1] = j /\ c[1] = i
  OBVIOUS
<1>3. \A k \in 1..Len(p) : a[k + 1] = p[k]
  OBVIOUS
<1>4. \A k \in 1..Len(q) : c[k + 1] = q[k]
  OBVIOUS
<1> HIDE DEF a, b, c
<1>5. ASSUME i < j PROVE S!Earlier(a, b)
  <2>1. 1 \in DOMAIN a \cap DOMAIN b /\ a[1] < b[1]
    BY <1>1, <1>2, <1>5
  <2>2. \A k \in 1..(1 - 1) : a[k] = b[k]
    OBVIOUS
  <2> QED
    BY <2>1, <2>2 DEF S!Earlier
<1>6. ASSUME S!Earlier(p, q) PROVE S!Earlier(a, c)
  <2>1. PICK k \in DOMAIN p \cap DOMAIN q : p[k] < q[k] /\ \A e \in 1..(k - 1) : p[e] = q[e]
    BY <1>6 DEF S!Earlier
  <2>2. k \in 1..Len(p) /\ k \in 1..Len(q)
    BY <1>1, <2>1
  <2>3. k + 1 \in DOMAIN a \cap DOMAIN c
    BY <1>1, <2>2
  <2>4. a[k + 1] < c[k + 1]
    BY <1>3, <1>4, <2>1, <2>2
  <2>5. ASSUME NEW e \in 1..((k + 1) - 1) PROVE a[e] = c[e]
    <3>1. CASE e = 1
      BY <1>2, <3>1
    <3>2. CASE e # 1
      <4> DEFINE h == e - 1
      <4>1. h \in 1..(k - 1) /\ e = h + 1 /\ h \in 1..Len(p) /\ h \in 1..Len(q)
        BY <1>1, <2>2, <2>5, <3>2, SMTT(30)
      <4> HIDE DEF h
      <4>2. a[h + 1] = p[h] /\ c[h + 1] = q[h]
        BY <1>3, <1>4, <4>1
      <4> QED
        BY <2>1, <4>1, <4>2
    <3> QED
      BY <3>1, <3>2
  <2> QED
    BY <2>3, <2>4, <2>5 DEF S!Earlier
<1> QED
  BY <1>5, <1>6 DEF a, b, c

\* Strings, each behind the path to it.
AreLeaves(leaves) ==
  \A l \in leaves :
    /\ l = <<l[1], l[2]>> /\ l[1] \in Seq(Nat)
    /\ l[2] \in Scalars /\ S!IsString(l[2])

\* An ID is the first of the strings that look like one.
IsFirst(id, leaves) ==
  IF leaves = {} THEN id = ""
  ELSE /\ id # ""
       /\ \E l \in leaves : id = S!Text(l[2]) /\ \A m \in leaves \ {l} : S!Earlier(l[1], m[1])

Behind(i, leaves) == {<<<<i>> \o l[1], l[2]>> : l \in leaves}

\* What has a path into an item has one into the value.
LEMMA LeavesBehind ==
  ASSUME NEW i \in Nat, NEW leaves, AreLeaves(leaves)
  PROVE  AreLeaves(Behind(i, leaves))
<1> SUFFICES ASSUME NEW k \in Behind(i, leaves)
             PROVE  /\ k = <<k[1], k[2]>> /\ k[1] \in Seq(Nat)
                    /\ k[2] \in Scalars /\ S!IsString(k[2])
  BY DEF AreLeaves
<1>1. PICK l \in leaves : k = <<<<i>> \o l[1], l[2]>>
  BY DEF Behind
<1>2. l[1] \in Seq(Nat) /\ l[2] \in Scalars /\ S!IsString(l[2])
  BY DEF AreLeaves
<1>3. k[1] = <<i>> \o l[1] /\ k[2] = l[2]
  BY <1>1
<1>4. <<i>> \o l[1] \in Seq(Nat)
  BY <1>2
<1> QED
  BY <1>1, <1>2, <1>3, <1>4

\* The first ID of some values is that of the first value with one.
LEMMA FirstOfItems ==
  ASSUME NEW n \in Nat, NEW texts, DOMAIN texts = 1..n, NEW sets,
         \A i \in 1..n : AreLeaves(sets[i]) /\ IsFirst(texts[i], sets[i])
  PROVE  IsFirst(S!FirstText(texts), UNION {Behind(i, sets[i]) : i \in 1..n})
<1> DEFINE all == UNION {Behind(i, sets[i]) : i \in 1..n}
           id == S!FirstText(texts)
<1>1. ASSUME NEW k \in all
      PROVE  \E i \in 1..n : \E l \in sets[i] : k = <<<<i>> \o l[1], l[2]>>
  BY DEF Behind
<1>2. CASE id = "" /\ \A i \in 1..n : texts[i] = ""
  <2>1. \A i \in 1..n : sets[i] = {}
    BY <1>2 DEF IsFirst
  <2>2. all = {}
    <3> HIDE DEF all
    <3> QED
      BY <1>1, <2>1
  <2> HIDE DEF all, id
  <2>3. IsFirst(id, all)
    BY <1>2, <2>2 DEF IsFirst
  <2> QED
    BY <2>3 DEF all, id
<1>3. CASE \E k \in 1..n : id = texts[k] /\ texts[k] # "" /\ \A j \in 1..(k - 1) : texts[j] = ""
  <2>1. PICK k \in 1..n : id = texts[k] /\ texts[k] # "" /\ \A j \in 1..(k - 1) : texts[j] = ""
    BY <1>3
  <2>2. sets[k] # {}
    BY <2>1 DEF IsFirst
  <2>3. PICK l \in sets[k] : /\ texts[k] = S!Text(l[2])
                             /\ \A m \in sets[k] \ {l} : S!Earlier(l[1], m[1])
    BY <2>2 DEF IsFirst
  <2> DEFINE first == <<<<k>> \o l[1], l[2]>>
  <2>4. first \in all
    BY SMTT(30) DEF Behind
  <2>5. first[1] = <<k>> \o l[1] /\ first[2] = l[2]
    OBVIOUS
  <2>6. ASSUME NEW m \in all \ {first} PROVE S!Earlier(first[1], m[1])
    <3>1. PICK i \in 1..n : \E q \in sets[i] : m = <<<<i>> \o q[1], q[2]>>
      BY <1>1
    <3>2. PICK q \in sets[i] : m = <<<<i>> \o q[1], q[2]>>
      BY <3>1
    <3>3. m[1] = <<i>> \o q[1]
      BY <3>2
    <3>4. l[1] \in Seq(Nat) /\ q[1] \in Seq(Nat)
      BY DEF AreLeaves
    <3>5. i \notin 1..(k - 1)
      BY <2>1 DEF IsFirst
    <3>6. k \in Nat /\ i \in Nat /\ (k < i \/ i = k)
      BY <3>5
    <3>7. CASE k < i
      BY <2>5, <3>3, <3>4, <3>6, <3>7, EarlierBehind
    <3>8. CASE i = k
      <4>1. q # l
        BY <3>2, <3>8
      <4>2. S!Earlier(l[1], q[1])
        BY <2>3, <3>8, <4>1
      <4> QED
        BY <2>5, <3>3, <3>4, <3>6, <3>8, <4>2, EarlierBehind
    <3> QED
      BY <3>6, <3>7, <3>8
  <2> HIDE DEF all, first, id
  <2>7. IsFirst(id, all)
    BY <2>1, <2>3, <2>4, <2>5, <2>6 DEF IsFirst
  <2> QED
    BY <2>7 DEF all, id
<1>4. \/ id = "" /\ \A i \in 1..n : texts[i] = ""
      \/ \E k \in 1..n : id = texts[k] /\ texts[k] # "" /\ \A j \in 1..(k - 1) : texts[j] = ""
  <2>1. DOMAIN texts = 1..n
    OBVIOUS
  <2> QED
    BY <2>1, FirstTextIs, Zenon
<1> QED
  BY <1>2, <1>3, <1>4

IDs(leaves) == {l \in leaves : S!LooksLikePlaceID(l[2])}

\* What looks like an ID does so behind any path.
LEMMA IDsBehind ==
  ASSUME NEW i, NEW leaves
  PROVE  IDs(Behind(i, leaves)) = Behind(i, IDs(leaves))
<1> DEFINE behind(l) == <<<<i>> \o l[1], l[2]>>
<1>1. \A l : behind(l)[2] = l[2]
  OBVIOUS
<1> HIDE DEF behind
<1>2. Behind(i, leaves) = {behind(l) : l \in leaves}
  BY DEF Behind, behind
<1>3. Behind(i, IDs(leaves)) = {behind(l) : l \in IDs(leaves)}
  BY DEF Behind, behind
<1>4. \A l : S!LooksLikePlaceID(behind(l)[2]) <=> S!LooksLikePlaceID(l[2])
  BY <1>1
<1> HIDE DEF behind
<1> QED
  BY <1>2, <1>3, <1>4 DEF IDs

\* Leaves are strings, and the first ID of a value is the first in it.
LEMMA IDIsFirst ==
  ASSUME NEW d \in 0..Nesting, NEW v \in S!Json[d]
  PROVE  AreLeaves(S!Leaves[d][v]) /\ IsFirst(S!FirstIDString[d][v], IDs(S!Leaves[d][v]))
<1> DEFINE Good(e, w) ==
             AreLeaves(S!Leaves[e][w]) /\ IsFirst(S!FirstIDString[e][w], IDs(S!Leaves[e][w]))
           T == {e \in Nat : e \in 0..Nesting => \A w \in S!Json[e] : Good(e, w)}
<1>1. ASSUME NEW e \in 0..Nesting, NEW w \in S!Json[e], w \in Scalars, ~S!IsArray(w)
      PROVE  Good(e, w)
  <2> DEFINE leaves == IF S!IsString(w) THEN {<<<<>>, w>>} ELSE {}
             id == IF S!IsString(w) /\ S!LooksLikePlaceID(w) THEN S!Text(w) ELSE ""
  <2>1. S!Leaves[e][w] = leaves /\ S!FirstIDString[e][w] = id
    BY <1>1, IDSteps, LeavesSteps
  <2>2. <<<<>>, w>>[1] = <<>> /\ <<<<>>, w>>[2] = w /\ <<>> \in Seq(Nat)
    OBVIOUS
  <2>3. AreLeaves(leaves)
    BY <1>1, <2>2 DEF AreLeaves
  <2>4. IDs(leaves) = IF S!IsString(w) /\ S!LooksLikePlaceID(w) THEN {<<<<>>, w>>} ELSE {}
    BY <2>2 DEF IDs
  <2>5. S!IsString(w) /\ S!LooksLikePlaceID(w) => S!Text(w) # ""
    <3>1. S!IsString(w) => w.len \in Nat /\ (w.text = "" <=> w.len = 0)
      BY <1>1, ParsersAssumption
    <3>2. S!LooksLikePlaceID(w) => w.len # 0
      BY DEF S!LooksLikePlaceID
    <3> QED
      BY <3>1, <3>2 DEF S!Text
  <2> HIDE DEF leaves
  <2>6. IsFirst(id, IDs(leaves))
    BY <2>2, <2>4, <2>5 DEF IsFirst
  <2> QED
    BY <2>1, <2>3, <2>6
<1>2. ASSUME NEW e \in 1..Nesting, NEW w \in S!Json[e], S!IsArray(w),
             w.items \in Seq(S!Json[e - 1]), \A u \in S!Json[e - 1] : Good(e - 1, u)
      PROVE  Good(e, w)
  <2> DEFINE n == Len(w.items)
             below == S!Leaves[e - 1]
             texts == [i \in DOMAIN w.items |-> S!FirstIDString[e - 1][w.items[i]]]
             sets == [i \in 1..n |-> IDs(below[w.items[i]])]
             all == UNION {Behind(i, below[w.items[i]]) : i \in 1..n}
  <2>1. e \in 0..Nesting /\ n \in Nat /\ DOMAIN w.items = 1..n
    BY <1>2
  <2>2. \A i \in 1..n : w.items[i] \in S!Json[e - 1]
    BY <1>2
  <2> HIDE DEF n
  <2>3. S!FirstIDString[e][w] = S!FirstText(texts)
    BY <1>2, <2>1, IDSteps
  <2>4. S!Leaves[e][w] = all
    BY <1>2, <2>1, LeavesSteps DEF Behind
  <2>5. \A i \in 1..n : AreLeaves(below[w.items[i]]) /\ IsFirst(texts[i], sets[i])
    BY <1>2, <2>1, <2>2
  <2>6. \A i \in 1..n : AreLeaves(sets[i])
    BY <2>5 DEF AreLeaves, IDs
  <2>7. DOMAIN texts = 1..n
    BY <2>1
  <2>8. IDs(all) = UNION {Behind(i, sets[i]) : i \in 1..n}
    <3>1. ASSUME NEW i \in 1..n PROVE IDs(Behind(i, below[w.items[i]])) = Behind(i, sets[i])
      BY IDsBehind
    <3>2. IDs(all) = UNION {IDs(Behind(i, below[w.items[i]])) : i \in 1..n}
      BY DEF IDs
    <3> QED
      BY <3>1, <3>2
  <2>9. AreLeaves(all)
    <3>1. \A i \in 1..n : AreLeaves(Behind(i, below[w.items[i]]))
      <4> SUFFICES ASSUME NEW i \in 1..n PROVE AreLeaves(Behind(i, below[w.items[i]]))
        OBVIOUS
      <4>1. i \in Nat
        BY <2>1
      <4> QED
        BY <2>5, <4>1, LeavesBehind
    <3> QED
      BY <3>1 DEF AreLeaves
  <2> HIDE DEF texts, sets, all
  <2>10. IsFirst(S!FirstText(texts), IDs(all))
    BY <2>1, <2>5, <2>6, <2>7, <2>8, FirstOfItems
  <2> QED
    BY <2>3, <2>4, <2>9, <2>10
<1> HIDE DEF Good
<1>3. T = Nat
  <2>1. 0 \in T
    <3>1. ASSUME 0 \in 0..Nesting, NEW w \in S!Json[0] PROVE Good(0, w)
      <4>1. w \in Scalars /\ ~S!IsArray(w)
        BY JsonSteps, ParsersAssumption
      <4> QED
        BY <1>1, <3>1, <4>1
    <3> QED
      BY <3>1
  <2>2. ASSUME NEW k \in T PROVE k + 1 \in T
    <3>1. SUFFICES ASSUME k + 1 \in 0..Nesting, NEW w \in S!Json[k + 1] PROVE Good(k + 1, w)
      OBVIOUS
    <3> DEFINE e == k + 1
    <3>2. e \in 0..Nesting /\ e - 1 = k /\ k \in 0..Nesting
      <4>1. Nesting \in Nat
        BY ParsersAssumption
      <4> QED
        BY <3>1, <4>1
    <3>3. w \in S!Json[e]
      OBVIOUS
    <3> HIDE DEF e
    <3>4. \A u \in S!Json[e - 1] : Good(e - 1, u)
      BY <3>2
    <3>5. CASE w \in Scalars /\ ~S!IsArray(w)
      BY <1>1, <3>2, <3>3, <3>5 DEF e
    <3>6. CASE e \in 1..Nesting /\ S!IsArray(w) /\ w.items \in Seq(S!Json[e - 1])
      BY <1>2, <3>3, <3>4, <3>6 DEF e
    <3> QED
      BY <3>2, <3>3, <3>5, <3>6, JsonCases
  <2>3. T \in SUBSET Nat
    OBVIOUS
  <2> HIDE DEF T
  <2> QED
    BY <2>1, <2>2, <2>3, SetInduction
<1>4. d \in T
  BY <1>3
<1> QED
  BY <1>4 DEF Good

-----------------------------------------------------------------------------
(* Places *)

\* The items of an array are values.
LEMMA ItemsTyped ==
  ASSUME NEW v \in S!Json[Nesting]
  PROVE  S!Items(v) \in Seq(S!Json[Nesting])
<1>0. Nesting \in Nat
  BY ParsersAssumption
<1>1. Nesting \in 0..Nesting
  BY <1>0
<1>2. CASE ~S!IsArray(v)
  <2>1. S!Items(v) = <<>>
    BY <1>2 DEF S!Items
  <2> QED
    BY <2>1
<1>3. CASE S!IsArray(v)
  <2>1. Nesting \in 1..Nesting /\ v.items \in Seq(S!Json[Nesting - 1])
    BY <1>1, <1>3, JsonCases
  <2>2. Nesting - 1 \in 0..Nesting
    BY <1>0, <2>1
  <2>3. S!Json[Nesting - 1] \subseteq S!Json[Nesting]
    BY <2>2, JsonGrows
  <2>4. v.items \in Seq(S!Json[Nesting])
    <3> DEFINE B == S!Json[Nesting - 1]
               A == S!Json[Nesting]
    <3> HIDE DEF A, B
    <3>1. B \subseteq A /\ v.items \in Seq(B)
      BY <2>1, <2>3 DEF A, B
    <3>2. \A i \in 1..Len(v.items) : v.items[i] \in A
      BY <3>1
    <3>3. v.items \in Seq(A)
      BY <3>1, <3>2
    <3> QED
      BY <3>3 DEF A
  <2> QED
    BY <1>3, <2>4 DEF S!Items
<1> QED
  BY <1>2, <1>3

\* So are those of a field, which may be missing.
LEMMA FieldTyped ==
  ASSUME NEW s \in Seq(S!Json[Nesting]), NEW i \in Nat
  PROVE  S!Items(S!At(s, i)) \in Seq(S!Json[Nesting])
<1> DEFINE J == S!Json[Nesting]
<1>1. CASE i < Len(s)
  <2>1. i + 1 \in 1..Len(s)
    BY <1>1
  <2>2. s[i + 1] \in J
    BY <2>1
  <2>3. S!At(s, i) = s[i + 1]
    BY <1>1 DEF S!At
  <2> QED
    BY <2>2, <2>3, ItemsTyped
<1>2. CASE ~(i < Len(s))
  <2>1. S!Items(S!At(s, i)) = <<>>
    BY <1>2 DEF S!At, S!Null, S!Items, S!IsArray
  <2> QED
    BY <2>1
<1> QED
  BY <1>1, <1>2

\* A value counts as an integer.
LEMMA ValueTyped ==
  ASSUME NEW v \in S!Json[Nesting]
  PROVE  S!Value(v) \in Int
<1>0. Nesting \in Nat
  BY ParsersAssumption
<1>1. Nesting \in 0..Nesting
  BY <1>0
<1>2. v \in Scalars \/ S!IsArray(v)
  BY <1>1, JsonCases
<1>3. CASE v \in Scalars
  <2>1. v.kind = "number" => v.v \in Int
    BY <1>3, ParsersAssumption
  <2> QED
    BY <2>1 DEF S!Value
<1>4. CASE S!IsArray(v)
  BY <1>4 DEF S!Value, S!IsArray
<1> QED
  BY <1>2, <1>3, <1>4

\* The coordinates of a place are integers.
LEMMA PlaceTyped ==
  ASSUME NEW place \in Seq(S!Json[Nesting]), S!IsPlace(place)
  PROVE  S!Place(place).lat \in Int /\ S!Place(place).lon \in Int
<1> DEFINE J == S!Json[Nesting]
           coords == S!Coords(place)
<1>1. coords \in Seq(J)
  <2>1. 1 \in Nat /\ 5 \in Nat
    OBVIOUS
  <2>2. S!Items(S!At(place, 1)) \in Seq(J)
    BY <2>1, FieldTyped
  <2> QED
    BY <2>1, <2>2, FieldTyped DEF S!Coords
<1>2. Len(coords) >= 4
  BY DEF S!IsPlace
<1> HIDE DEF coords
<1>3. coords[3] \in J /\ coords[4] \in J
  <2>1. Len(coords) \in Nat
    BY <1>1
  <2>2. 3 \in 1..Len(coords) /\ 4 \in 1..Len(coords)
    BY <1>2, <2>1
  <2> QED
    BY <1>1, <2>2
<1>4. S!Value(coords[3]) \in Int /\ S!Value(coords[4]) \in Int
  BY <1>3, ValueTyped
<1>5. S!Place(place).lat = S!Value(coords[3]) /\ S!Place(place).lon = S!Value(coords[4])
  BY DEF S!Place, coords
<1> QED
  BY <1>4, <1>5

\* What is rounded alike is near.
LEMMA RoundedNear ==
  ASSUME NEW a \in Int, NEW b \in Int, S!Rounded(a) = S!Rounded(b)
  PROVE  a - b \in -9..9
<1> DEFINE size(x) == IF x < 0 THEN -x ELSE x
<1>1. /\ (a < 0) = (b < 0)
      /\ (size(a) + 5) \div 10 = (size(b) + 5) \div 10
  BY DEF S!Rounded
<1>2. \A x, y \in Nat : x \div 10 = y \div 10 => x - y \in -9..9
  OBVIOUS
<1>3. size(a) + 5 \in Nat /\ size(b) + 5 \in Nat
  OBVIOUS
<1>4. (size(a) + 5) - (size(b) + 5) \in -9..9
  <2> HIDE DEF size
  <2> QED
    BY <1>1, <1>2, <1>3
<1> QED
  BY <1>1, <1>4

\* Two places with one key have one name and are near.
LEMMA KeysNear ==
  ASSUME NEW p, NEW q, p.lat \in Int, p.lon \in Int, q.lat \in Int, q.lon \in Int,
         S!KeyOf(p) = S!KeyOf(q)
  PROVE  p.name = q.name /\ p.lat - q.lat \in -9..9 /\ p.lon - q.lon \in -9..9
<1> DEFINE a == <<p.name, S!Rounded(p.lat), S!Rounded(p.lon)>>
           b == <<q.name, S!Rounded(q.lat), S!Rounded(q.lon)>>
<1>1. a = b
  BY DEF S!KeyOf, S!PlaceKey
<1>2. a[1] = b[1] /\ a[2] = b[2] /\ a[3] = b[3]
  BY <1>1, Zenon
<1>3. p.name = q.name /\ S!Rounded(p.lat) = S!Rounded(q.lat) /\ S!Rounded(p.lon) = S!Rounded(q.lon)
  BY <1>2
<1> QED
  BY <1>3, RoundedNear

Good(rows) == {k \in DOMAIN rows : S!IsPlace(rows[k])}

\* The places of the first n rows, each from a row of its own, none twice.
Listing(places, at, rows, n) ==
  /\ at \in [1..Len(places) -> Good(rows) \cap (1..n)]
  /\ \A i, j \in 1..Len(places) : i < j => at[i] < at[j]
  /\ \A i \in 1..Len(places) : places[i] = S!Place(rows[at[i]])
  /\ \A i, j \in 1..Len(places) : i # j => S!KeyOf(places[i]) # S!KeyOf(places[j])
  /\ \A k \in Good(rows) \cap (1..n) :
        \E i \in 1..Len(places) : S!KeyOf(places[i]) = S!KeyOf(S!Place(rows[k]))

\* A row more is listed, unless it is no place or one that is there.
LEMMA ListingGrows ==
  ASSUME NEW R, NEW rows \in Seq(R), NEW n \in 1..Len(rows), NEW P, NEW places \in Seq(P),
         NEW at, Listing(places, at, rows, n - 1), S!Place(rows[n]) \in P
  PROVE  \E next : Listing(S!AddPlace(places, rows[n]), next, rows, n)
<1> DEFINE l == Len(places)
           good == Good(rows)
           p == S!Place(rows[n])
           before == good \cap (1..(n - 1))
           upTo == good \cap (1..n)
           known == \E i \in DOMAIN places : S!KeyOf(places[i]) = S!KeyOf(p)
<1>1. l \in Nat /\ DOMAIN places = 1..l /\ n \in Nat /\ DOMAIN rows = 1..Len(rows)
  OBVIOUS
<1>2. /\ at \in [1..l -> before]
      /\ \A i, j \in 1..l : i < j => at[i] < at[j]
      /\ \A i \in 1..l : places[i] = S!Place(rows[at[i]])
      /\ \A i, j \in 1..l : i # j => S!KeyOf(places[i]) # S!KeyOf(places[j])
      /\ \A k \in before : \E i \in 1..l : S!KeyOf(places[i]) = S!KeyOf(S!Place(rows[k]))
  BY DEF Listing
<1>3. /\ before \subseteq upTo /\ \A k \in upTo : k = n \/ k \in before
      /\ \A k \in before : k < n
      /\ n \in good => n \in upTo
  OBVIOUS
<1>4. n \in good <=> S!IsPlace(rows[n])
  BY <1>1 DEF Good
<1> HIDE DEF good, before, upTo
<1>5. CASE n \notin good
  <2>1. S!AddPlace(places, rows[n]) = places
    BY <1>4, <1>5 DEF S!AddPlace
  <2>2. n \notin upTo
    BY <1>5 DEF upTo
  <2>3. before = upTo
    BY <1>3, <2>2
  <2>4. Listing(places, at, rows, n)
    BY <1>2, <2>3 DEF Listing, upTo, good
  <2> QED
    BY <2>1, <2>4
<1>6. CASE n \in good /\ known
  <2>1. S!AddPlace(places, rows[n]) = places
    BY <1>6 DEF S!AddPlace
  <2>2. at \in [1..l -> upTo]
    BY <1>2, <1>3
  <2>3. \A k \in upTo : \E i \in 1..l : S!KeyOf(places[i]) = S!KeyOf(S!Place(rows[k]))
    BY <1>1, <1>2, <1>3, <1>6
  <2>4. Listing(places, at, rows, n)
    BY <1>2, <2>2, <2>3 DEF Listing, upTo, good
  <2> QED
    BY <2>1, <2>4
<1>7. CASE n \in good /\ ~known
  <2> DEFINE more == Append(places, p)
             next == [i \in 1..(l + 1) |-> IF i = l + 1 THEN n ELSE at[i]]
  <2>1. S!AddPlace(places, rows[n]) = more
    BY <1>4, <1>7 DEF S!AddPlace
  <2> HIDE DEF p
  <2>2. Len(more) = l + 1 /\ more[l + 1] = p /\ \A i \in 1..l : more[i] = places[i]
    BY DEF p
  <2> HIDE DEF more, l
  <2>3. \A i \in 1..(l + 1) : i = l + 1 \/ i \in 1..l
    BY <1>1
  <2>4. next[l + 1] = n /\ \A i \in 1..l : next[i] = at[i]
    BY <1>1
  <2>5. next \in [1..(l + 1) -> upTo]
    BY <1>2, <1>3, <1>7, <2>3
  <2> HIDE DEF next
  <2>6. ASSUME NEW i \in 1..(l + 1), NEW j \in 1..(l + 1), i < j PROVE next[i] < next[j]
    <3>1. i \in 1..l
      BY <1>1, <2>6
    <3>2. CASE j = l + 1
      BY <1>2, <1>3, <2>4, <3>1, <3>2
    <3>3. CASE j \in 1..l
      BY <1>2, <2>4, <2>6, <3>1, <3>3
    <3> QED
      BY <2>3, <3>2, <3>3
  <2>7. ASSUME NEW i \in 1..(l + 1) PROVE more[i] = S!Place(rows[next[i]])
    BY <1>2, <2>2, <2>3, <2>4 DEF p
  <2>8. ASSUME NEW i \in 1..(l + 1), NEW j \in 1..(l + 1), i # j
        PROVE  S!KeyOf(more[i]) # S!KeyOf(more[j])
    <3>1. \A k \in 1..l : S!KeyOf(places[k]) # S!KeyOf(p)
      BY <1>1, <1>7 DEF p
    <3> QED
      BY <1>2, <2>2, <2>3, <2>8, <3>1
  <2>9. ASSUME NEW k \in upTo
        PROVE  \E i \in 1..(l + 1) : S!KeyOf(more[i]) = S!KeyOf(S!Place(rows[k]))
    <3>1. CASE k = n
      <4>1. l + 1 \in 1..(l + 1)
        BY <1>1
      <4> QED
        BY <2>2, <3>1, <4>1 DEF p
    <3>2. CASE k \in before
      <4>1. PICK i \in 1..l : S!KeyOf(places[i]) = S!KeyOf(S!Place(rows[k]))
        BY <1>2, <3>2
      <4>2. i \in 1..(l + 1)
        BY <1>1
      <4> QED
        BY <2>2, <4>1, <4>2
    <3> QED
      BY <1>3, <3>1, <3>2
  <2>10. Listing(more, next, rows, n)
    BY <2>2, <2>5, <2>6, <2>7, <2>8, <2>9 DEF Listing, upTo, good
  <2> QED
    BY <2>1, <2>10
<1> QED
  BY <1>5, <1>6, <1>7

\* The items of an answer.
ListOf(data) == IF S!IsArray(S!At(data, 0)) THEN S!At(data, 0).items ELSE data
ItemsOf(data) == S!Items(S!At(ListOf(data), 8))
Rows(data) == [k \in DOMAIN ItemsOf(data) |-> S!Items(ItemsOf(data)[k])]

\* They are sequences of values.
LEMMA RowsTyped ==
  ASSUME NEW data \in Seq(S!Json[Nesting])
  PROVE  /\ ItemsOf(data) \in Seq(S!Json[Nesting])
         /\ Rows(data) \in Seq(Seq(S!Json[Nesting])) /\ Len(Rows(data)) = Len(ItemsOf(data))
<1> DEFINE J == S!Json[Nesting]
           items == ItemsOf(data)
<1>0. 0 \in Nat /\ 8 \in Nat
  OBVIOUS
<1>1. ListOf(data) \in Seq(J)
  <2>1. S!IsArray(S!At(data, 0)) => S!At(data, 0).items = S!Items(S!At(data, 0))
    BY DEF S!Items
  <2>2. S!Items(S!At(data, 0)) \in Seq(J)
    BY <1>0, FieldTyped
  <2> QED
    BY <2>1, <2>2 DEF ListOf
<1>2. items \in Seq(J)
  BY <1>0, <1>1, FieldTyped DEF ItemsOf
<1> HIDE DEF items
<1>3. \A k \in 1..Len(items) : S!Items(items[k]) \in Seq(J)
  <2> SUFFICES ASSUME NEW k \in 1..Len(items) PROVE S!Items(items[k]) \in Seq(J)
    OBVIOUS
  <2>1. items[k] \in J
    BY <1>2
  <2> QED
    BY <2>1, ItemsTyped
<1>4. Rows(data) = [k \in 1..Len(items) |-> S!Items(items[k])]
  BY <1>2 DEF Rows, items
<1>5. Len(items) \in Nat
  BY <1>2
<1> HIDE DEF J
<1>6. Rows(data) \in Seq(Seq(J)) /\ Len(Rows(data)) = Len(items)
  BY <1>3, <1>4, <1>5
<1> QED
  BY <1>2, <1>6 DEF J, items

\* parseEntityList looks at one item after the other.
LEMMA PlacesSteps ==
  ASSUME NEW data \in Seq(S!Json[Nesting])
  PROVE  LET rows == Rows(data)
             P    == {S!Place(rows[k]) : k \in DOMAIN rows}
         IN  \E places : /\ places \in [0..Len(rows) -> Seq(P)] /\ places[0] = <<>>
                         /\ \A n \in 1..Len(rows) :
                               places[n] = S!AddPlace(places[n - 1], rows[n])
                         /\ S!ParseEntityList(data).places = places[Len(rows)]
<1> DEFINE rows == Rows(data)
           items == ItemsOf(data)
           m == Len(items)
           P == {S!Place(rows[k]) : k \in DOMAIN rows}
           next(i, y) == S!AddPlace(y, S!Items(items[i]))
           step == [i \in 1..m |-> [y \in Seq(P) |-> next(i, y)]]
           Loop(f) == f = [i \in 0..m |-> IF i = 0 THEN <<>>
                                          ELSE S!AddPlace(f[i - 1], S!Items(items[i]))]
<1>0. m \in Nat /\ DOMAIN items = 1..m /\ DOMAIN rows = 1..m /\ Len(rows) = m
  <2>1. items \in Seq(S!Json[Nesting]) /\ rows \in Seq(Seq(S!Json[Nesting])) /\ Len(rows) = m
    BY RowsTyped
  <2> QED
    BY <2>1
<1>a. \A i \in 1..m : rows[i] = S!Items(items[i])
  BY <1>0 DEF Rows
<1> HIDE DEF rows, items, m
<1>1. \A i \in 1..m : \A y \in Seq(P) : next(i, y) \in Seq(P)
  <2> SUFFICES ASSUME NEW i \in 1..m, NEW y \in Seq(P) PROVE next(i, y) \in Seq(P)
    OBVIOUS
  <2>1. S!Place(rows[i]) \in P
    BY <1>0
  <2> HIDE DEF P
  <2>2. Append(y, S!Place(rows[i])) \in Seq(P)
    BY <2>1
  <2> QED
    BY <1>a, <2>2 DEF S!AddPlace
<1> HIDE DEF P
<1>2. PICK f : /\ f \in [0..m -> Seq(P)] /\ f[0] = <<>>
               /\ \A i \in 1..m : f[i] = next(i, f[i - 1])
  <2> HIDE DEF next
  <2>1. Turns(step, m, Seq(P))
    BY <1>1 DEF Turns
  <2>2. <<>> \in Seq(P)
    OBVIOUS
  <2>3. PICK f : IsRun(f, m, Seq(P), <<>>, step)
    <3> HIDE DEF step
    <3> QED
      BY <1>0, <2>1, <2>2, Iterated
  <2>4. ASSUME NEW i \in 1..m PROVE f[i] = next(i, f[i - 1])
    <3>1. i - 1 \in 0..m
      BY <1>0
    <3>2. f[i - 1] \in Seq(P) /\ f[i] = step[i][f[i - 1]]
      BY <2>3, <3>1 DEF IsRun
    <3> QED
      BY <3>2
  <2> QED
    BY <2>3, <2>4 DEF IsRun
<1>3. Loop(f)
  <2> DEFINE h == [i \in 0..m |-> IF i = 0 THEN <<>> ELSE next(i, f[i - 1])]
  <2>1. ASSUME NEW i \in 0..m PROVE f[i] = h[i]
    <3> HIDE DEF next
    <3>1. i # 0 => i \in 1..m
      BY <1>0
    <3> QED
      BY <1>2, <3>1
  <2>2. f = [i \in 0..m |-> f[i]] /\ h = [i \in 0..m |-> h[i]]
    BY <1>2
  <2>3. f = h
    <3> HIDE DEF h
    <3> QED
      BY <2>1, <2>2
  <2> QED
    BY <2>3 DEF h
<1> DEFINE g == CHOOSE g : Loop(g)
<1>4. Loop(g)
  <2> HIDE DEF Loop
  <2> QED
    BY <1>3
<1>5. S!ParseEntityList(data).places = g[m]
  BY DEF S!ParseEntityList, m, items, ItemsOf, ListOf
<1> HIDE DEF g
<1>6. ASSUME NEW i \in 1..m PROVE g[i] = next(i, g[i - 1])
  <2>1. i \in 0..m /\ i # 0
    BY <1>0
  <2> QED
    BY <1>4, <2>1
<1>7. g[0] = <<>>
  BY <1>0, <1>4
<1> DEFINE T == {i \in Nat : i \in 0..m => g[i] \in Seq(P)}
<1>8. T = Nat
  <2>1. 0 \in T
    <3>1. <<>> \in Seq(P)
      OBVIOUS
    <3>2. g[0] \in Seq(P)
      BY <1>7, <3>1
    <3> QED
      BY <3>2
  <2>2. ASSUME NEW i \in T PROVE i + 1 \in T
    <3>1. SUFFICES ASSUME i + 1 \in 0..m PROVE g[i + 1] \in Seq(P)
      OBVIOUS
    <3> DEFINE j == i + 1
    <3>2. j \in 1..m /\ j - 1 = i /\ i \in 0..m
      BY <1>0, <3>1
    <3> HIDE DEF j
    <3>3. g[i] \in Seq(P) /\ g[j] = next(j, g[i])
      BY <1>6, <3>2
    <3>4. g[j] \in Seq(P)
      <4> HIDE DEF next
      <4> QED
        BY <1>1, <3>2, <3>3
    <3> QED
      BY <3>4 DEF j
  <2>3. T \in SUBSET Nat
    OBVIOUS
  <2> HIDE DEF T
  <2> QED
    BY <2>1, <2>2, <2>3, SetInduction
<1>9. g \in [0..m -> Seq(P)]
  <2>1. g = [i \in 0..m |-> g[i]]
    BY <1>4
  <2>2. \A i \in 0..m : g[i] \in Seq(P)
    BY <1>8, <1>0
  <2> QED
    BY <2>1, <2>2
<1>10. \A i \in 1..m : g[i] = S!AddPlace(g[i - 1], rows[i])
  BY <1>6, <1>a
<1> QED
  BY <1>0, <1>5, <1>7, <1>9, <1>10 DEF rows, P

\* What parseEntityList returns lists the places of all items.
LEMMA PlacesListed ==
  ASSUME NEW data \in Seq(S!Json[Nesting])
  PROVE  LET rows   == Rows(data)
             places == S!ParseEntityList(data).places
         IN  /\ places \in Seq({S!Place(rows[k]) : k \in DOMAIN rows})
             /\ \E at : Listing(places, at, rows, Len(rows))
<1> DEFINE rows == Rows(data)
           m == Len(rows)
           P == {S!Place(rows[k]) : k \in DOMAIN rows}
<1>1. rows \in Seq(Seq(S!Json[Nesting])) /\ m \in Nat /\ DOMAIN rows = 1..m
  BY RowsTyped
<1>2. PICK f : /\ f \in [0..m -> Seq(P)] /\ f[0] = <<>>
               /\ \A n \in 1..m : f[n] = S!AddPlace(f[n - 1], rows[n])
               /\ S!ParseEntityList(data).places = f[m]
  BY PlacesSteps
<1>3. \A k \in 1..m : S!Place(rows[k]) \in P
  BY <1>1
<1> HIDE DEF rows, m, P
<1> DEFINE T == {n \in Nat : n \in 0..m => \E at : Listing(f[n], at, rows, n)}
<1>4. 0 \in T
  <2>1. Len(f[0]) = 0 /\ 1..0 = {}
    BY <1>2
  <2>2. Listing(f[0], [i \in 1..0 |-> 0], rows, 0)
    BY <2>1 DEF Listing
  <2> QED
    BY <2>2
<1>5. ASSUME NEW k \in T PROVE k + 1 \in T
  <2>1. SUFFICES ASSUME k + 1 \in 0..m PROVE \E at_ : Listing(f[k + 1], at_, rows, k + 1)
    OBVIOUS
  <2> DEFINE n == k + 1
  <2>2. n \in 1..m /\ n - 1 = k /\ k \in 0..m
    BY <1>1, <2>1
  <2>3. PICK at : Listing(f[k], at, rows, k)
    BY <2>2
  <2> HIDE DEF n
  <2>4. f[k] \in Seq(P) /\ S!Place(rows[n]) \in P /\ f[n] = S!AddPlace(f[k], rows[n])
    BY <1>2, <1>3, <2>2
  <2>5. \E next : Listing(S!AddPlace(f[k], rows[n]), next, rows, n)
    <3>1. n \in 1..Len(rows) /\ Listing(f[k], at, rows, n - 1)
      BY <2>2, <2>3 DEF m
    <3> QED
      BY <1>1, <2>4, <3>1, ListingGrows
  <2> QED
    BY <2>4, <2>5 DEF n
<1>6. T = Nat
  <2>1. T \in SUBSET Nat
    OBVIOUS
  <2> HIDE DEF T
  <2> QED
    BY <1>4, <1>5, <2>1, SetInduction
<1>7. m \in 0..m
  BY <1>1
<1>8. \E at : Listing(f[m], at, rows, m)
  BY <1>1, <1>6, <1>7
<1>9. f[m] \in Seq(P)
  BY <1>2, <1>7
<1> QED
  BY <1>2, <1>8, <1>9 DEF rows, m, P

\* Of all items that are places, each is listed once, with its first ID.
LEMMA PlacesAlwaysKept ==
  ASSUME NEW data \in Seq(S!Json[Nesting])
  PROVE  S!PlacesKept(data)
<1> DEFINE rows == Rows(data)
           places == S!ParseEntityList(data).places
           l == Len(places)
           J == S!Json[Nesting]
           good == Good(rows)
           near(a, b) == a - b \in -9..9
           same(p, q) == p.name = q.name /\ near(p.lat, q.lat) /\ near(p.lon, q.lon)
<1>1. rows \in Seq(Seq(J)) /\ Len(rows) \in Nat /\ DOMAIN rows = 1..Len(rows)
  BY RowsTyped
<1>2. PICK at : Listing(places, at, rows, Len(rows))
  BY PlacesListed
<1>3. l \in Nat /\ DOMAIN places = 1..l
  <2> DEFINE P == {S!Place(rows[k]) : k \in DOMAIN rows}
  <2>1. places \in Seq(P)
    BY PlacesListed
  <2> HIDE DEF P, places
  <2> QED
    BY <2>1
<1> HIDE DEF rows, places, l, J
<1>4. good \cap (1..Len(rows)) = good /\ \A k \in good : rows[k] \in Seq(J) /\ S!IsPlace(rows[k])
  BY <1>1 DEF Good
<1> HIDE DEF good
<1>5. /\ at \in [1..l -> good]
      /\ \A i, j \in 1..l : i < j => at[i] < at[j]
      /\ \A i \in 1..l : places[i] = S!Place(rows[at[i]])
      /\ \A i, j \in 1..l : i # j => S!KeyOf(places[i]) # S!KeyOf(places[j])
      /\ \A k \in good : \E i \in 1..l : S!KeyOf(places[i]) = S!KeyOf(S!Place(rows[k]))
  BY <1>2, <1>4 DEF Listing, good, l
<1>6. ASSUME NEW i \in 1..l
      PROVE  IF S!IsArray(S!At(rows[at[i]], 7)) THEN S!IsFirstID(places[i].id, rows[at[i]][8])
             ELSE places[i].id = ""
  <2> DEFINE place == rows[at[i]]
  <2>1. place \in Seq(J) /\ places[i].id = S!PlaceID(place)
    <3>1. at[i] \in good
      BY <1>5
    <3>2. S!Place(place).id = S!PlaceID(place)
      BY DEF S!Place
    <3> QED
      BY <1>4, <1>5, <3>1, <3>2
  <2> HIDE DEF place
  <2>2. CASE S!IsArray(S!At(place, 7))
    <3> DEFINE v == place[8]
    <3>1. Nesting \in 0..Nesting
      <4>1. Nesting \in Nat
        BY ParsersAssumption
      <4> QED
        BY <4>1
    <3>2. v \in J
      <4>1. 7 < Len(place)
        BY <2>2 DEF S!At, S!IsArray, S!Null
      <4> QED
        BY <2>1, <4>1
    <3>3. places[i].id = S!FirstIDString[Nesting][v]
      BY <2>1, <2>2 DEF S!PlaceID
    <3> HIDE DEF v
    <3>4. IsFirst(places[i].id, IDs(S!Leaves[Nesting][v]))
      BY <3>1, <3>2, <3>3, IDIsFirst DEF J
    <3>5. S!IsFirstID(places[i].id, v)
      BY <3>4 DEF IsFirst, IDs, S!IsFirstID
    <3> QED
      BY <2>2, <3>5 DEF v, place
  <2>3. CASE ~S!IsArray(S!At(place, 7))
    BY <2>1, <2>3 DEF S!PlaceID, place
  <2> QED
    BY <2>2, <2>3 DEF place
<1>7. ASSUME NEW k \in good PROVE \E i \in 1..l : same(places[i], S!Place(rows[k]))
  <2>1. PICK i \in 1..l : S!KeyOf(places[i]) = S!KeyOf(S!Place(rows[k]))
    BY <1>5
  <2>2. at[i] \in good /\ places[i] = S!Place(rows[at[i]])
    BY <1>5
  <2>3. \A e \in good : S!Place(rows[e]).lat \in Int /\ S!Place(rows[e]).lon \in Int
    BY <1>4, PlaceTyped DEF J
  <2>4. same(places[i], S!Place(rows[k]))
    <3> DEFINE p == places[i]
               q == S!Place(rows[k])
    <3>1. p.lat \in Int /\ p.lon \in Int /\ q.lat \in Int /\ q.lon \in Int
      BY <2>2, <2>3
    <3> HIDE DEF p, q
    <3>2. S!KeyOf(p) = S!KeyOf(q)
      BY <2>1 DEF p, q
    <3>3. same(p, q)
      BY <3>1, <3>2, KeysNear
    <3> QED
      BY <3>3 DEF p, q
  <2> QED
    BY <2>4
<1>8. \A k \in DOMAIN ItemsOf(data) : rows[k] = S!Items(ItemsOf(data)[k])
  BY DEF rows, Rows
<1>9. DOMAIN ItemsOf(data) = DOMAIN rows
  BY DEF rows, Rows
<1>10. good = {k \in DOMAIN ItemsOf(data) : S!IsPlace(S!Items(ItemsOf(data)[k]))}
  BY <1>8, <1>9 DEF good, Good
<1>11. \A k \in good : rows[k] = S!Items(ItemsOf(data)[k])
  BY <1>8, <1>10
<1>12. /\ at \in [DOMAIN places -> good]
       /\ \A i, j \in DOMAIN places : i < j => at[i] < at[j]
       /\ \A i \in DOMAIN places :
             /\ places[i] = S!Place(S!Items(ItemsOf(data)[at[i]]))
             /\ IF S!IsArray(S!At(S!Items(ItemsOf(data)[at[i]]), 7))
                  THEN S!IsFirstID(places[i].id, S!Items(ItemsOf(data)[at[i]])[8])
                ELSE places[i].id = ""
  <2>1. \A i \in 1..l : rows[at[i]] = S!Items(ItemsOf(data)[at[i]])
    BY <1>5, <1>11
  <2> QED
    BY <1>3, <1>5, <1>6, <2>1
<1>13. \A k \in good : \E i \in DOMAIN places : same(places[i], S!Place(S!Items(ItemsOf(data)[k])))
  BY <1>3, <1>7, <1>11
<1>14. \A i, j \in DOMAIN places : i # j => S!KeyOf(places[i]) # S!KeyOf(places[j])
  BY <1>3, <1>5
<1> HIDE DEF same
<1> QED
  BY <1>10, <1>12, <1>13, <1>14 DEF S!PlacesKept, places, ItemsOf, ListOf, same

-----------------------------------------------------------------------------
(* Lists *)

\* What is at most all others is the least.
LEMMA MinIs ==
  ASSUME NEW T \in SUBSET Int, NEW m \in T, \A i \in T : m <= i
  PROVE  S!Min(T) = m
<1>1. \E x \in T : \A y \in T : x <= y
  OBVIOUS
<1> DEFINE x == CHOOSE x \in T : \A y \in T : x <= y
<1>2. x \in T /\ \A y \in T : x <= y
  BY <1>1
<1>3. S!Min(T) = x
  BY DEF S!Min
<1> HIDE DEF x
<1> QED
  BY <1>2, <1>3

\* The first n entries name those lists, which stand where they are named first.
Firsts(specs, first, entries, ids, n) ==
  /\ first \in [1..Len(specs) -> entries \cap (1..n)]
  /\ \A j, k \in 1..Len(specs) : j < k => first[j] < first[k]
  /\ \A k \in 1..Len(specs) : ids[first[k]] = specs[k].id
  /\ \A k \in 1..Len(specs) : \A i \in entries \cap (1..n) :
        ids[i] = specs[k].id => first[k] <= i
  /\ \A i \in entries \cap (1..n) : \E k \in 1..Len(specs) : specs[k].id = ids[i]

\* An entry of a list that is there adds none.
LEMMA FirstsStay ==
  ASSUME NEW l \in Nat, NEW specs, Len(specs) = l, NEW more, Len(more) = l,
         \A k \in 1..l : more[k].id = specs[k].id,
         NEW first, NEW entries, NEW ids, NEW n \in Nat \ {0},
         Firsts(specs, first, entries, ids, n - 1),
         n \in entries => \E k \in 1..l : specs[k].id = ids[n]
  PROVE  Firsts(more, first, entries, ids, n)
<1> DEFINE before == entries \cap (1..(n - 1))
           upTo == entries \cap (1..n)
<1>0. /\ \A i \in 1..(n - 1) : i \in 1..n /\ i < n /\ i \in Nat
      /\ \A i \in 1..n : i \in 1..(n - 1) \/ i = n
  OBVIOUS
<1>1. /\ before \subseteq upTo
      /\ \A i \in upTo : i \in before \/ (i = n /\ n \in entries)
      /\ \A i \in before : i < n /\ i \in Nat
  <2>1. before \subseteq upTo
    BY <1>0
  <2>2. \A i \in before : i < n /\ i \in Nat
    BY <1>0
  <2>3. ASSUME NEW i \in upTo PROVE i \in before \/ (i = n /\ n \in entries)
    <3>1. i \in entries /\ i \in 1..n
      BY <2>3
    <3>2. CASE i \in 1..(n - 1)
      BY <3>1, <3>2
    <3>3. CASE i = n
      BY <3>1, <3>3
    <3> QED
      BY <1>0, <3>1, <3>2, <3>3
  <2> QED
    BY <2>1, <2>2, <2>3
<1>2. /\ first \in [1..l -> before]
      /\ \A j, k \in 1..l : j < k => first[j] < first[k]
      /\ \A k \in 1..l : ids[first[k]] = specs[k].id
      /\ \A k \in 1..l : \A i \in before : ids[i] = specs[k].id => first[k] <= i
      /\ \A i \in before : \E k \in 1..l : specs[k].id = ids[i]
  BY DEF Firsts
<1> HIDE DEF before, upTo
<1>3. first \in [1..l -> upTo]
  BY <1>1, <1>2
<1>4. ASSUME NEW k \in 1..l, NEW i \in upTo, ids[i] = more[k].id PROVE first[k] <= i
  <2>1. first[k] \in before
    BY <1>2
  <2> QED
    BY <1>1, <1>2, <1>4, <2>1
<1>5. ASSUME NEW i \in upTo PROVE \E k \in 1..l : more[k].id = ids[i]
  BY <1>1, <1>2
<1> QED
  BY <1>2, <1>3, <1>4, <1>5 DEF Firsts, upTo

OneMore(next, first, l, n) == next[l + 1] = n /\ \A k \in 1..l : next[k] = first[k]

\* That of a new one adds it.
LEMMA FirstsGrow ==
  ASSUME NEW l \in Nat, NEW specs, Len(specs) = l, NEW more, Len(more) = l + 1,
         \A k \in 1..l : more[k] = specs[k],
         NEW first, NEW entries, NEW ids, NEW n \in Nat \ {0},
         Firsts(specs, first, entries, ids, n - 1),
         n \in entries, more[l + 1].id = ids[n], \A k \in 1..l : specs[k].id # ids[n]
  PROVE  \E next : Firsts(more, next, entries, ids, n) /\ OneMore(next, first, l, n)
<1> DEFINE before == entries \cap (1..(n - 1))
           upTo == entries \cap (1..n)
           next == [k \in 1..(l + 1) |-> IF k = l + 1 THEN n ELSE first[k]]
<1>0. /\ \A i \in 1..(n - 1) : i \in 1..n /\ i < n /\ i \in Nat
      /\ \A i \in 1..n : i \in 1..(n - 1) \/ i = n
      /\ n \in 1..n
  OBVIOUS
<1>1. /\ before \subseteq upTo /\ n \in upTo
      /\ \A i \in upTo : i \in before \/ i = n
      /\ \A i \in before : i < n /\ i \in Nat
  BY <1>0
<1>2. /\ first \in [1..l -> before]
      /\ \A j, k \in 1..l : j < k => first[j] < first[k]
      /\ \A k \in 1..l : ids[first[k]] = specs[k].id
      /\ \A k \in 1..l : \A i \in before : ids[i] = specs[k].id => first[k] <= i
      /\ \A i \in before : \E k \in 1..l : specs[k].id = ids[i]
  BY DEF Firsts
<1>3. \A k \in 1..(l + 1) : k = l + 1 \/ k \in 1..l
  OBVIOUS
<1>4. next[l + 1] = n /\ \A k \in 1..l : next[k] = first[k]
  OBVIOUS
<1> HIDE DEF before, upTo
<1>5. next \in [1..(l + 1) -> upTo]
  BY <1>1, <1>2, <1>3
<1> HIDE DEF next
<1>6. ASSUME NEW j \in 1..(l + 1), NEW k \in 1..(l + 1), j < k PROVE next[j] < next[k]
  <2>1. j \in 1..l
    BY <1>6
  <2>2. CASE k = l + 1
    <3>1. next[j] = first[j] /\ first[j] \in before
      BY <1>2, <1>4, <2>1
    <3>2. next[k] = n
      BY <1>4, <2>2
    <3> QED
      BY <1>1, <3>1, <3>2
  <2>3. CASE k \in 1..l
    BY <1>2, <1>4, <1>6, <2>1, <2>3
  <2> QED
    BY <1>3, <2>2, <2>3
<1>7. ASSUME NEW k \in 1..(l + 1) PROVE ids[next[k]] = more[k].id
  BY <1>2, <1>3, <1>4
<1>8. ASSUME NEW k \in 1..(l + 1), NEW i \in upTo, ids[i] = more[k].id PROVE next[k] <= i
  <2>1. CASE k = l + 1
    <3>1. i \notin before
      BY <1>2, <1>8, <2>1
    <3>2. i = n
      BY <1>1, <3>1
    <3> QED
      BY <1>4, <2>1, <3>2
  <2>2. CASE k \in 1..l
    <3>1. next[k] = first[k] /\ first[k] \in before /\ ids[i] = specs[k].id
      BY <1>2, <1>4, <1>8, <2>2
    <3> QED
      BY <1>1, <1>2, <2>2, <3>1
  <2> QED
    BY <1>3, <2>1, <2>2
<1>9. ASSUME NEW i \in upTo PROVE \E k \in 1..(l + 1) : more[k].id = ids[i]
  <2>1. CASE i = n
    <3>1. l + 1 \in 1..(l + 1)
      OBVIOUS
    <3> QED
      BY <2>1, <3>1
  <2>2. CASE i \in before
    <3>1. PICK k \in 1..l : specs[k].id = ids[i]
      BY <1>2, <2>2
    <3>2. k \in 1..(l + 1)
      OBVIOUS
    <3> QED
      BY <3>1, <3>2
  <2> QED
    BY <1>1, <2>1, <2>2
<1>10. Firsts(more, next, entries, ids, n)
  BY <1>5, <1>6, <1>7, <1>8, <1>9 DEF Firsts, upTo
<1>11. OneMore(next, first, l, n)
  BY <1>4 DEF OneMore
<1> QED
  BY <1>10, <1>11

\* Where a list is named for the first time.
FirstOnes(entries, ids) == {i \in entries : \A j \in entries : ids[j] = ids[i] => i <= j}

\* Those entries are all that matters.
LEMMA FirstsEnumerate ==
  ASSUME NEW specs, NEW first, NEW ids, NEW n \in Nat, NEW entries \in SUBSET (1..n),
         Firsts(specs, first, entries, ids, n)
  PROVE  Enumerates(first, Len(specs), FirstOnes(entries, ids))
<1> DEFINE l == Len(specs)
<1>1. entries \cap (1..n) = entries /\ entries \in SUBSET Nat
  <2>1. \A i \in entries : i \in 1..n /\ i \in Nat
    OBVIOUS
  <2> QED
    BY <2>1
<1>2. /\ first \in [1..l -> entries]
      /\ \A j, k \in 1..l : j < k => first[j] < first[k]
      /\ \A k \in 1..l : ids[first[k]] = specs[k].id
      /\ \A k \in 1..l : \A i \in entries : ids[i] = specs[k].id => first[k] <= i
      /\ \A i \in entries : \E k \in 1..l : specs[k].id = ids[i]
  BY <1>1 DEF Firsts
<1> HIDE DEF l
<1>3. first \in [1..l -> FirstOnes(entries, ids)]
  <2>1. \A k \in 1..l : first[k] \in FirstOnes(entries, ids)
    BY <1>2 DEF FirstOnes
  <2> QED
    BY <1>2, <2>1
<1>4. ASSUME NEW i \in FirstOnes(entries, ids) PROVE \E k \in 1..l : first[k] = i
  <2>1. i \in entries /\ \A j \in entries : ids[j] = ids[i] => i <= j
    BY DEF FirstOnes
  <2>2. PICK k \in 1..l : specs[k].id = ids[i]
    BY <1>2, <2>1
  <2>3. first[k] \in entries /\ first[k] <= i /\ i <= first[k]
    BY <1>2, <2>1, <2>2
  <2>4. first[k] = i
    BY <1>1, <2>1, <2>3
  <2> QED
    BY <2>4
<1> QED
  BY <1>2, <1>3, <1>4 DEF Enumerates, l

\* Of two enumerations of a set of numbers, none is ahead of the other.
LEMMA NoneAhead ==
  ASSUME NEW X \in SUBSET Nat, NEW a, NEW b, NEW m \in Nat, NEW n \in Nat,
         Enumerates(a, m, X), Enumerates(b, n, X),
         NEW i \in 1..m, i \in 1..n, \A j \in 1..(i - 1) : a[j] = b[j]
  PROVE  a[i] <= b[i]
<1>1. a[i] \in X /\ b[i] \in X
  BY DEF Enumerates
<1>2. PICK j \in 1..m : a[j] = b[i]
  BY <1>1 DEF Enumerates
<1>3. j \notin 1..(i - 1)
  <2> SUFFICES ASSUME j \in 1..(i - 1) PROVE FALSE
    OBVIOUS
  <2>1. j \in 1..n /\ j < i
    OBVIOUS
  <2>2. b[j] < b[i] /\ a[j] = b[j] /\ b[j] \in X
    BY <2>1 DEF Enumerates
  <2>3. b[i] \in Nat
    BY <1>1
  <2> QED
    BY <1>2, <2>2, <2>3
<1>4. j = i \/ i < j
  BY <1>3
<1>5. i < j => a[i] < a[j]
  BY DEF Enumerates
<1>6. a[i] \in Nat /\ b[i] \in Nat
  BY <1>1
<1> QED
  BY <1>2, <1>4, <1>5, <1>6

\* Nor is one shorter.
LEMMA NoneShorter ==
  ASSUME NEW X \in SUBSET Nat, NEW a, NEW b, NEW m \in Nat, NEW n \in Nat,
         Enumerates(a, m, X), Enumerates(b, n, X),
         \A i \in 1..m : i \in 1..n => a[i] = b[i]
  PROVE  ~(n < m)
<1> SUFFICES ASSUME n < m PROVE FALSE
  OBVIOUS
<1>1. n + 1 \in 1..m
  OBVIOUS
<1>2. a[n + 1] \in X
  BY <1>1 DEF Enumerates
<1>3. PICK i \in 1..n : b[i] = a[n + 1]
  BY <1>2 DEF Enumerates
<1>4. i \in 1..m /\ i < n + 1
  OBVIOUS
<1>5. a[i] = b[i]
  BY <1>4
<1>6. a[i] < a[n + 1]
  BY <1>1, <1>4 DEF Enumerates
<1>7. a[n + 1] \in Nat
  BY <1>2
<1> QED
  BY <1>3, <1>5, <1>6, <1>7

\* A set of numbers is enumerated in one way.
LEMMA OneEnumeration ==
  ASSUME NEW X \in SUBSET Nat, NEW a, NEW b, NEW m \in Nat, NEW n \in Nat,
         Enumerates(a, m, X), Enumerates(b, n, X)
  PROVE  m = n /\ \A i \in 1..m : a[i] = b[i]
<1> DEFINE T == {p \in Nat : \A i \in 1..p : i \in 1..m /\ i \in 1..n => a[i] = b[i]}
<1>1. ASSUME NEW i \in 1..m, i \in 1..n, \A j \in 1..(i - 1) : a[j] = b[j]
      PROVE  a[i] = b[i]
  <2>1. a[i] \in X /\ b[i] \in X
    BY <1>1 DEF Enumerates
  <2>2. a[i] \in Nat /\ b[i] \in Nat
    BY <2>1
  <2>3. a[i] <= b[i]
    BY <1>1, NoneAhead
  <2>4. b[i] <= a[i]
    <3>1. \A j \in 1..(i - 1) : b[j] = a[j]
      BY <1>1
    <3> QED
      BY <1>1, <3>1, NoneAhead
  <2> QED
    BY <2>2, <2>3, <2>4
<1>2. T = Nat
  <2>1. 0 \in T
    OBVIOUS
  <2>2. ASSUME NEW p \in T PROVE p + 1 \in T
    <3> SUFFICES ASSUME NEW i \in 1..(p + 1), i \in 1..m, i \in 1..n PROVE a[i] = b[i]
      OBVIOUS
    <3>1. CASE i \in 1..p
      BY <3>1
    <3>2. CASE i = p + 1
      <4>1. \A j \in 1..(i - 1) : a[j] = b[j]
        <5> SUFFICES ASSUME NEW j \in 1..(i - 1) PROVE a[j] = b[j]
          OBVIOUS
        <5>1. j \in 1..p /\ j \in 1..m /\ j \in 1..n
          BY <3>2
        <5> QED
          BY <5>1
      <4> QED
        BY <1>1, <4>1
    <3> QED
      BY <3>1, <3>2
  <2>3. T \in SUBSET Nat
    OBVIOUS
  <2> HIDE DEF T
  <2> QED
    BY <2>1, <2>2, <2>3, SetInduction
<1>3. \A i \in 1..m : i \in 1..n => a[i] = b[i]
  <2>1. m \in T
    BY <1>2
  <2> QED
    BY <2>1
<1>4. ~(n < m)
  BY <1>3, NoneShorter
<1>5. ~(m < n)
  <2>1. \A i \in 1..n : i \in 1..m => b[i] = a[i]
    BY <1>3
  <2> QED
    BY <2>1, NoneShorter
<1>6. m = n
  BY <1>4, <1>5
<1> QED
  BY <1>3, <1>6

\* A trimmed line has no blank columns.
LEMMA TrimmedLine ==
  ASSUME NEW line \in Seq(Columns)
  PROVE  /\ S!TrimLine(line) \in Seq(Columns)
         /\ \A i \in 1..Len(S!TrimLine(line)) : S!TrimLine(line)[i].text # ""
<1> DEFINE shown == {i \in DOMAIN line : line[i].text # ""}
           trimmed == S!TrimLine(line)
<1>1. trimmed = S!Kept(line, shown)
  BY DEF S!TrimLine
<1>2. shown \in SUBSET (1..Len(line))
  <2>1. shown \in SUBSET DOMAIN line
    OBVIOUS
  <2> HIDE DEF shown
  <2> QED
    BY <2>1
<1>3. \A i \in shown : line[i].text # ""
  OBVIOUS
<1> HIDE DEF shown, trimmed
<1>4. /\ trimmed \in Seq(Columns)
      /\ \E at : /\ Enumerates(at, Len(trimmed), shown)
                 /\ \A i \in 1..Len(trimmed) : trimmed[i] = line[at[i]]
  BY <1>1, <1>2, KeptIs
<1>5. ASSUME NEW i \in 1..Len(trimmed) PROVE trimmed[i].text # ""
  <2>1. PICK at : /\ Enumerates(at, Len(trimmed), shown)
                  /\ \A j \in 1..Len(trimmed) : trimmed[j] = line[at[j]]
    BY <1>4
  <2>2. at[i] \in shown /\ trimmed[i] = line[at[i]]
    BY <2>1 DEF Enumerates
  <2> QED
    BY <1>3, <2>2
<1> QED
  BY <1>4, <1>5 DEF trimmed

\* The entries of some lines, and what each of them names.
Entries(lines)  == {i \in DOMAIN lines : S!IsEntry(lines[i])}
EntryIDs(lines) == [i \in DOMAIN lines |-> S!EntryID(lines[i])]
Names(lines)    == [i \in DOMAIN lines |-> S!LineName(S!TrimLine(lines[i]))]

\* There are entries, and each has an ID.
AllNamed(lines) == Entries(lines) # {} /\ \A i \in Entries(lines) : EntryIDs(lines)[i] # ""

SpecOf(ids, names, i) == [id |-> ids[i], name |-> names[i]]

\* ParseListSpecs looks at one line after the other.
LEMMA SpecsSteps ==
  ASSUME NEW L, NEW lines \in Seq(L), AllNamed(lines)
  PROVE  LET m     == Len(lines)
             ids   == EntryIDs(lines)
             names == Names(lines)
             P     == {SpecOf(ids, names, i) : i \in 1..m}
         IN  /\ S!ParseListSpecs(lines).err = "none"
             /\ \E specs :
                   /\ specs \in [0..m -> Seq(P)] /\ specs[0] = <<>>
                   /\ \A n \in 1..m :
                         specs[n] = IF n \in Entries(lines)
                                      THEN S!AddSpec(specs[n - 1], SpecOf(ids, names, n))
                                    ELSE specs[n - 1]
                   /\ S!ParseListSpecs(lines).specs = specs[m]
<1> DEFINE m == Len(lines)
           entries == Entries(lines)
           ids == EntryIDs(lines)
           names == Names(lines)
           P == {SpecOf(ids, names, i) : i \in 1..m}
           spec(i) == [id |-> S!EntryID(lines[i]), name |-> S!LineName(S!TrimLine(lines[i]))]
           next(i, y) == IF i \in entries THEN S!AddSpec(y, spec(i)) ELSE y
           step == [i \in 1..m |-> [y \in Seq(P) |-> next(i, y)]]
           Loop(f) == f = [i \in 0..m |-> IF i = 0 THEN <<>>
                                          ELSE next(i, f[i - 1])]
<1>0. m \in Nat /\ DOMAIN lines = 1..m
  OBVIOUS
<1>a. \A i \in 1..m : spec(i) = SpecOf(ids, names, i)
  BY <1>0 DEF SpecOf, EntryIDs, Names
<1>b. {i \in entries : S!EntryID(lines[i]) = ""} = {}
  BY DEF Entries, EntryIDs, AllNamed
<1>c. entries # {} /\ entries = {i \in DOMAIN lines : S!IsEntry(lines[i])}
  BY DEF Entries, AllNamed
<1> HIDE DEF ids, names, spec, m
<1>1. \A i \in 1..m : \A y \in Seq(P) : next(i, y) \in Seq(P)
  <2> SUFFICES ASSUME NEW i \in 1..m, NEW y \in Seq(P) PROVE next(i, y) \in Seq(P)
    OBVIOUS
  <2>1. spec(i) \in P
    BY <1>a
  <2> HIDE DEF P
  <2>2. Append(y, spec(i)) \in Seq(P)
    BY <2>1
  <2> DEFINE z == [j \in DOMAIN y |->
                     IF y[j].id = spec(i).id /\ y[j].name = "" THEN spec(i) ELSE y[j]]
  <2>3. z \in Seq(P)
    <3>1. \A j \in 1..Len(y) : y[j] \in P
      OBVIOUS
    <3>2. DOMAIN y = 1..Len(y) /\ Len(y) \in Nat
      OBVIOUS
    <3>3. z \in [1..Len(y) -> P]
      BY <2>1, <3>1, <3>2
    <3> HIDE DEF z
    <3> QED
      BY <3>2, <3>3
  <2> QED
    BY <2>2, <2>3 DEF S!AddSpec
<1> HIDE DEF P, next
<1>2. PICK f : /\ f \in [0..m -> Seq(P)] /\ f[0] = <<>>
               /\ \A i \in 1..m : f[i] = next(i, f[i - 1])
  <2>1. Turns(step, m, Seq(P))
    BY <1>1 DEF Turns
  <2>2. <<>> \in Seq(P)
    OBVIOUS
  <2>3. PICK f : IsRun(f, m, Seq(P), <<>>, step)
    <3> HIDE DEF step
    <3> QED
      BY <1>0, <2>1, <2>2, Iterated
  <2>4. ASSUME NEW i \in 1..m PROVE f[i] = next(i, f[i - 1])
    <3>1. i - 1 \in 0..m
      BY <1>0
    <3>2. f[i - 1] \in Seq(P) /\ f[i] = step[i][f[i - 1]]
      BY <2>3, <3>1 DEF IsRun
    <3> QED
      BY <3>2
  <2> QED
    BY <2>3, <2>4 DEF IsRun
<1>3. Loop(f)
  <2> DEFINE h == [i \in 0..m |-> IF i = 0 THEN <<>> ELSE next(i, f[i - 1])]
  <2>1. ASSUME NEW i \in 0..m PROVE f[i] = h[i]
    <3>1. i # 0 => i \in 1..m
      BY <1>0
    <3> QED
      BY <1>2, <3>1
  <2>2. f = [i \in 0..m |-> f[i]] /\ h = [i \in 0..m |-> h[i]]
    BY <1>2
  <2>3. f = h
    <3> HIDE DEF h
    <3> QED
      BY <2>1, <2>2
  <2> QED
    BY <2>3 DEF h
<1> DEFINE g == CHOOSE g : Loop(g)
<1>4. Loop(g)
  <2> HIDE DEF Loop
  <2> QED
    BY <1>3
<1>5. S!ParseListSpecs(lines).err = "none" /\ S!ParseListSpecs(lines).specs = g[m]
  <2>1. S!ParseListSpecs(lines) = [err |-> "none", line |-> 0, specs |-> g[m]]
    BY <1>b, <1>c DEF S!ParseListSpecs, m, spec, next
  <2> QED
    BY <2>1
<1> HIDE DEF g
<1>6. ASSUME NEW i \in 1..m PROVE g[i] = next(i, g[i - 1])
  <2>1. i \in 0..m /\ i # 0
    BY <1>0
  <2> QED
    BY <1>4, <2>1
<1>7. g[0] = <<>>
  BY <1>0, <1>4
<1> DEFINE T == {i \in Nat : i \in 0..m => g[i] \in Seq(P)}
<1>8. T = Nat
  <2>1. 0 \in T
    <3>1. <<>> \in Seq(P)
      OBVIOUS
    <3>2. g[0] \in Seq(P)
      BY <1>7, <3>1
    <3> QED
      BY <3>2
  <2>2. ASSUME NEW i \in T PROVE i + 1 \in T
    <3>1. SUFFICES ASSUME i + 1 \in 0..m PROVE g[i + 1] \in Seq(P)
      OBVIOUS
    <3> DEFINE j == i + 1
    <3>2. j \in 1..m /\ j - 1 = i /\ i \in 0..m
      BY <1>0, <3>1
    <3> HIDE DEF j
    <3>3. g[i] \in Seq(P) /\ g[j] = next(j, g[i])
      BY <1>6, <3>2
    <3>4. g[j] \in Seq(P)
      <4> QED
        BY <1>1, <3>2, <3>3
    <3> QED
      BY <3>4 DEF j
  <2>3. T \in SUBSET Nat
    OBVIOUS
  <2> HIDE DEF T
  <2> QED
    BY <2>1, <2>2, <2>3, SetInduction
<1>9. g \in [0..m -> Seq(P)]
  <2>1. g = [i \in 0..m |-> g[i]]
    BY <1>4
  <2>2. \A i \in 0..m : g[i] \in Seq(P)
    BY <1>8, <1>0
  <2> QED
    BY <2>1, <2>2
<1>10. \A i \in 1..m : g[i] = IF i \in entries THEN S!AddSpec(g[i - 1], SpecOf(ids, names, i))
                              ELSE g[i - 1]
  BY <1>6, <1>a DEF next
<1> QED
  BY <1>5, <1>7, <1>9, <1>10 DEF m, ids, names, P

\* The IDs of some links, and their names.
LinkIDs(links)   == [i \in DOMAIN links |-> S!ExtractListID(links[i].href)]
LinkNames(links) == [i \in DOMAIN links |-> links[i].name]

\* specsFromListLinks looks at one link after the other.
LEMMA LinksSteps ==
  ASSUME NEW L, NEW links \in Seq(L)
  PROVE  LET m     == Len(links)
             ids   == LinkIDs(links)
             names == LinkNames(links)
             P     == {SpecOf(ids, names, i) : i \in 1..m}
         IN  \E specs :
                /\ specs \in [0..m -> Seq(P)] /\ specs[0] = <<>>
                /\ \A n \in 1..m :
                      specs[n] = IF ids[n] = "" THEN specs[n - 1]
                                 ELSE S!KeepFirst(specs[n - 1], SpecOf(ids, names, n))
                /\ S!SpecsFromListLinks(links) = specs[m]
<1> DEFINE m == Len(links)
           ids == LinkIDs(links)
           names == LinkNames(links)
           P == {SpecOf(ids, names, i) : i \in 1..m}
           id(i) == S!ExtractListID(links[i].href)
           spec(i) == [id |-> id(i), name |-> links[i].name]
           next(i, y) == IF id(i) = "" THEN y ELSE S!KeepFirst(y, spec(i))
           step == [i \in 1..m |-> [y \in Seq(P) |-> next(i, y)]]
           Loop(f) == f = [i \in 0..m |-> IF i = 0 THEN <<>>
                                          ELSE next(i, f[i - 1])]
<1>0. m \in Nat /\ DOMAIN links = 1..m
  OBVIOUS
<1>a. \A i \in 1..m : id(i) = ids[i] /\ spec(i) = SpecOf(ids, names, i)
  BY <1>0 DEF SpecOf, LinkIDs, LinkNames
<1> HIDE DEF ids, names, id, spec, m
<1>1. \A i \in 1..m : \A y \in Seq(P) : next(i, y) \in Seq(P)
  <2> SUFFICES ASSUME NEW i \in 1..m, NEW y \in Seq(P) PROVE next(i, y) \in Seq(P)
    OBVIOUS
  <2>1. spec(i) \in P
    BY <1>a
  <2> HIDE DEF P
  <2>2. Append(y, spec(i)) \in Seq(P)
    BY <2>1
  <2> QED
    BY <2>2 DEF S!KeepFirst
<1> HIDE DEF P, next
<1>2. PICK f : /\ f \in [0..m -> Seq(P)] /\ f[0] = <<>>
               /\ \A i \in 1..m : f[i] = next(i, f[i - 1])
  <2>1. Turns(step, m, Seq(P))
    BY <1>1 DEF Turns
  <2>2. <<>> \in Seq(P)
    OBVIOUS
  <2>3. PICK f : IsRun(f, m, Seq(P), <<>>, step)
    <3> HIDE DEF step
    <3> QED
      BY <1>0, <2>1, <2>2, Iterated
  <2>4. ASSUME NEW i \in 1..m PROVE f[i] = next(i, f[i - 1])
    <3>1. i - 1 \in 0..m
      BY <1>0
    <3>2. f[i - 1] \in Seq(P) /\ f[i] = step[i][f[i - 1]]
      BY <2>3, <3>1 DEF IsRun
    <3> QED
      BY <3>2
  <2> QED
    BY <2>3, <2>4 DEF IsRun
<1>3. Loop(f)
  <2> DEFINE h == [i \in 0..m |-> IF i = 0 THEN <<>> ELSE next(i, f[i - 1])]
  <2>1. ASSUME NEW i \in 0..m PROVE f[i] = h[i]
    <3>1. i # 0 => i \in 1..m
      BY <1>0
    <3> QED
      BY <1>2, <3>1
  <2>2. f = [i \in 0..m |-> f[i]] /\ h = [i \in 0..m |-> h[i]]
    BY <1>2
  <2>3. f = h
    <3> HIDE DEF h
    <3> QED
      BY <2>1, <2>2
  <2> QED
    BY <2>3 DEF h
<1> DEFINE g == CHOOSE g : Loop(g)
<1>4. Loop(g)
  <2> HIDE DEF Loop
  <2> QED
    BY <1>3
<1>5. S!SpecsFromListLinks(links) = g[m]
  BY DEF S!SpecsFromListLinks, m, spec, id, next
<1> HIDE DEF g
<1>6. ASSUME NEW i \in 1..m PROVE g[i] = next(i, g[i - 1])
  <2>1. i \in 0..m /\ i # 0
    BY <1>0
  <2> QED
    BY <1>4, <2>1
<1>7. g[0] = <<>>
  BY <1>0, <1>4
<1> DEFINE T == {i \in Nat : i \in 0..m => g[i] \in Seq(P)}
<1>8. T = Nat
  <2>1. 0 \in T
    <3>1. <<>> \in Seq(P)
      OBVIOUS
    <3>2. g[0] \in Seq(P)
      BY <1>7, <3>1
    <3> QED
      BY <3>2
  <2>2. ASSUME NEW i \in T PROVE i + 1 \in T
    <3>1. SUFFICES ASSUME i + 1 \in 0..m PROVE g[i + 1] \in Seq(P)
      OBVIOUS
    <3> DEFINE j == i + 1
    <3>2. j \in 1..m /\ j - 1 = i /\ i \in 0..m
      BY <1>0, <3>1
    <3> HIDE DEF j
    <3>3. g[i] \in Seq(P) /\ g[j] = next(j, g[i])
      BY <1>6, <3>2
    <3>4. g[j] \in Seq(P)
      <4> QED
        BY <1>1, <3>2, <3>3
    <3> QED
      BY <3>4 DEF j
  <2>3. T \in SUBSET Nat
    OBVIOUS
  <2> HIDE DEF T
  <2> QED
    BY <2>1, <2>2, <2>3, SetInduction
<1>9. g \in [0..m -> Seq(P)]
  <2>1. g = [i \in 0..m |-> g[i]]
    BY <1>4
  <2>2. \A i \in 0..m : g[i] \in Seq(P)
    BY <1>8, <1>0
  <2> QED
    BY <2>1, <2>2
<1>10. \A i \in 1..m : g[i] = IF ids[i] = "" THEN g[i - 1]
                              ELSE S!KeepFirst(g[i - 1], SpecOf(ids, names, i))
  BY <1>6, <1>a DEF next
<1> QED
  BY <1>5, <1>7, <1>9, <1>10 DEF m, ids, names, P

Blank(text) == text = ""

\* A spec has the first name among the first n entries of its list, if any.
Named(spec, entries, ids, names, n) ==
  \/ spec.name = "" /\ \A i \in entries \cap (1..n) : ids[i] = spec.id => names[i] = ""
  \/ \E j \in entries \cap (1..n) :
        /\ ids[j] = spec.id /\ spec.name = names[j] /\ names[j] # ""
        /\ \A i \in entries \cap (1..n) : ids[i] = spec.id /\ names[i] # "" => j <= i

\* What another line names does not change it, unless it has no name yet.
LEMMA NamedStays ==
  ASSUME NEW spec, NEW entries, NEW ids, NEW names, NEW n \in Nat \ {0},
         Named(spec, entries, ids, names, n - 1),
         n \in entries /\ ids[n] = spec.id => ~Blank(spec.name)
  PROVE  Named(spec, entries, ids, names, n)
<1> DEFINE before == entries \cap (1..(n - 1))
           upTo == entries \cap (1..n)
<1>0. /\ \A i \in 1..(n - 1) : i \in 1..n /\ i < n /\ i \in Nat
      /\ \A i \in 1..n : i \in 1..(n - 1) \/ i = n
  OBVIOUS
<1>1. before \subseteq upTo
  BY <1>0
<1>2. ASSUME NEW i \in upTo, i \notin before PROVE i = n /\ n \in entries
  <2>1. i \in entries /\ i \in 1..n
    BY <1>2
  <2>2. i \notin 1..(n - 1)
    BY <1>2, <2>1
  <2> QED
    BY <1>0, <2>1, <2>2
<1>3. \A i \in before : i < n /\ i \in Nat
  BY <1>0
<1> HIDE DEF before, upTo
<1>4. CASE spec.name = "" /\ \A i \in before : ids[i] = spec.id => names[i] = ""
  <2>1. \A i \in upTo : ids[i] = spec.id => names[i] = ""
    BY <1>2, <1>4 DEF Blank
  <2> QED
    BY <1>4, <2>1 DEF Named, upTo
<1>5. CASE \E j \in before :
              /\ ids[j] = spec.id /\ spec.name = names[j] /\ names[j] # ""
              /\ \A i \in before : ids[i] = spec.id /\ names[i] # "" => j <= i
  <2>1. PICK j \in before :
              /\ ids[j] = spec.id /\ spec.name = names[j] /\ names[j] # ""
              /\ \A i \in before : ids[i] = spec.id /\ names[i] # "" => j <= i
    BY <1>5
  <2>2. j \in upTo
    BY <1>1
  <2>3. ASSUME NEW i \in upTo, ids[i] = spec.id, names[i] # "" PROVE j <= i
    <3>1. CASE i \in before
      BY <2>1, <2>3, <3>1
    <3>2. CASE i \notin before
      <4>1. i = n /\ j < n /\ j \in Nat
        BY <1>2, <1>3, <3>2
      <4> QED
        BY <4>1
    <3> QED
      BY <3>1, <3>2
  <2> QED
    BY <2>1, <2>2, <2>3 DEF Named, upTo
<1> QED
  BY <1>4, <1>5 DEF Named, before

\* The first entry with a name gives it.
LEMMA NamedNow ==
  ASSUME NEW entries, NEW ids, NEW names, NEW n \in Nat \ {0}, n \in entries,
         \A i \in entries \cap (1..(n - 1)) : ids[i] = ids[n] => Blank(names[i])
  PROVE  Named(SpecOf(ids, names, n), entries, ids, names, n)
<1> DEFINE upTo == entries \cap (1..n)
           spec == SpecOf(ids, names, n)
<1>1. spec.id = ids[n] /\ spec.name = names[n]
  BY DEF SpecOf
<1>2. n \in upTo
  OBVIOUS
<1>3. ASSUME NEW i \in upTo, ids[i] = spec.id, i # n PROVE names[i] = ""
  <2>1. i \in entries /\ i \in 1..n
    OBVIOUS
  <2>2. i # n
    BY <1>3
  <2>3. i \in 1..(n - 1)
    BY <2>1, <2>2
  <2> QED
    BY <1>1, <1>3, <2>1, <2>3 DEF Blank
<1> HIDE DEF upTo, spec
<1>4. CASE names[n] = ""
  <2>1. \A i \in upTo : ids[i] = spec.id => names[i] = ""
    BY <1>3, <1>4
  <2>2. Named(spec, entries, ids, names, n)
    BY <1>1, <1>4, <2>1 DEF Named, upTo
  <2> QED
    BY <2>2 DEF spec
<1>5. CASE names[n] # ""
  <2>1. ASSUME NEW i \in upTo, ids[i] = spec.id, names[i] # "" PROVE n <= i
    <3>1. i = n
      BY <1>3, <2>1
    <3>2. n \in Nat
      OBVIOUS
    <3> QED
      BY <3>1, <3>2
  <2>2. Named(spec, entries, ids, names, n)
    BY <1>1, <1>2, <1>5, <2>1 DEF Named, upTo
  <2> QED
    BY <2>2 DEF spec
<1> QED
  BY <1>4, <1>5

\* The lists that the first n lines name.
Specs(specs, entries, ids, names, n) ==
  /\ \E first : Firsts(specs, first, entries, ids, n)
  /\ \A k \in 1..Len(specs) : Named(specs[k], entries, ids, names, n)

\* An entry more is a list more, or maybe a name.
LEMMA SpecsGrow ==
  ASSUME NEW n \in Nat \ {0}, NEW P, NEW specs \in Seq(P), NEW entries, NEW ids, NEW names,
         Specs(specs, entries, ids, names, n - 1), n \in entries
  PROVE  Specs(S!AddSpec(specs, SpecOf(ids, names, n)), entries, ids, names, n)
<1> DEFINE l == Len(specs)
           spec == SpecOf(ids, names, n)
           more == S!AddSpec(specs, spec)
<1>1. l \in Nat /\ DOMAIN specs = 1..l
  OBVIOUS
<1>2. spec.id = ids[n] /\ spec.name = names[n]
  BY DEF SpecOf
<1>3. PICK first : Firsts(specs, first, entries, ids, n - 1)
  BY DEF Specs
<1>4. \A k \in 1..l : Named(specs[k], entries, ids, names, n - 1)
  BY DEF Specs
<1>5. CASE \A k \in 1..l : specs[k].id # ids[n]
  <2>1. more = Append(specs, spec)
    BY <1>1, <1>2, <1>5 DEF S!AddSpec
  <2> HIDE DEF spec
  <2>2. Len(more) = l + 1 /\ more[l + 1] = spec /\ \A k \in 1..l : more[k] = specs[k]
    <3> HIDE DEF more
    <3> QED
      BY <2>1
  <2> HIDE DEF more, l
  <2>3. \E next : Firsts(more, next, entries, ids, n)
    <3>1. Len(specs) = l
      BY DEF l
    <3>2. more[l + 1].id = ids[n]
      BY <1>2, <2>2
    <3>3. Len(more) = l + 1
      BY <2>2
    <3>4. \A k \in 1..l : more[k] = specs[k]
      BY <2>2
    <3>5. l \in Nat
      BY <1>1
    <3> QED
      BY <1>3, <1>5, <3>1, <3>2, <3>3, <3>4, <3>5, FirstsGrow
  <2>4. ASSUME NEW k \in 1..(l + 1) PROVE Named(more[k], entries, ids, names, n)
    <3>1. CASE k \in 1..l
      <4>1. Named(specs[k], entries, ids, names, n - 1) /\ specs[k].id # ids[n]
        BY <1>4, <1>5, <3>1
      <4>2. Named(specs[k], entries, ids, names, n)
        BY <4>1, NamedStays
      <4> QED
        BY <2>2, <3>1, <4>2
    <3>2. CASE k = l + 1
      <4>1. ASSUME NEW i \in entries \cap (1..(n - 1)) PROVE ids[i] # ids[n]
        <5>1. \E j \in 1..l : specs[j].id = ids[i]
          BY <1>3 DEF Firsts, l
        <5> QED
          BY <1>5, <5>1
      <4>2. Named(spec, entries, ids, names, n)
        BY <4>1, NamedNow DEF spec
      <4> QED
        BY <2>2, <3>2, <4>2
    <3>3. k \in 1..l \/ k = l + 1
      BY <1>1
    <3> QED
      BY <3>1, <3>2, <3>3
  <2>5. Specs(more, entries, ids, names, n)
    BY <2>2, <2>3, <2>4 DEF Specs
  <2> QED
    BY <2>5 DEF more, spec
<1>6. CASE \E k \in 1..l : specs[k].id = ids[n]
  <2> DEFINE now(k) == specs[k].id = spec.id /\ specs[k].name = ""
  <2>1. more = [k \in 1..l |-> IF now(k) THEN spec ELSE specs[k]]
    BY <1>1, <1>2, <1>6 DEF S!AddSpec
  <2> HIDE DEF spec, now
  <2>2. Len(more) = l /\ \A k \in 1..l : more[k] = IF now(k) THEN spec ELSE specs[k]
    <3> HIDE DEF more, l
    <3> QED
      BY <1>1, <2>1
  <2> HIDE DEF more, l
  <2>3. \A k \in 1..l : more[k].id = specs[k].id
    BY <2>2 DEF now
  <2>4. Firsts(more, first, entries, ids, n)
    <3>1. Len(specs) = l
      BY DEF l
    <3> QED
      BY <1>1, <1>3, <1>6, <2>2, <2>3, <3>1, FirstsStay
  <2>5. ASSUME NEW k \in 1..l PROVE Named(more[k], entries, ids, names, n)
    <3>1. CASE now(k)
      <4>1. more[k] = spec
        BY <2>2, <3>1
      <4>2. specs[k].id = ids[n] /\ specs[k].name = ""
        BY <1>2, <3>1 DEF now
      <4>3. ASSUME NEW i \in entries \cap (1..(n - 1)), ids[i] = ids[n] PROVE names[i] = ""
        BY <1>4, <4>2, <4>3 DEF Named
      <4>4. Named(spec, entries, ids, names, n)
        BY <4>3, NamedNow DEF spec, Blank
      <4> QED
        BY <4>1, <4>4
    <3>2. CASE ~now(k)
      <4>1. more[k] = specs[k] /\ (ids[n] = specs[k].id => specs[k].name # "")
        BY <1>2, <2>2, <3>2 DEF now
      <4>2. Named(specs[k], entries, ids, names, n)
        BY <1>4, <4>1, NamedStays DEF Blank
      <4> QED
        BY <4>1, <4>2
    <3> QED
      BY <3>1, <3>2
  <2>6. Specs(more, entries, ids, names, n)
    BY <2>2, <2>4, <2>5 DEF Specs
  <2> QED
    BY <2>6 DEF more, spec
<1> QED
  BY <1>5, <1>6

\* A line that is no entry changes nothing.
LEMMA SpecsStay ==
  ASSUME NEW n \in Nat \ {0}, NEW P, NEW specs \in Seq(P), NEW entries, NEW ids, NEW names,
         Specs(specs, entries, ids, names, n - 1), n \notin entries
  PROVE  Specs(specs, entries, ids, names, n)
<1> DEFINE l == Len(specs)
<1>1. PICK first : Firsts(specs, first, entries, ids, n - 1)
  BY DEF Specs
<1>2. Firsts(specs, first, entries, ids, n)
  <2>1. l \in Nat /\ \A k \in 1..l : specs[k].id = specs[k].id
    OBVIOUS
  <2> QED
    BY <1>1, <2>1, FirstsStay
<1>3. \A k \in 1..l : Named(specs[k], entries, ids, names, n)
  BY NamedStays DEF Specs
<1> QED
  BY <1>2, <1>3 DEF Specs

\* What ParseListSpecs returns are the lists that the lines name.
LEMMA SpecsParsed ==
  ASSUME NEW L, NEW lines \in Seq(L), AllNamed(lines)
  PROVE  /\ S!ParseListSpecs(lines).err = "none"
         /\ Len(S!ParseListSpecs(lines).specs) \in Nat
         /\ DOMAIN S!ParseListSpecs(lines).specs = 1..Len(S!ParseListSpecs(lines).specs)
         /\ Specs(S!ParseListSpecs(lines).specs, Entries(lines), EntryIDs(lines), Names(lines),
                  Len(lines))
<1> DEFINE m == Len(lines)
           entries == Entries(lines)
           ids == EntryIDs(lines)
           names == Names(lines)
           P == {SpecOf(ids, names, i) : i \in 1..m}
           parsed == S!ParseListSpecs(lines)
<1>0. m \in Nat
  OBVIOUS
<1>1. parsed.err = "none"
  BY SpecsSteps
<1>2. PICK f : /\ f \in [0..m -> Seq(P)] /\ f[0] = <<>>
               /\ \A n \in 1..m : f[n] = IF n \in entries
                                           THEN S!AddSpec(f[n - 1], SpecOf(ids, names, n))
                                         ELSE f[n - 1]
               /\ parsed.specs = f[m]
  BY SpecsSteps
<1> HIDE DEF m, entries, ids, names, P, parsed
<1> DEFINE T == {n \in Nat : n \in 0..m => Specs(f[n], entries, ids, names, n)}
<1>3. 0 \in T
  <2>1. Len(f[0]) = 0 /\ 1..0 = {}
    BY <1>2
  <2>2. Firsts(f[0], [i \in 1..0 |-> 0], entries, ids, 0)
    BY <2>1 DEF Firsts
  <2>3. Specs(f[0], entries, ids, names, 0)
    BY <2>1, <2>2 DEF Specs
  <2> QED
    BY <2>3
<1>4. ASSUME NEW k \in T PROVE k + 1 \in T
  <2>1. SUFFICES ASSUME k + 1 \in 0..m PROVE Specs(f[k + 1], entries, ids, names, k + 1)
    OBVIOUS
  <2> DEFINE n == k + 1
  <2>2. n \in 1..m /\ n - 1 = k /\ k \in 0..m /\ n \in Nat \ {0}
    BY <1>0, <2>1
  <2>3. Specs(f[k], entries, ids, names, k) /\ f[k] \in Seq(P)
    BY <1>2, <2>2
  <2> HIDE DEF n
  <2>4. Specs(f[n], entries, ids, names, n)
    <3>1. CASE n \in entries
      <4>1. f[n] = S!AddSpec(f[k], SpecOf(ids, names, n))
        BY <1>2, <2>2, <3>1
      <4> QED
        BY <2>2, <2>3, <3>1, <4>1, SpecsGrow
    <3>2. CASE n \notin entries
      <4>1. f[n] = f[k]
        BY <1>2, <2>2, <3>2
      <4> QED
        BY <2>2, <2>3, <3>2, <4>1, SpecsStay
    <3> QED
      BY <3>1, <3>2
  <2> QED
    BY <2>4 DEF n
<1>5. T = Nat
  <2>1. T \in SUBSET Nat
    OBVIOUS
  <2> HIDE DEF T
  <2> QED
    BY <1>3, <1>4, <2>1, SetInduction
<1>6. m \in 0..m
  BY <1>0
<1>7. Specs(f[m], entries, ids, names, m)
  BY <1>5, <1>6, <1>0
<1>8. Len(f[m]) \in Nat /\ DOMAIN f[m] = 1..Len(f[m])
  <2>1. f[m] \in Seq(P)
    BY <1>2, <1>6
  <2> QED
    BY <2>1
<1> QED
  BY <1>1, <1>2, <1>7, <1>8 DEF m, entries, ids, names, parsed

\* A line with a name has two columns, of which it is the first.
LEMMA LinesNamed ==
  ASSUME NEW lines \in Seq(Seq(Columns)), NEW i \in 1..Len(lines)
  PROVE  /\ ~Blank(Names(lines)[i]) <=> Len(S!TrimLine(lines[i])) = 2
         /\ Len(S!TrimLine(lines[i])) = 2 => Names(lines)[i] = S!TrimLine(lines[i])[1].text
<1> DEFINE trimmed == S!TrimLine(lines[i])
<1>1. Names(lines)[i] = IF Len(trimmed) = 2 THEN trimmed[1].text ELSE ""
  <2>1. i \in DOMAIN lines
    OBVIOUS
  <2>2. Names(lines)[i] = S!LineName(trimmed)
    BY <2>1 DEF Names
  <2> QED
    BY <2>2 DEF S!LineName
<1>2. lines[i] \in Seq(Columns)
  OBVIOUS
<1>3. \A k \in 1..Len(trimmed) : trimmed[k].text # ""
  BY <1>2, TrimmedLine
<1> HIDE DEF trimmed
<1>4. CASE Len(trimmed) = 2
  <2>1. 1 \in 1..Len(trimmed)
    BY <1>4
  <2>2. trimmed[1].text # ""
    BY <1>3, <2>1
  <2> QED
    BY <1>1, <1>4, <2>2 DEF Blank, trimmed
<1>5. CASE Len(trimmed) # 2
  BY <1>1, <1>5 DEF Blank, trimmed
<1> QED
  BY <1>4, <1>5

\* Each list is named once, in order, with its first name; a bad line is told.
LEMMA SpecsAlwaysNormal ==
  ASSUME NEW lines \in Seq(Seq(Columns))
  PROVE  S!SpecsNormal(lines)
<1> DEFINE parsed == S!ParseListSpecs(lines)
           specs == parsed.specs
           m == Len(lines)
           entries == {i \in DOMAIN lines : S!IsEntry(lines[i])}
           of(id) == {i \in entries : S!EntryID(lines[i]) = id}
           named(id) == {i \in of(id) : Len(S!TrimLine(lines[i])) = 2}
           Normal ==
             /\ \A i \in entries : \E k \in DOMAIN specs : specs[k].id = S!EntryID(lines[i])
             /\ \A k \in DOMAIN specs : of(specs[k].id) # {}
             /\ \A j, k \in DOMAIN specs : j < k => S!Min(of(specs[j].id)) < S!Min(of(specs[k].id))
             /\ \A k \in DOMAIN specs :
                   specs[k].name = IF named(specs[k].id) = {} THEN ""
                                   ELSE S!TrimLine(lines[S!Min(named(specs[k].id))])[1].text
<1>1. m \in Nat /\ DOMAIN lines = 1..m
  OBVIOUS
<1>2. entries = Entries(lines) /\ \A i \in entries : EntryIDs(lines)[i] = S!EntryID(lines[i])
  BY DEF Entries, EntryIDs
<1>3. entries \in SUBSET (1..m)
  <2>1. entries \in SUBSET DOMAIN lines
    OBVIOUS
  <2> HIDE DEF entries
  <2> QED
    BY <1>1, <2>1
<1>4. CASE of("") # {}
  <2>a. of("") \in SUBSET Nat /\ of("") \in SUBSET Int
    <3>1. of("") \in SUBSET entries
      OBVIOUS
    <3> HIDE DEF of, entries, m
    <3>2. \A i \in 1..m : i \in Nat /\ i \in Int
      BY <1>1
    <3>3. \A i \in of("") : i \in Nat /\ i \in Int
      BY <1>3, <3>1, <3>2
    <3> QED
      BY <3>3
  <2>1. PICK n \in of("") : \A i \in of("") : n <= i
    <3> HIDE DEF of
    <3> QED
      BY <1>4, <2>a, Least
  <2>2. S!Min(of("")) = n
    <3> HIDE DEF of
    <3> QED
      BY <2>a, <2>1, MinIs
  <2>3. parsed.err = "no ID"
    BY <1>4 DEF S!ParseListSpecs
  <2>4. parsed.line = n
    <3>1. parsed.line = S!Min(of(""))
      BY <1>4 DEF S!ParseListSpecs
    <3> QED
      BY <2>2, <3>1
  <2> HIDE DEF Normal, of, parsed
  <2>5. /\ parsed.err = "none" <=> entries # {} /\ of("") = {}
        /\ parsed.err = "no ID" => parsed.line \in of("") /\ \A i \in of("") : parsed.line <= i
        /\ parsed.err = "none" => Normal
    BY <1>4, <2>1, <2>3, <2>4
  <2> QED
    BY <2>5 DEF S!SpecsNormal, Normal, of, parsed
<1>5. CASE of("") = {} /\ entries = {}
  <2>1. parsed = [err |-> "empty", line |-> 0, specs |-> <<>>]
    BY <1>5 DEF S!ParseListSpecs
  <2>2. parsed.err = "empty"
    BY <2>1
  <2> HIDE DEF Normal, of, parsed
  <2>3. /\ parsed.err = "none" <=> entries # {} /\ of("") = {}
        /\ parsed.err = "no ID" => parsed.line \in of("") /\ \A i \in of("") : parsed.line <= i
        /\ parsed.err = "none" => Normal
    BY <1>5, <2>2
  <2> QED
    BY <2>3 DEF S!SpecsNormal, Normal, of, parsed
<1>6. CASE of("") = {} /\ entries # {}
  <2> DEFINE ids == EntryIDs(lines)
             names == Names(lines)
  <2>1. AllNamed(lines)
    BY <1>2, <1>6 DEF AllNamed
  <2>2. /\ parsed.err = "none" /\ Len(specs) \in Nat /\ DOMAIN specs = 1..Len(specs)
        /\ Specs(specs, entries, ids, names, m)
    BY <1>2, <2>1, SpecsParsed
  <2>3. \A i \in entries : ~Blank(names[i]) <=> Len(S!TrimLine(lines[i])) = 2
    BY <1>1, <1>3, LinesNamed
  <2>4. \A i \in entries : Len(S!TrimLine(lines[i])) = 2 => names[i] = S!TrimLine(lines[i])[1].text
    BY <1>1, <1>3, LinesNamed
  <2> HIDE DEF entries, parsed, ids, names, m
  <2>5. entries \cap (1..m) = entries
    BY <1>3
  <2>6. PICK first : Firsts(specs, first, entries, ids, m)
    BY <2>2 DEF Specs
  <2> DEFINE l == Len(specs)
  <2>7. /\ first \in [1..l -> entries]
        /\ \A j, k \in 1..l : j < k => first[j] < first[k]
        /\ \A k \in 1..l : ids[first[k]] = specs[k].id
        /\ \A k \in 1..l : \A i \in entries : ids[i] = specs[k].id => first[k] <= i
        /\ \A i \in entries : \E k \in 1..l : specs[k].id = ids[i]
    BY <2>5, <2>6 DEF Firsts
  <2>8. \A k \in 1..l : Named(specs[k], entries, ids, names, m)
    BY <2>2 DEF Specs
  <2> HIDE DEF specs, l
  <2>9. \A i \in entries : i \in Int
    BY <1>1, <1>3
  <2>10. ASSUME NEW k \in 1..l
         PROVE  of(specs[k].id) # {} /\ S!Min(of(specs[k].id)) = first[k]
    <3> DEFINE T == of(specs[k].id)
    <3>1. T \in SUBSET entries
      OBVIOUS
    <3>2. first[k] \in T
      BY <1>2, <2>7 DEF ids
    <3>3. \A i \in T : first[k] <= i
      BY <1>2, <2>7 DEF ids
    <3> HIDE DEF T
    <3>4. T \in SUBSET Int
      BY <2>9, <3>1
    <3>5. S!Min(T) = first[k]
      BY <3>2, <3>3, <3>4, MinIs
    <3> QED
      BY <3>2, <3>5 DEF T
  <2>11. ASSUME NEW k \in 1..l
         PROVE  specs[k].name = IF named(specs[k].id) = {} THEN ""
                                ELSE S!TrimLine(lines[S!Min(named(specs[k].id))])[1].text
    <3> DEFINE id == specs[k].id
               T == named(id)
    <3>1. \A i \in entries : i \in T <=> ids[i] = id /\ ~Blank(names[i])
      BY <1>2, <2>3 DEF ids
    <3>2. T \in SUBSET entries
      OBVIOUS
    <3>3. T \in SUBSET Int
      <4> HIDE DEF T
      <4> QED
        BY <2>9, <3>2
    <3>4. \A i \in T : names[i] = S!TrimLine(lines[i])[1].text
      BY <2>4
    <3> HIDE DEF T, id
    <3>5. CASE specs[k].name = "" /\ \A i \in entries : ids[i] = id => names[i] = ""
      <4>1. \A i \in entries : i \notin T
        BY <3>1, <3>5 DEF Blank
      <4>2. T = {}
        BY <3>2, <4>1
      <4> QED
        BY <3>5, <4>2 DEF T, id
    <3>6. CASE \E j \in entries :
                 /\ ids[j] = id /\ specs[k].name = names[j] /\ names[j] # ""
                 /\ \A i \in entries : ids[i] = id /\ names[i] # "" => j <= i
      <4>1. PICK j \in entries :
                 /\ ids[j] = id /\ specs[k].name = names[j] /\ names[j] # ""
                 /\ \A i \in entries : ids[i] = id /\ names[i] # "" => j <= i
        BY <3>6
      <4>2. j \in T
        BY <3>1, <4>1 DEF Blank
      <4>3. \A i \in T : j <= i
        BY <3>1, <3>2, <4>1 DEF Blank
      <4>4. S!Min(T) = j
        BY <3>3, <4>2, <4>3, MinIs
      <4>5. specs[k].name = S!TrimLine(lines[j])[1].text
        BY <3>4, <4>1, <4>2
      <4> QED
        BY <4>2, <4>4, <4>5 DEF T, id
    <3> QED
      BY <2>5, <2>8, <3>5, <3>6 DEF Named, id
  <2>12. Normal
    <3>1. DOMAIN specs = 1..l
      BY <2>2 DEF specs, l
    <3>2. ASSUME NEW i \in entries PROVE \E k \in DOMAIN specs : specs[k].id = S!EntryID(lines[i])
      <4>1. PICK k \in 1..l : specs[k].id = ids[i]
        BY <2>7
      <4>2. ids[i] = S!EntryID(lines[i])
        BY <1>2 DEF ids
      <4> QED
        BY <3>1, <4>1, <4>2
    <3>3. \A k \in DOMAIN specs : of(specs[k].id) # {}
      BY <2>10, <3>1
    <3> HIDE DEF of, named
    <3>4. ASSUME NEW j \in DOMAIN specs, NEW k \in DOMAIN specs, j < k
          PROVE  S!Min(of(specs[j].id)) < S!Min(of(specs[k].id))
      <4>1. j \in 1..l /\ k \in 1..l
        BY <3>1
      <4>2. S!Min(of(specs[j].id)) = first[j] /\ S!Min(of(specs[k].id)) = first[k]
        BY <2>10, <4>1
      <4>3. first[j] < first[k]
        BY <2>7, <3>4, <4>1
      <4> QED
        BY <4>2, <4>3
    <3>5. \A k \in DOMAIN specs :
             specs[k].name = IF named(specs[k].id) = {} THEN ""
                             ELSE S!TrimLine(lines[S!Min(named(specs[k].id))])[1].text
      BY <2>11, <3>1
    <3> QED
      BY <3>2, <3>3, <3>4, <3>5
  <2> HIDE DEF Normal, of
  <2>13. /\ parsed.err = "none" <=> entries # {} /\ of("") = {}
         /\ parsed.err = "no ID" => parsed.line \in of("") /\ \A i \in of("") : parsed.line <= i
         /\ parsed.err = "none" => Normal
    BY <1>6, <2>2, <2>12
  <2> QED
    BY <2>13 DEF S!SpecsNormal, Normal, of, parsed, specs, entries
<1> QED
  BY <1>4, <1>5, <1>6

\* The links with an ID.
Real(links) == {i \in DOMAIN links : ~Blank(LinkIDs(links)[i])}

\* The lists that the first n links name, each as its first link has it.
Harvest(specs, first, links, n) ==
  /\ Firsts(specs, first, Real(links), LinkIDs(links), n)
  /\ \A k \in 1..Len(specs) : specs[k] = SpecOf(LinkIDs(links), LinkNames(links), first[k])

\* A link more is a list more, or nothing.
LEMMA HarvestGrows ==
  ASSUME NEW n \in Nat \ {0}, NEW P, NEW specs \in Seq(P), NEW links, n \in DOMAIN links,
         NEW first, Harvest(specs, first, links, n - 1)
  PROVE  \E next : Harvest(IF Blank(LinkIDs(links)[n]) THEN specs
                           ELSE S!KeepFirst(specs, SpecOf(LinkIDs(links), LinkNames(links), n)),
                           next, links, n)
<1> DEFINE l == Len(specs)
           ids == LinkIDs(links)
           names == LinkNames(links)
           spec == SpecOf(ids, names, n)
           real == Real(links)
           known == \E k \in 1..l : specs[k].id = ids[n]
<1>1. l \in Nat /\ DOMAIN specs = 1..l
  OBVIOUS
<1>2. spec.id = ids[n]
  BY DEF SpecOf
<1>3. n \in real <=> ~Blank(ids[n])
  BY DEF Real
<1>4. Firsts(specs, first, real, ids, n - 1)
  BY DEF Harvest
<1>5. \A k \in 1..l : specs[k] = SpecOf(ids, names, first[k])
  BY DEF Harvest
<1> HIDE DEF ids, names, real
<1>6. CASE Blank(ids[n]) \/ known
  <2>1. (IF Blank(ids[n]) THEN specs ELSE S!KeepFirst(specs, spec)) = specs
    BY <1>1, <1>2, <1>6 DEF S!KeepFirst
  <2>2. n \in real => known
    BY <1>3, <1>6
  <2>3. Firsts(specs, first, real, ids, n)
    <3> HIDE DEF known, l
    <3>1. Len(specs) = l /\ \A k \in 1..l : specs[k].id = specs[k].id
      BY DEF l
    <3>2. n \in real => \E k \in 1..l : specs[k].id = ids[n]
      BY <2>2 DEF known
    <3> QED
      BY <1>1, <1>4, <3>1, <3>2, FirstsStay
  <2>4. Harvest(specs, first, links, n)
    BY <1>5, <2>3 DEF Harvest, real, ids, names
  <2> QED
    BY <2>1, <2>4 DEF ids, names
<1>7. CASE ~Blank(ids[n]) /\ ~known
  <2> DEFINE more == Append(specs, spec)
  <2>1. (IF Blank(ids[n]) THEN specs ELSE S!KeepFirst(specs, spec)) = more
    BY <1>1, <1>2, <1>7 DEF S!KeepFirst
  <2> HIDE DEF spec
  <2>2. Len(more) = l + 1 /\ more[l + 1] = spec /\ \A k \in 1..l : more[k] = specs[k]
    OBVIOUS
  <2> HIDE DEF more, l
  <2>3. PICK next : Firsts(more, next, real, ids, n) /\ OneMore(next, first, l, n)
    <3>1. Len(specs) = l
      BY DEF l
    <3>2. more[l + 1].id = ids[n]
      BY <1>2, <2>2
    <3>3. n \in real
      BY <1>3, <1>7
    <3>4. \A k \in 1..l : specs[k].id # ids[n]
      BY <1>7
    <3>5. Len(more) = l + 1
      BY <2>2
    <3>6. \A k \in 1..l : more[k] = specs[k]
      BY <2>2
    <3>7. l \in Nat
      BY <1>1
    <3> HIDE DEF known
    <3> QED
      BY <1>4, <3>7, <3>1, <3>2, <3>3, <3>4, <3>5, <3>6, FirstsGrow
  <2>4. \A k \in 1..(l + 1) : k = l + 1 \/ k \in 1..l
    BY <1>1
  <2>5. \A k \in 1..(l + 1) : more[k] = SpecOf(ids, names, next[k])
    BY <1>5, <2>2, <2>3, <2>4 DEF spec, OneMore
  <2>6. Harvest(more, next, links, n)
    BY <2>2, <2>3, <2>5 DEF Harvest, real, ids, names
  <2> QED
    BY <2>1, <2>6 DEF ids, names, spec
<1> QED
  BY <1>6, <1>7

\* What specsFromListLinks returns are the lists that the links name.
LEMMA LinksParsed ==
  ASSUME NEW L, NEW links \in Seq(L)
  PROVE  LET specs == S!SpecsFromListLinks(links)
         IN  /\ Len(specs) \in Nat /\ DOMAIN specs = 1..Len(specs)
             /\ \E first : Harvest(specs, first, links, Len(links))
<1> DEFINE m == Len(links)
           ids == LinkIDs(links)
           names == LinkNames(links)
           P == {SpecOf(ids, names, i) : i \in 1..m}
<1>0. m \in Nat /\ DOMAIN links = 1..m
  OBVIOUS
<1>1. PICK f : /\ f \in [0..m -> Seq(P)] /\ f[0] = <<>>
               /\ \A n \in 1..m :
                     f[n] = IF ids[n] = "" THEN f[n - 1]
                            ELSE S!KeepFirst(f[n - 1], SpecOf(ids, names, n))
               /\ S!SpecsFromListLinks(links) = f[m]
  BY LinksSteps
<1>2. \A n \in 1..m : f[n] = IF Blank(ids[n]) THEN f[n - 1]
                             ELSE S!KeepFirst(f[n - 1], SpecOf(ids, names, n))
  BY <1>1 DEF Blank
<1>a. f \in [0..m -> Seq(P)] /\ f[0] = <<>>
  BY <1>1
<1> HIDE DEF m, ids, names, P
<1> DEFINE T == {n \in Nat : n \in 0..m => \E first : Harvest(f[n], first, links, n)}
<1>3. 0 \in T
  <2>1. Len(f[0]) = 0 /\ 1..0 = {}
    BY <1>a
  <2>2. Firsts(f[0], [i \in 1..0 |-> 0], Real(links), LinkIDs(links), 0)
    BY <2>1 DEF Firsts
  <2>3. Harvest(f[0], [i \in 1..0 |-> 0], links, 0)
    BY <2>1, <2>2 DEF Harvest
  <2> QED
    BY <2>3
<1>4. ASSUME NEW k \in T PROVE k + 1 \in T
  <2>1. SUFFICES ASSUME k + 1 \in 0..m PROVE \E next : Harvest(f[k + 1], next, links, k + 1)
    OBVIOUS
  <2> DEFINE n == k + 1
  <2>2. n \in 1..m /\ n - 1 = k /\ k \in 0..m /\ n \in Nat \ {0}
    BY <1>0, <2>1
  <2>3. PICK first : Harvest(f[k], first, links, k)
    BY <2>2
  <2> HIDE DEF n
  <2>4. f[k] \in Seq(P) /\ n \in DOMAIN links
    BY <1>0, <1>1, <2>2
  <2>5. f[n] = IF Blank(ids[n]) THEN f[k] ELSE S!KeepFirst(f[k], SpecOf(ids, names, n))
    BY <1>2, <2>2
  <2>6. \E next : Harvest(f[n], next, links, n)
    BY <2>2, <2>3, <2>4, <2>5, HarvestGrows DEF ids, names
  <2> QED
    BY <2>6 DEF n
<1>5. T = Nat
  <2>1. T \in SUBSET Nat
    OBVIOUS
  <2> HIDE DEF T
  <2> QED
    BY <1>3, <1>4, <2>1, SetInduction
<1>6. m \in 0..m
  BY <1>0
<1>7. \E first : Harvest(f[m], first, links, m)
  BY <1>5, <1>6, <1>0
<1>8. Len(f[m]) \in Nat /\ DOMAIN f[m] = 1..Len(f[m])
  <2>1. f[m] \in Seq(P)
    BY <1>1, <1>6
  <2> QED
    BY <2>1
<1> QED
  BY <1>1, <1>7, <1>8 DEF m

\* A column by itself is a line that names what is in it.
LEMMA ColumnAlone ==
  ASSUME NEW c \in Columns, ~Blank(c.text), ~c.comment
  PROVE  S!IsEntry(<<c>>) /\ S!EntryID(<<c>>) = S!ExtractListID(c)
<1> DEFINE line == <<c>>
           shown == {i \in DOMAIN line : line[i].text # ""}
<1>1. line \in Seq(Columns) /\ Len(line) = 1 /\ line[1] = c /\ DOMAIN line = {1}
  OBVIOUS
<1>2. 1 \in shown
  BY <1>1 DEF Blank
<1>3. S!TrimLine(line) = S!Kept(line, shown)
  BY DEF S!TrimLine
<1> HIDE DEF line, shown
<1>4. PICK kept : KeepsTo(kept, line, shown) /\ S!Kept(line, shown) = kept[Len(line)]
  BY <1>1, KeptSteps
<1>5. kept[1] = Append(<<>>, c)
  <2>1. kept[0] = <<>> /\ \A n \in 1..Len(line) :
           kept[n] = IF n \in shown THEN Append(kept[n - 1], line[n]) ELSE kept[n - 1]
    BY <1>4 DEF KeepsTo
  <2>2. 1 \in 1..Len(line) /\ 1 - 1 = 0
    BY <1>1
  <2> QED
    BY <1>1, <1>2, <2>1, <2>2
<1>6. Append(<<>>, c) = <<c>>
  OBVIOUS
<1>7. S!TrimLine(line) = <<c>>
  BY <1>1, <1>3, <1>4, <1>5, <1>6
<1>8. S!IsEntry(line)
  <2>1. <<c>> # <<>> /\ <<c>>[1] = c
    OBVIOUS
  <2> QED
    BY <1>7, <2>1 DEF S!IsEntry
<1>9. S!EntryID(line) = S!ExtractListID(c)
  <2>1. Len(<<c>>) = 1 /\ <<c>>[1] = c
    OBVIOUS
  <2>2. S!LineValue(<<c>>) = c
    BY <2>1 DEF S!LineValue, S!Last
  <2> QED
    BY <1>7, <2>2 DEF S!EntryID
<1> QED
  BY <1>8, <1>9 DEF line

\* Lists stand in the same order where only what names one is kept.
LEMMA FirstsKept ==
  ASSUME NEW n \in Nat, NEW E \in SUBSET Nat, NEW at, Enumerates(at, n, E), NEW ids, NEW kept,
         \A i \in 1..n : kept[i] = ids[at[i]],
         NEW l \in Nat, NEW b, Enumerates(b, l, FirstOnes(1..n, kept))
  PROVE  Enumerates([k \in 1..l |-> at[b[k]]], l, FirstOnes(E, ids))
<1> DEFINE c == [k \in 1..l |-> at[b[k]]]
           ones == FirstOnes(1..n, kept)
<1>1. /\ at \in [1..n -> E]
      /\ \A i, j \in 1..n : i < j => at[i] < at[j]
      /\ \A i \in E : \E j \in 1..n : at[j] = i
  BY DEF Enumerates
<1>2. /\ b \in [1..l -> ones]
      /\ \A i, j \in 1..l : i < j => b[i] < b[j]
      /\ \A i \in ones : \E j \in 1..l : b[j] = i
  BY DEF Enumerates
<1>3. \A i \in ones : i \in 1..n /\ \A j \in 1..n : kept[j] = kept[i] => i <= j
  BY DEF FirstOnes
<1>4. \A k \in 1..l : c[k] = at[b[k]] /\ b[k] \in ones /\ b[k] \in 1..n
  BY <1>2, <1>3
<1>5. \A i, j \in 1..n : i <= j <=> at[i] <= at[j]
  <2> SUFFICES ASSUME NEW i \in 1..n, NEW j \in 1..n PROVE i <= j <=> at[i] <= at[j]
    OBVIOUS
  <2>1. at[i] \in Nat /\ at[j] \in Nat
    BY <1>1
  <2>2. i < j \/ i = j \/ j < i
    OBVIOUS
  <2>3. CASE i < j
    <3>1. at[i] < at[j]
      BY <1>1, <2>3
    <3> QED
      BY <2>1, <2>3, <3>1
  <2>4. CASE i = j
    BY <2>1, <2>4
  <2>5. CASE j < i
    <3>1. at[j] < at[i]
      BY <1>1, <2>5
    <3> QED
      BY <2>1, <2>5, <3>1
  <2> QED
    BY <2>2, <2>3, <2>4, <2>5
<1> HIDE DEF ones
<1>6. ASSUME NEW k \in 1..l PROVE c[k] \in FirstOnes(E, ids)
  <2>1. c[k] \in E
    BY <1>1, <1>4
  <2>2. ASSUME NEW j \in E, ids[j] = ids[c[k]] PROVE c[k] <= j
    <3>1. PICK i \in 1..n : at[i] = j
      BY <1>1
    <3>2. kept[i] = kept[b[k]]
      BY <1>4, <2>2, <3>1
    <3>3. b[k] <= i
      BY <1>3, <1>4, <3>2
    <3> QED
      BY <1>4, <1>5, <3>1, <3>3
  <2> QED
    BY <2>1, <2>2 DEF FirstOnes
<1>7. ASSUME NEW i \in 1..l, NEW j \in 1..l, i < j PROVE c[i] < c[j]
  <2>1. b[i] < b[j]
    BY <1>2, <1>7
  <2> QED
    BY <1>1, <1>4, <2>1
<1>8. ASSUME NEW i \in FirstOnes(E, ids) PROVE \E k \in 1..l : c[k] = i
  <2>1. i \in E /\ \A j \in E : ids[j] = ids[i] => i <= j
    BY DEF FirstOnes
  <2>2. PICK p \in 1..n : at[p] = i
    BY <1>1, <2>1
  <2>3. ASSUME NEW q \in 1..n, kept[q] = kept[p] PROVE p <= q
    <3>1. at[q] \in E /\ ids[at[q]] = ids[i]
      BY <1>1, <2>2, <2>3
    <3>2. at[p] <= at[q]
      BY <2>1, <2>2, <3>1
    <3> QED
      BY <1>5, <3>2
  <2>4. p \in ones
    BY <2>3 DEF FirstOnes, ones
  <2>5. PICK k \in 1..l : b[k] = p
    BY <1>2, <2>4
  <2> QED
    BY <1>4, <2>2, <2>5
<1>9. c \in [1..l -> FirstOnes(E, ids)]
  BY <1>6
<1> HIDE DEF c
<1>10. Enumerates(c, l, FirstOnes(E, ids))
  BY <1>7, <1>8, <1>9 DEF Enumerates
<1> QED
  BY <1>10 DEF c

\* Lines that all have IDs name the lists that come first in them.
LEMMA AllParsed ==
  ASSUME NEW L, NEW lines \in Seq(L),
         \A i \in 1..Len(lines) : S!IsEntry(lines[i]) /\ ~Blank(EntryIDs(lines)[i])
  PROVE  LET specs == S!ParseListSpecs(lines).specs
             ids   == EntryIDs(lines)
         IN  /\ Len(specs) \in Nat /\ DOMAIN specs = 1..Len(specs)
             /\ \E b : /\ Enumerates(b, Len(specs), FirstOnes(1..Len(lines), ids))
                       /\ \A k \in 1..Len(specs) : specs[k].id = ids[b[k]]
<1> DEFINE specs == S!ParseListSpecs(lines).specs
           ids == EntryIDs(lines)
           m == Len(lines)
<1>1. m \in Nat /\ DOMAIN lines = 1..m
  OBVIOUS
<1>2. Entries(lines) = 1..m
  BY <1>1 DEF Entries
<1>3. CASE m = 0
  <2>1. DOMAIN lines = {}
    BY <1>1, <1>3
  <2>2. {i \in DOMAIN lines : S!IsEntry(lines[i])} = {}
    BY <2>1
  <2>3. S!ParseListSpecs(lines) = [err |-> "empty", line |-> 0, specs |-> <<>>]
    BY <2>2 DEF S!ParseListSpecs
  <2>4. specs = <<>>
    BY <2>3
  <2> HIDE DEF specs, ids, m
  <2>5. Len(specs) = 0 /\ DOMAIN specs = 1..0 /\ 1..0 = {}
    BY <2>4
  <2>6. FirstOnes(1..m, ids) = {}
    BY <1>3, <2>5 DEF FirstOnes
  <2>7. Enumerates([i \in 1..0 |-> 0], 0, FirstOnes(1..m, ids))
    BY <2>5, <2>6 DEF Enumerates
  <2>8. \A k \in 1..Len(specs) : specs[k].id = ids[[i \in 1..0 |-> 0][k]]
    BY <2>5
  <2> QED
    BY <2>5, <2>7, <2>8 DEF specs, ids, m
<1>4. CASE m # 0
  <2>1. 1 \in Entries(lines)
    BY <1>1, <1>2, <1>4
  <2>2. AllNamed(lines)
    BY <1>2, <2>1 DEF AllNamed, Blank
  <2>3. /\ Len(specs) \in Nat /\ DOMAIN specs = 1..Len(specs)
        /\ Specs(specs, 1..m, ids, Names(lines), m)
    BY <1>2, <2>2, SpecsParsed
  <2> HIDE DEF specs, ids, m
  <2>4. PICK b : Firsts(specs, b, 1..m, ids, m)
    BY <2>3 DEF Specs
  <2>5. Enumerates(b, Len(specs), FirstOnes(1..m, ids))
    BY <1>1, <2>4, FirstsEnumerate
  <2>6. \A k \in 1..Len(specs) : specs[k].id = ids[b[k]]
    BY <2>4 DEF Firsts
  <2> QED
    BY <2>3, <2>5, <2>6 DEF specs, ids, m
<1> QED
  BY <1>3, <1>4

\* The links of a page name the lists that they name when pasted, each once.
LEMMA LinksAlwaysHarvested ==
  ASSUME NEW links \in Links
  PROVE  S!LinksHarvested(links)
<1> DEFINE L == {links[i] : i \in DOMAIN links}
           m == Len(links)
           ids == LinkIDs(links)
           names == LinkNames(links)
           real == Real(links)
           specs == S!SpecsFromListLinks(links)
           lines == [i \in DOMAIN links |-> <<links[i].href>>]
           kept == S!Kept(lines, real)
           pasted == S!ParseListSpecs(kept).specs
           n == Len(kept)
           l == Len(specs)
<1>1. links \in Seq(L)
  BY ParsersAssumption DEF IsSeq
<1>2. m \in Nat /\ DOMAIN links = 1..m
  <2> HIDE DEF L
  <2> QED
    BY <1>1
<1>3. \A i \in 1..m : /\ links[i].href \in Columns
                      /\ ~Blank(links[i].href.text) /\ ~links[i].href.comment
  BY <1>2, ParsersAssumption DEF Blank
<1>4. \A i \in 1..m : ids[i] = S!ExtractListID(links[i].href) /\ names[i] = links[i].name
  BY <1>2 DEF LinkIDs, LinkNames
<1>5. real = {i \in DOMAIN links : S!ExtractListID(links[i].href) # ""}
  BY <1>2, <1>4 DEF Real, Blank
<1>6. real \in SUBSET (1..m) /\ \A i \in real : ~Blank(ids[i])
  BY <1>2 DEF Real
<1>7. lines \in Seq(Seq(Columns)) /\ Len(lines) = m /\ \A i \in 1..m : lines[i] = <<links[i].href>>
  <2>1. lines = [i \in 1..m |-> <<links[i].href>>]
    BY <1>2
  <2>2. \A i \in 1..m : <<links[i].href>> \in Seq(Columns)
    BY <1>3
  <2> DEFINE A == Seq(Columns)
  <2> HIDE DEF A, m
  <2>3. lines \in [1..m -> A]
    BY <2>1, <2>2 DEF A
  <2> HIDE DEF lines
  <2>4. lines \in Seq(A) /\ Len(lines) = m
    BY <1>2, <2>3
  <2> QED
    BY <2>1, <2>4 DEF A
<1>8. /\ l \in Nat /\ DOMAIN specs = 1..l
      /\ \E first : Harvest(specs, first, links, m)
  <2> HIDE DEF L
  <2> QED
    BY <1>1, LinksParsed
<1>9. PICK first : Harvest(specs, first, links, m)
  BY <1>8
<1> HIDE DEF L, m, ids, names, real, specs, lines, l
<1>10. Firsts(specs, first, real, ids, m) /\ \A k \in 1..l : specs[k] = SpecOf(ids, names, first[k])
  BY <1>9 DEF Harvest, real, ids, names, l
<1>11. Enumerates(first, l, FirstOnes(real, ids))
  BY <1>2, <1>6, <1>10, FirstsEnumerate DEF l
<1>12. real \cap (1..m) = real
  <2>1. \A i \in real : i \in 1..m
    BY <1>6
  <2> QED
    BY <2>1
<1>13. PICK at : Enumerates(at, n, real) /\ \A i \in 1..n : kept[i] = lines[at[i]]
  <2>1. real \in SUBSET (1..Len(lines))
    BY <1>6, <1>7
  <2> DEFINE A == Seq(Columns)
  <2> HIDE DEF A
  <2>2. lines \in Seq(A) /\ Len(lines) = Len(lines)
    BY <1>7 DEF A
  <2>3. \E at : /\ Enumerates(at, Len(S!Kept(lines, real)), real)
                /\ \A i \in 1..Len(S!Kept(lines, real)) :
                      /\ S!Kept(lines, real)[i] = lines[at[i]]
                      /\ S!Kept(lines, real)[i] = lines[at[i]]
    <3> HIDE DEF kept, n
    <3> QED
      BY <2>1, <2>2, KeptIs
  <2> QED
    BY <2>3
<1>14. kept \in Seq(Seq(Columns))
  BY <1>6, <1>7, KeptIs
<1>15. n \in Nat /\ DOMAIN kept = 1..n
  <2> HIDE DEF kept
  <2> QED
    BY <1>14
<1> HIDE DEF kept, n
<1>16. ASSUME NEW i \in 1..n
       PROVE  /\ S!IsEntry(kept[i]) /\ EntryIDs(kept)[i] = ids[at[i]]
              /\ ~Blank(EntryIDs(kept)[i])
  <2>1. at[i] \in real
    BY <1>13 DEF Enumerates
  <2>2. at[i] \in 1..m
    BY <1>6, <2>1
  <2> DEFINE c == links[at[i]].href
  <2>3. kept[i] = <<c>>
    BY <1>7, <1>13, <2>2
  <2>4. c \in Columns /\ ~Blank(c.text) /\ ~c.comment /\ ids[at[i]] = S!ExtractListID(c)
    BY <1>3, <1>4, <2>2
  <2> HIDE DEF c
  <2>5. S!IsEntry(<<c>>) /\ S!EntryID(<<c>>) = S!ExtractListID(c)
    BY <2>4, ColumnAlone
  <2>6. EntryIDs(kept)[i] = S!EntryID(kept[i])
    BY <1>15 DEF EntryIDs
  <2> QED
    BY <1>6, <2>1, <2>3, <2>4, <2>5, <2>6
<1>17. /\ Len(pasted) \in Nat /\ DOMAIN pasted = 1..Len(pasted)
       /\ \E b : /\ Enumerates(b, Len(pasted), FirstOnes(1..n, EntryIDs(kept)))
                 /\ \A k \in 1..Len(pasted) : pasted[k].id = EntryIDs(kept)[b[k]]
  BY <1>14, <1>16, AllParsed DEF n
<1>18. PICK b : /\ Enumerates(b, Len(pasted), FirstOnes(1..n, EntryIDs(kept)))
                /\ \A k \in 1..Len(pasted) : pasted[k].id = EntryIDs(kept)[b[k]]
  BY <1>17
<1> DEFINE p == Len(pasted)
           c == [k \in 1..p |-> at[b[k]]]
<1> HIDE DEF pasted, p
<1>19. p \in Nat
  BY <1>17 DEF p
<1>20. real \in SUBSET Nat /\ FirstOnes(real, ids) \in SUBSET Nat
  <2>1. \A i \in real : i \in Nat
    BY <1>2, <1>6
  <2> QED
    BY <2>1 DEF FirstOnes
<1>21. Enumerates(c, p, FirstOnes(real, ids))
  <2>1. \A i \in 1..n : EntryIDs(kept)[i] = ids[at[i]]
    BY <1>16
  <2> QED
    BY <1>13, <1>15, <1>18, <1>19, <1>20, <2>1, FirstsKept DEF p
<1> HIDE DEF c
<1>22. l = p /\ \A k \in 1..l : first[k] = c[k]
  BY <1>8, <1>11, <1>19, <1>20, <1>21, OneEnumeration
<1>23. ASSUME NEW k \in 1..l PROVE specs[k].id = pasted[k].id
  <2>1. b[k] \in 1..n
    BY <1>18, <1>22 DEF Enumerates, FirstOnes, p
  <2>2. pasted[k].id = EntryIDs(kept)[b[k]]
    BY <1>18, <1>22 DEF p
  <2>3. pasted[k].id = ids[at[b[k]]]
    BY <1>16, <2>1, <2>2
  <2>4. first[k] = at[b[k]]
    <3>1. k \in 1..p /\ first[k] = c[k]
      BY <1>22
    <3>2. c[k] = at[b[k]]
      BY <3>1 DEF c
    <3> QED
      BY <3>1, <3>2
  <2>5. specs[k].id = ids[first[k]]
    <3>1. specs[k] = SpecOf(ids, names, first[k])
      BY <1>10
    <3> QED
      BY <3>1 DEF SpecOf
  <2> QED
    BY <2>3, <2>4, <2>5
<1>24. [i \in DOMAIN specs |-> specs[i].id] = [i \in DOMAIN pasted |-> pasted[i].id]
  <2>1. DOMAIN specs = 1..l /\ DOMAIN pasted = 1..l
    BY <1>8, <1>17, <1>22 DEF p
  <2> QED
    BY <1>23, <2>1
<1>25. ASSUME NEW i \in DOMAIN specs
       PROVE  \E k \in DOMAIN links :
                 /\ specs[i] = [id |-> S!ExtractListID(links[k].href), name |-> links[k].name]
                 /\ \A j \in 1..(k - 1) : S!ExtractListID(links[j].href) # specs[i].id
  <2> DEFINE k == first[i]
  <2>1. i \in 1..l
    BY <1>8
  <2>2. k \in real /\ specs[i] = SpecOf(ids, names, k)
    BY <1>10, <1>12, <2>1 DEF Firsts, l
  <2>3. \A j \in real : ids[j] = specs[i].id => k <= j
    BY <1>10, <1>12, <2>1 DEF Firsts, l
  <2> HIDE DEF k
  <2>4. k \in 1..m /\ specs[i].id = ids[k] /\ ~Blank(ids[k])
    BY <1>6, <2>2 DEF SpecOf
  <2>5. ASSUME NEW j \in 1..(k - 1) PROVE S!ExtractListID(links[j].href) # specs[i].id
    <3>1. j \in 1..m /\ ~(k <= j)
      <4>1. k \in Int /\ k <= m
        BY <1>2, <2>4
      <4> QED
        BY <1>2, <4>1
    <3>2. SUFFICES ASSUME ids[j] = ids[k] PROVE FALSE
      BY <1>4, <2>4, <3>1
    <3>3. j \in real
      BY <1>2, <2>4, <3>1, <3>2 DEF real, Real, ids
    <3> QED
      BY <2>3, <2>4, <3>1, <3>2, <3>3
  <2>6. specs[i] = [id |-> S!ExtractListID(links[k].href), name |-> links[k].name]
    BY <1>4, <2>2, <2>4 DEF SpecOf
  <2> QED
    BY <1>2, <2>4, <2>5, <2>6
<1>26. kept = S!Kept(lines, {i \in DOMAIN links : S!ExtractListID(links[i].href) # ""})
  BY <1>5 DEF kept
<1> QED
  BY <1>24, <1>25, <1>26 DEF S!LinksHarvested, specs, lines, pasted


-----------------------------------------------------------------------------
(* Lists, contacts, times and prefixes *)

\* The time of a location is in its third field.
LEMMA TimeOf ==
  ASSUME NEW v
  PROVE  C!Location(<<C!Null, C!Null, v, C!Null>>).time = C!Seconds(C!ToFloat(v))
<1> DEFINE info == <<C!Null, C!Null, v, C!Null>>
<1>1. Len(info) = 4 /\ info[3] = v
  OBVIOUS
<1> HIDE DEF info
<1>2. C!Location(info).time = IF Len(info) >= 4 THEN C!Seconds(C!ToFloat(info[3])) ELSE 0
  BY DEF C!Location
<1> QED
  BY <1>1, <1>2 DEF info

\* A time is read the same in each of its forms.
LEMMA TimesAlwaysInSeconds ==
  ASSUME NEW time \in Times
  PROVE  C!TimesInSeconds(time.seconds, time.rest)
<1> DEFINE s == time.seconds
           r == time.rest
           forms == {C!Number(s), C!Number(1000 * s + r),
                     [kind |-> "string", text |-> "n", parses |-> TRUE, v |-> s],
                     [kind |-> "string", text |-> "n", parses |-> TRUE, v |-> 1000 * s + r]}
<1>1. s \in Nat /\ r \in Nat
  BY ParsersAssumption
<1> HIDE DEF s, r
<1> SUFFICES C!TimesInSeconds(s, r)
  BY DEF s, r
<1>2. SUFFICES ASSUME s <= Milliseconds, 1000 * s > Milliseconds, r \in 0..999, NEW v \in forms
               PROVE  C!Location(<<C!Null, C!Null, v, C!Null>>).time = s
  <2>1. C!TimesInSeconds(s, r) <=>
           ((s <= Milliseconds /\ 1000 * s > Milliseconds /\ r \in 0..999) =>
               \A v \in forms : C!Location(<<C!Null, C!Null, v, C!Null>>).time = s)
    BY ZenonT(40) DEF C!TimesInSeconds
  <2> HIDE DEF forms
  <2> QED
    BY <2>1
<1>3. C!ToFloat(v) \in {s, 1000 * s + r}
  <2> DEFINE ms == 1000 * s + r
  <2> HIDE DEF ms
  <2>1. v \in {C!Number(s), C!Number(ms),
               [kind |-> "string", text |-> "n", parses |-> TRUE, v |-> s],
               [kind |-> "string", text |-> "n", parses |-> TRUE, v |-> ms]}
    BY <1>2 DEF ms
  <2>2. \/ v.kind = "number" /\ v.v \in {s, ms}
        \/ v.kind = "string" /\ v.parses /\ v.v \in {s, ms}
    BY <2>1 DEF C!Number
  <2>3. C!ToFloat(v) \in {s, ms}
    BY <2>2 DEF C!ToFloat, C!IsString
  <2> QED
    BY <2>3 DEF ms
<1> HIDE DEF forms
<1>4. C!Seconds(s) = s /\ C!Seconds(1000 * s + r) = s
  <2>1. Milliseconds \in Nat /\ s <= Milliseconds /\ 1000 * s > Milliseconds /\ r \in 0..999
    <3>1. Milliseconds \in Nat
      BY ParsersAssumption
    <3>2. s <= Milliseconds /\ 1000 * s > Milliseconds /\ r \in 0..999
      BY <1>2
    <3> QED
      BY <3>1, <3>2
  <2>2. C!Seconds(s) = s
    BY <1>1, <2>1 DEF C!Seconds
  <2> DEFINE ms == 1000 * s + r
  <2>3. ms > Milliseconds /\ ms \div 1000 = s
    BY <1>1, <2>1
  <2> HIDE DEF ms
  <2>4. C!Seconds(ms) = s
    BY <2>3 DEF C!Seconds
  <2> QED
    BY <2>2, <2>4 DEF ms
<1>5. C!Seconds(C!ToFloat(v)) = s
  BY <1>3, <1>4
<1> QED
  BY <1>5, TimeOf

\* What follows the prefix and a line end is read whole.
LEMMA PrefixAlwaysDropped ==
  ASSUME NEW body \in Bodies
  PROVE  C!PrefixDropped(body)
<1> DEFINE A == {body[i] : i \in DOMAIN body} \cup {C!Prefix, "\n"}
           m == Len(body)
           head == <<C!Prefix, "\n">>
           all == head \o body
           ends == {i \in 2..Len(all) : all[i] \in {"\n", "'", "\""}}
<1>1. body \in Seq(A)
  <2>1. body \in Seq({body[i] : i \in DOMAIN body})
    BY ParsersAssumption DEF IsSeq
  <2> QED
    BY <2>1
<1>2. head \in Seq(A) /\ Len(head) = 2 /\ head[1] = C!Prefix /\ head[2] = "\n"
  OBVIOUS
<1> HIDE DEF A, head
<1>3. m \in Nat /\ all \in Seq(A) /\ Len(all) = m + 2
  <2>1. head \in Seq(A) /\ Len(head) = 2
    BY <1>2
  <2>2. Len(all) = Len(head) + Len(body) /\ all \in Seq(A)
    BY <1>1, <2>1, ConcatProperties
  <2>3. m \in Nat
    BY <1>1
  <2> HIDE DEF all, m
  <2> QED
    BY <2>1, <2>2, <2>3 DEF m
<1>4. all[1] = C!Prefix /\ all[2] = "\n" /\ \A i \in 1..m : all[i + 2] = body[i]
  <2>1. head \in Seq(A) /\ Len(head) = 2
    BY <1>2
  <2>2. /\ \A i \in 1..2 : all[i] = head[i]
        /\ \A i \in 1..m : all[i + 2] = body[i]
    <3>1. \A i \in 1..(Len(head) + Len(body)) :
             all[i] = IF i <= Len(head) THEN head[i] ELSE body[i - Len(head)]
      BY <1>1, <2>1, ConcatProperties
    <3>2. Len(body) = m /\ m \in Nat
      BY <1>1
    <3> HIDE DEF all, m
    <3>3. ASSUME NEW i \in 1..2 PROVE all[i] = head[i]
      BY <2>1, <3>1, <3>2
    <3>4. ASSUME NEW i \in 1..m PROVE all[i + 2] = body[i]
      <4>1. i + 2 \in 1..(2 + m) /\ ~(i + 2 <= 2) /\ (i + 2) - 2 = i
        BY <3>2
      <4>2. all[i + 2] = body[(i + 2) - 2]
        BY <2>1, <3>1, <3>2, <4>1
      <4> QED
        BY <4>1, <4>2
    <3> QED
      BY <3>3, <3>4
  <2> HIDE DEF all, m
  <2>3. all[1] = head[1] /\ all[2] = head[2]
    BY <2>2
  <2> QED
    BY <1>2, <2>2, <2>3
<1> HIDE DEF all, m
<1>5. 2 \in ends /\ \A i \in ends : 2 <= i /\ i \in Int
  <2>1. 2 \in 2..Len(all)
    BY <1>3
  <2>2. 2 \in ends
    BY <1>4, <2>1
  <2>3. \A i \in 2..Len(all) : 2 <= i /\ i \in Int
    BY <1>3
  <2>4. \A i \in ends : i \in 2..Len(all)
    OBVIOUS
  <2> HIDE DEF ends
  <2> QED
    BY <2>2, <2>3, <2>4
<1> HIDE DEF ends
<1>6. C!Min(ends) = 2
  BY <1>5 DEF C!Min
<1>7. C!StripPrefix(all) = SubSeq(all, 3, Len(all))
  <2>1. ~(Len(all) < 2) /\ all[1] = C!Prefix /\ ends # {}
    BY <1>3, <1>4, <1>5
  <2>2. C!StripPrefix(all) = IF Len(all) < 2 \/ all[1] # C!Prefix \/ ends = {} THEN all
                             ELSE SubSeq(all, C!Min(ends) + 1, Len(all))
    BY DEF C!StripPrefix, ends
  <2> QED
    BY <1>6, <2>1, <2>2
<1>8. SubSeq(all, 3, Len(all)) = [i \in 1..m |-> all[i + 2]]
  BY <1>3
<1>9. body = [i \in 1..m |-> body[i]]
  BY <1>1 DEF m
<1>10. [i \in 1..m |-> all[i + 2]] = [i \in 1..m |-> body[i]]
  BY <1>4
<1> QED
  BY <1>7, <1>8, <1>9, <1>10 DEF C!PrefixDropped, all, head

\* The same is kept of s and of t.
AreKeptAlike(s, t, indices, A, B) ==
  LET kept == S!Kept(s, indices)
      of   == S!Kept(t, indices)
  IN  /\ kept \in Seq(A) /\ of \in Seq(B) /\ Len(of) = Len(kept)
      /\ \E at : /\ Enumerates(at, Len(kept), indices)
                 /\ \A i \in 1..Len(kept) : kept[i] = s[at[i]] /\ of[i] = t[at[i]]

\* KeptIs says so of any two of one length.
LEMMA KeptAlike ==
  ASSUME NEW A, NEW B, NEW s \in Seq(A), NEW t \in Seq(B), Len(s) = Len(t),
         NEW indices \in SUBSET (1..Len(s))
  PROVE  AreKeptAlike(s, t, indices, A, B)
BY KeptIs, SMTT(60) DEF AreKeptAlike

\* s and the IDs of what is in it, and some indices.
AreListed(s, ids, m, A, B, indices) ==
  /\ m \in Nat /\ s \in [1..m -> A] /\ ids \in [1..m -> B] /\ indices \in SUBSET (1..m)
  /\ \A i \in 1..m : ids[i] = s[i].id

\* What is kept of them.
AreKept(kept, of, A, B) ==
  /\ kept \in Seq(A) /\ of \in Seq(B) /\ Len(of) = Len(kept)
  /\ \A k \in 1..Len(kept) : of[k] = kept[k].id

\* The IDs of what is kept are what is kept of the IDs.
LEMMA KeptIDs ==
  ASSUME NEW s, NEW ids, NEW m, NEW A, NEW B, NEW indices, AreListed(s, ids, m, A, B, indices)
  PROVE  /\ AreKept(S!Kept(s, indices), S!Kept(ids, indices), A, B)
         /\ \A k \in 1..Len(S!Kept(s, indices)) : \E i \in indices : S!Kept(s, indices)[k] = s[i]
<1> DEFINE kept == S!Kept(s, indices)
           n == Len(kept)
           of == S!Kept(ids, indices)
<1>1. s \in Seq(A) /\ Len(s) = m
  BY DEF AreListed
<1>2. \A i \in 1..m : ids[i] = s[i].id
  BY DEF AreListed
<1>4. ids \in Seq(B) /\ Len(ids) = m
  BY DEF AreListed
<1>5. indices \in SUBSET (1..Len(s)) /\ Len(s) = Len(ids)
  BY <1>1, <1>4 DEF AreListed
<1>6. /\ kept \in Seq(A) /\ of \in Seq(B) /\ Len(of) = n
      /\ \E at : /\ Enumerates(at, n, indices)
                 /\ \A i \in 1..n : kept[i] = s[at[i]] /\ of[i] = ids[at[i]]
  <2> HIDE DEF kept, of, n
  <2>1. AreKeptAlike(s, ids, indices, A, B)
    BY <1>1, <1>4, <1>5, KeptAlike
  <2> QED
    BY <2>1 DEF AreKeptAlike, kept, of, n
<1>7. PICK at : /\ Enumerates(at, n, indices)
                /\ \A i \in 1..n : kept[i] = s[at[i]] /\ of[i] = ids[at[i]]
  BY <1>6
<1> HIDE DEF kept, of
<1>8. ASSUME NEW k \in 1..n PROVE of[k] = kept[k].id /\ \E i \in indices : kept[k] = s[i]
  <2>1. at[k] \in indices
    BY <1>7 DEF Enumerates
  <2>2. at[k] \in 1..m
    BY <2>1 DEF AreListed
  <2> QED
    BY <1>2, <1>7, <2>1, <2>2
<1> QED
  BY <1>6, <1>8 DEF AreKept, kept, of

\* A list is fetched when its ID is plain and the answer for it is one.
LEMMA ListFetched ==
  ASSUME NEW spec, NEW plain, NEW answer
  PROVE  /\ S!FetchList(spec, plain, answer).id = spec.id
         /\ S!FetchList(spec, plain, answer).err = "none"
              <=> plain /\ S!ListRequest(answer).err = "none"
<1>1. CASE ~plain
  BY <1>1 DEF S!FetchList
<1>2. CASE plain /\ S!ListRequest(answer).err # "none"
  BY <1>2 DEF S!FetchList
<1>3. CASE plain /\ S!ListRequest(answer).err = "none"
  BY <1>3 DEF S!FetchList
<1> QED
  BY <1>1, <1>2, <1>3

\* Every list is returned or told to have failed.
LEMMA ListsAlwaysAccounted ==
  ASSUME NEW f \in Fetches
  PROVE  S!ListsAccounted(f.specs, f.plain, f.answers)
<1> DEFINE specs == f.specs
           plain == f.plain
           answers == f.answers
           m == Len(specs)
           results == [i \in DOMAIN specs |-> S!FetchList(specs[i], plain[i], answers[i])]
           ids == [i \in DOMAIN specs |-> specs[i].id]
           good == {i \in DOMAIN specs : plain[i] /\ S!ListRequest(answers[i]).err = "none"}
           got == S!FetchLists(specs, plain, answers)
<1>1. m \in Nat /\ DOMAIN specs = 1..m
  <2> DEFINE A == {specs[i] : i \in DOMAIN specs}
  <2>1. specs \in Seq(A)
    BY ParsersAssumption DEF IsSeq
  <2> HIDE DEF A, specs
  <2> QED
    BY <2>1
<1> SUFFICES S!ListsAccounted(specs, plain, answers)
  OBVIOUS
<1> HIDE DEF specs, plain, answers, m
<1>2. ASSUME NEW i \in DOMAIN specs
      PROVE  /\ results[i].id = specs[i].id
             /\ results[i].err = "none" <=> i \in good
  <2>1. results[i] = S!FetchList(specs[i], plain[i], answers[i])
    OBVIOUS
  <2>2. i \in good <=> plain[i] /\ S!ListRequest(answers[i]).err = "none"
    OBVIOUS
  <2> HIDE DEF results, good, got
  <2> QED
    BY <2>1, <2>2, ListFetched
<1>3. results = [i \in 1..m |-> results[i]] /\ DOMAIN results = 1..m
  BY <1>1
<1>4. good \in SUBSET (1..m) /\ (DOMAIN specs \ good) \in SUBSET (1..m)
  BY <1>1
<1> HIDE DEF results, good
<1>5. /\ {i \in DOMAIN results : results[i].err = "none"} = good
      /\ {i \in DOMAIN results : results[i].err # "none"} = DOMAIN specs \ good
  BY <1>1, <1>2, <1>3, <1>4
<1>6. ids = [i \in 1..m |-> ids[i]] /\ \A i \in 1..m : ids[i] = results[i].id
  BY <1>1, <1>2
<1> HIDE DEF ids
<1>7. ASSUME NEW k \in SUBSET (1..m)
      PROVE  [i \in DOMAIN S!Kept(results, k) |-> S!Kept(results, k)[i].id] = S!Kept(ids, k)
  <2> DEFINE A == {results[i] : i \in 1..m}
             B == {ids[i] : i \in 1..m}
  <2>1. \A i \in 1..m : results[i] \in A /\ ids[i] \in B
    OBVIOUS
  <2> HIDE DEF A, B
  <2>2. results \in [1..m -> A] /\ ids \in [1..m -> B]
    BY <1>3, <1>6, <2>1
  <2> QED
    <3> HIDE DEF got, m
    <3>0. AreListed(results, ids, m, A, B, k)
      BY <1>1, <1>6, <2>2 DEF AreListed
    <3>1. AreKept(S!Kept(results, k), S!Kept(ids, k), A, B)
      BY <3>0, KeptIDs, Zenon
    <3> DEFINE kept == S!Kept(results, k)
               of == S!Kept(ids, k)
    <3> HIDE DEF kept, of
    <3>2. DOMAIN kept = 1..Len(kept) /\ of = [i \in 1..Len(kept) |-> of[i]]
      BY <3>1 DEF AreKept, kept, of
    <3>3. [i \in DOMAIN kept |-> kept[i].id] = of
      BY <3>1, <3>2 DEF AreKept, kept, of
    <3> QED
      BY <3>3 DEF kept, of
<1>8. got = [lists |-> S!Kept(results, good), errs |-> S!Kept(results, DOMAIN specs \ good)]
  BY <1>5 DEF S!FetchLists, S!Collect, results
<1>9. got.lists = S!Kept(results, good) /\ got.errs = S!Kept(results, DOMAIN specs \ good)
  <2> DEFINE others == DOMAIN specs \ good
  <2> HIDE DEF got, others
  <2> QED
    BY <1>8 DEF others
<1> HIDE DEF got
<1>10. /\ [i \in DOMAIN got.lists |-> got.lists[i].id] = S!Kept(ids, good)
       /\ [i \in DOMAIN got.errs |-> got.errs[i].id] = S!Kept(ids, DOMAIN specs \ good)
  BY <1>4, <1>7, <1>9
<1> QED
  BY <1>10 DEF S!ListsAccounted, got, ids, good

\* The operators on values are the same in both instances.
LEMMA ValuesOfContacts ==
  /\ \A v : C!IsArray(v) = S!IsArray(v) /\ C!Items(v) = S!Items(v) /\ C!Text(v) = S!Text(v)
  /\ \A s, i : C!At(s, i) = S!At(s, i)
BY DEF C!IsArray, S!IsArray, C!Items, S!Items, C!IsString, S!IsString, C!Text, S!Text,
       C!At, S!At, C!Null, S!Null

\* The ID of an item, "" when it is none of a contact.
ItemID(item) ==
  IF Len(item) < 7 THEN ""
  ELSE C!FirstText(<<C!Text(C!At(C!Profile(item[1]), 0)), C!Text(C!At(C!Profile(item[7]), 0))>>)

\* The first of two texts that is not empty is the ID of a contact.
LEMMA FirstOfTwo ==
  ASSUME NEW a, NEW b
  PROVE  C!FirstText(<<a, b>>) = (IF a # "" THEN a ELSE b)
<1> DEFINE texts == <<a, b>>
<1>1. 2 \in Nat /\ DOMAIN texts = 1..2 /\ texts[1] = a /\ texts[2] = b
  OBVIOUS
<1> HIDE DEF texts
<1>2. \/ S!FirstText(texts) = "" /\ \A i \in 1..2 : texts[i] = ""
      \/ \E k \in 1..2 : /\ S!FirstText(texts) = texts[k] /\ texts[k] # ""
                         /\ \A j \in 1..(k - 1) : texts[j] = ""
  BY <1>1, FirstTextIs
<1>3. \/ Blank(S!FirstText(texts)) /\ \A i \in 1..2 : Blank(texts[i])
      \/ \E k \in 1..2 : /\ S!FirstText(texts) = texts[k] /\ ~Blank(texts[k])
                         /\ \A j \in 1..(k - 1) : Blank(texts[j])
  BY <1>2, Zenon DEF Blank
<1> DEFINE f == S!FirstText(texts)
<1> HIDE DEF f
<1>4. ASSUME Blank(f), \A i \in 1..2 : Blank(texts[i])
      PROVE  f = (IF a # "" THEN a ELSE b)
  <2>1. Blank(texts[1]) /\ Blank(texts[2])
    BY <1>4
  <2> QED
    BY <1>1, <1>4, <2>1 DEF Blank
<1>5. ASSUME NEW k \in 1..2, f = texts[k], ~Blank(texts[k]), \A j \in 1..(k - 1) : Blank(texts[j])
      PROVE  f = (IF a # "" THEN a ELSE b)
  <2>1. CASE k = 1
    BY <1>1, <1>5, <2>1 DEF Blank
  <2>2. CASE k = 2
    <3>1. 1 \in 1..(k - 1)
      BY <2>2
    <3>2. Blank(texts[1])
      BY <1>5, <3>1
    <3> QED
      BY <1>1, <1>5, <2>2, <3>2 DEF Blank
  <2>3. k = 1 \/ k = 2
    OBVIOUS
  <2> QED
    BY <2>1, <2>2, <2>3
<1>6. f = (IF a # "" THEN a ELSE b)
  <2>1. CASE Blank(f) /\ \A i \in 1..2 : Blank(texts[i])
    BY <1>4, <2>1
  <2>2. CASE \E k \in 1..2 : /\ f = texts[k] /\ ~Blank(texts[k])
                             /\ \A j \in 1..(k - 1) : Blank(texts[j])
    BY <1>5, <2>2
  <2> QED
    BY <1>3, <2>1, <2>2 DEF f
<1>7. C!FirstText(texts) = f
  BY FirstTextOfContacts DEF f
<1> QED
  BY <1>6, <1>7 DEF texts

\* A contact has the ID of its item.
LEMMA ContactHasID ==
  ASSUME NEW item, Len(item) \in Nat, Len(item) >= 7
  PROVE  /\ C!ExtractContact(item).id = ItemID(item)
         /\ C!ExtractContact(item).type = "maps_shared"
<1> DEFINE basic == C!Profile(item[1])
           short == C!Profile(item[7])
           info == C!Items(C!At(item, 1))
<1>1. C!At(item, 0) = item[1] /\ C!At(item, 6) = item[7]
  BY DEF C!At
<1>2. C!ExtractContact(item) =
         C!Contact(C!ContactID(basic, short), C!ContactName(basic, short), "maps_shared", info)
  BY <1>1 DEF C!ExtractContact
<1> HIDE DEF basic, short, info
<1>3. /\ C!ExtractContact(item).id = C!ContactID(basic, short)
      /\ C!ExtractContact(item).type = "maps_shared"
  BY <1>2 DEF C!Contact
<1>4. C!ContactID(basic, short) = C!FirstText(<<C!Text(C!At(basic, 0)), C!Text(C!At(short, 0))>>)
  <2> DEFINE a == C!Text(C!At(basic, 0))
             b == C!Text(C!At(short, 0))
             c == IF a # "" THEN a ELSE b
  <2>1. C!ContactID(basic, short) = c
    BY DEF C!ContactID
  <2> HIDE DEF a, b
  <2>2. C!FirstText(<<a, b>>) = c
    BY FirstOfTwo
  <2> HIDE DEF c
  <2>3. C!ContactID(basic, short) = C!FirstText(<<a, b>>)
    BY <2>1, <2>2
  <2> QED
    BY <2>3, Zenon DEF a, b
<1>5. ItemID(item) = C!FirstText(<<C!Text(C!At(basic, 0)), C!Text(C!At(short, 0))>>)
  <2>1. ~(Len(item) < 7)
    OBVIOUS
  <2> QED
    BY <2>1, Zenon DEF ItemID, basic, short
<1> QED
  BY <1>3, <1>4, <1>5

\* One's own place is one contact at most, of its own kind, with an ID.
LEMMA OwnIsLast ==
  ASSUME NEW data
  PROVE  \/ C!OwnLocation(data) = <<>>
         \/ \E c : C!OwnLocation(data) = <<c>> /\ c.type = "maps_self" /\ ~Blank(c.id)
<1> DEFINE own == C!Items(C!At(data, 9))
           info == C!Items(C!At(own, 1))
           id == C!Text(C!At(data, 7))
           shown == IF id # "" THEN id ELSE "self"
           c == C!Contact(shown, "You", "maps_self", info)
           none == Len(info) < 4 \/ Len(C!Items(info[2])) < 3
<1>1. C!OwnLocation(data) = IF none THEN <<>> ELSE <<c>>
  BY Zenon DEF C!OwnLocation
<1>2. ~Blank(shown)
  BY DEF Blank
<1> HIDE DEF shown, info, none
<1>3. c.type = "maps_self" /\ c.id = shown
  BY DEF C!Contact
<1> HIDE DEF c
<1> QED
  BY <1>1, <1>2, <1>3

\* Whoever is identified in an answer is listed.
LEMMA ContactsAlwaysIdentified ==
  ASSUME NEW data \in ContactAnswers
  PROVE  C!ContactsIdentified(data)
<1> DEFINE J == S!Json[Nesting]
           items == C!Items(C!At(data, 0))
           m == Len(items)
           contacts == [i \in DOMAIN items |-> C!ExtractContact(C!Items(items[i]))]
           named == {i \in DOMAIN items : Len(C!Items(items[i])) >= 7 /\ contacts[i].id # ""}
           ids == [i \in DOMAIN items |-> ItemID(C!Items(items[i]))]
           some == {i \in DOMAIN ids : ids[i] # ""}
           kept == S!Kept(contacts, named)
           of == S!Kept(ids, named)
           n == Len(kept)
           own == C!OwnLocation(data)
           all == C!ParseContacts(data)
           shared == {k \in DOMAIN all : all[k].type = "maps_shared"}
<1>1. items \in Seq(J)
  <2>1. data \in Seq(S!Json[Nesting]) /\ 0 \in Nat
    BY ParsersAssumption
  <2>2. S!Items(S!At(data, 0)) \in Seq(S!Json[Nesting])
    BY <2>1, FieldTyped
  <2> QED
    BY <2>2, ValuesOfContacts
<1>2. m \in Nat /\ DOMAIN items = 1..m
  <2> HIDE DEF items, J
  <2> QED
    BY <1>1
<1>3. ASSUME NEW i \in 1..m PROVE Len(C!Items(items[i])) \in Nat
  <2>1. items[i] \in S!Json[Nesting]
    <3> HIDE DEF items, J
    <3> QED
      BY <1>1, <1>2 DEF J
  <2>2. S!Items(items[i]) \in Seq(S!Json[Nesting])
    BY <2>1, ItemsTyped
  <2>3. Len(S!Items(items[i])) \in Nat
    <3> HIDE DEF items, J
    <3> QED
      BY <2>2
  <2> QED
    BY <2>3, ValuesOfContacts
<1> HIDE DEF items, J, m
<1>4. ASSUME NEW i \in 1..m, Len(C!Items(items[i])) >= 7
      PROVE  contacts[i].id = ids[i] /\ contacts[i].type = "maps_shared"
  BY <1>2, <1>3, <1>4, ContactHasID
<1>5. ASSUME NEW i \in 1..m, ~(Len(C!Items(items[i])) >= 7)
      PROVE  Blank(ids[i])
  <2>1. Len(C!Items(items[i])) < 7
    BY <1>3, <1>5
  <2> QED
    BY <1>2, <2>1 DEF ItemID, Blank
<1>6. \A i \in 1..m : i \in named <=> Len(C!Items(items[i])) >= 7 /\ ~Blank(contacts[i].id)
  BY <1>2 DEF Blank
<1>7. /\ \A i \in 1..m : i \in some <=> ~Blank(ids[i])
      /\ named \subseteq 1..m /\ some \subseteq 1..m
  BY <1>2 DEF Blank
<1>8. contacts = [i \in 1..m |-> contacts[i]] /\ ids = [i \in 1..m |-> ids[i]]
  BY <1>2
<1>9. C!SharedContacts(data) = S!Kept(contacts, named)
  BY KeptOfContacts DEF C!SharedContacts, items
<1> HIDE DEF contacts, ids, named, some
<1>10. named = some
  BY <1>4, <1>5, <1>6, <1>7
<1>11. \A i \in named : i \in 1..m /\ contacts[i].id = ids[i] /\ ~Blank(contacts[i].id)
                        /\ contacts[i].type = "maps_shared"
  BY <1>4, <1>6, <1>7
<1>12. /\ n \in Nat /\ DOMAIN kept = 1..n /\ kept \in Seq({contacts[i] : i \in 1..m})
       /\ of = [k \in 1..n |-> of[k]]
       /\ \E at : /\ Enumerates(at, n, named)
                  /\ \A k \in 1..n : kept[k] = contacts[at[k]] /\ of[k] = ids[at[k]]
  <2> DEFINE A == {contacts[i] : i \in 1..m}
             B == {ids[i] : i \in 1..m}
  <2>1. \A i \in 1..m : contacts[i] \in A /\ ids[i] \in B
    OBVIOUS
  <2> HIDE DEF A, B
  <2>2. contacts \in [1..m -> A] /\ ids \in [1..m -> B]
    BY <1>8, <2>1
  <2>3. contacts \in Seq(A) /\ ids \in Seq(B) /\ Len(contacts) = m /\ Len(ids) = m
    BY <1>2, <2>2
  <2>4. named \in SUBSET (1..Len(contacts)) /\ Len(contacts) = Len(ids)
    BY <1>7, <2>3
  <2>5. AreKeptAlike(contacts, ids, named, A, B)
    BY <2>3, <2>4, KeptAlike
  <2>6. /\ kept \in Seq(A) /\ of \in Seq(B) /\ Len(of) = n
        /\ \E at : /\ Enumerates(at, n, named)
                   /\ \A k \in 1..n : kept[k] = contacts[at[k]] /\ of[k] = ids[at[k]]
    BY <2>5 DEF AreKeptAlike
  <2> HIDE DEF kept, of
  <2>7. n \in Nat /\ DOMAIN kept = 1..n /\ of = [k \in 1..n |-> of[k]]
    BY <2>6
  <2> QED
    BY <2>6, <2>7 DEF A
<1> HIDE DEF kept, of, n
<1>13. ASSUME NEW k \in 1..n
       PROVE  kept[k].id = of[k] /\ ~Blank(kept[k].id) /\ kept[k].type = "maps_shared"
  <2>1. PICK at : /\ Enumerates(at, n, named)
                  /\ \A i \in 1..n : kept[i] = contacts[at[i]] /\ of[i] = ids[at[i]]
    BY <1>12
  <2>2. at[k] \in named
    BY <2>1 DEF Enumerates
  <2> QED
    BY <1>11, <2>1, <2>2
<1>14. all = kept \o own
  BY <1>9 DEF C!ParseContacts, kept
<1> HIDE DEF all, own
<1>15. /\ \A k \in 1..n : k \in DOMAIN all /\ all[k] = kept[k]
       /\ \A k \in DOMAIN all : \/ k \in 1..n
                                \/ k = Len(all) /\ all[k].type = "maps_self" /\ ~Blank(all[k].id)
  <2>1. CASE own = <<>>
    <3>1. all = kept
      BY <1>12, <1>14, <2>1
    <3> QED
      BY <1>12, <3>1
  <2>2. ASSUME NEW c, own = <<c>>, c.type = "maps_self", ~Blank(c.id)
        PROVE  /\ \A k \in 1..n : k \in DOMAIN all /\ all[k] = kept[k]
               /\ \A k \in DOMAIN all :
                     \/ k \in 1..n
                     \/ k = Len(all) /\ all[k].type = "maps_self" /\ ~Blank(all[k].id)
    <3>1. Len(all) = n + 1 /\ DOMAIN all = 1..(n + 1)
      BY <1>12, <1>14, <2>2 DEF n
    <3>2. all[n + 1] = c /\ \A k \in 1..n : all[k] = kept[k]
      BY <1>12, <1>14, <2>2 DEF n
    <3>3. \A k \in 1..(n + 1) : k \in 1..n \/ k = n + 1
      BY <1>12
    <3>4. \A k \in 1..n : k \in 1..(n + 1)
      BY <1>12
    <3> QED
      BY <2>2, <3>1, <3>2, <3>3, <3>4
  <2> QED
    BY <2>1, <2>2, OwnIsLast DEF own
<1>16. shared = 1..n
  <2>1. \A k \in 1..n : k \in shared
    BY <1>13, <1>15
  <2>2. \A k \in shared : k \in 1..n
    BY <1>15
  <2> QED
    BY <2>1, <2>2
<1>17. [k \in shared |-> all[k].id] = of
  <2>1. \A k \in 1..n : all[k].id = of[k]
    BY <1>13, <1>15
  <2> HIDE DEF shared
  <2> QED
    BY <1>12, <1>16, <2>1
<1>18. \A k \in DOMAIN all : ~Blank(all[k].id)
  BY <1>13, <1>15
<1>19. \A k \in DOMAIN all \ shared : k = Len(all)
  BY <1>15, <1>16
<1>20. of = C!Kept(ids, some)
  BY <1>10, KeptOfContacts DEF of
<1>21. C!ContactsIdentified(data) <=>
          /\ [k \in shared |-> all[k].id] = C!Kept(ids, some)
          /\ \A k \in DOMAIN all : ~Blank(all[k].id)
          /\ \A k \in DOMAIN all \ shared : k = Len(all)
  BY Zenon DEF C!ContactsIdentified, all, ids, some, items, ItemID, Blank
<1> QED
  BY <1>17, <1>18, <1>19, <1>20, <1>21

-----------------------------------------------------------------------------
(* Every answer *)

\* What is pasted and answered for saved lists is read whole, however long it is
\* and however deep its values are, and an answer of the location service yields
\* the contacts in it, at the times it gives.
THEOREM MapsAlwaysParsed == ParsersSpec => []MapsParsed
<1>1. NothingPicked => MapsParsed
  BY DEF NothingPicked, MapsParsed
<1>2. MapsParsed /\ [PickParsed]_<<subject, input>> => MapsParsed'
  <2> SUFFICES ASSUME MapsParsed, [PickParsed]_<<subject, input>> PROVE MapsParsed'
    OBVIOUS
  <2>1. CASE PickLines
    <3>1. input' \in Seq(Seq(Columns))
      BY <2>1, ParsersAssumption DEF PickLines
    <3>2. S!SpecsNormal(input')
      BY <3>1, SpecsAlwaysNormal
    <3> QED
      BY <2>1, <3>2 DEF PickLines, Picks, MapsParsed
  <2>2. CASE PickLinks
    <3>1. S!LinksHarvested(input')
      BY <2>2, LinksAlwaysHarvested DEF PickLinks
    <3> QED
      BY <2>2, <3>1 DEF PickLinks, Picks, MapsParsed
  <2>3. CASE PickPlaces
    <3>1. input' \in Seq(S!Json[Nesting])
      BY <2>3, ParsersAssumption DEF PickPlaces
    <3>2. S!PlacesKept(input')
      BY <3>1, PlacesAlwaysKept
    <3> QED
      BY <2>3, <3>2 DEF PickPlaces, Picks, MapsParsed
  <2>4. CASE PickLists
    <3>1. S!ListsAccounted(input'.specs, input'.plain, input'.answers)
      BY <2>4, ListsAlwaysAccounted DEF PickLists
    <3> QED
      BY <2>4, <3>1 DEF PickLists, Picks, MapsParsed
  <2>5. CASE PickContacts
    <3>1. C!ContactsIdentified(input')
      BY <2>5, ContactsAlwaysIdentified DEF PickContacts
    <3> QED
      BY <2>5, <3>1 DEF PickContacts, Picks, MapsParsed
  <2>6. CASE PickTime
    <3>1. C!TimesInSeconds(input'.seconds, input'.rest)
      BY <2>6, TimesAlwaysInSeconds DEF PickTime
    <3> QED
      BY <2>6, <3>1 DEF PickTime, Picks, MapsParsed
  <2>7. CASE PickBody
    <3>1. C!PrefixDropped(input')
      BY <2>7, PrefixAlwaysDropped DEF PickBody
    <3> QED
      BY <2>7, <3>1 DEF PickBody, Picks, MapsParsed
  <2>8. CASE UNCHANGED <<subject, input>>
    BY <2>8 DEF MapsParsed
  <2> QED
    BY <2>1, <2>2, <2>3, <2>4, <2>5, <2>6, <2>7, <2>8 DEF PickParsed
<1> QED
  BY <1>1, <1>2, PTL DEF ParsersSpec
=============================================================================
