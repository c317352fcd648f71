--------------------------- MODULE OwnerKeyProofs ---------------------------
(***************************************************************************)
(* Proofs about OwnerKey.tla, for any callers and accounts, about the      *)
(* requests of HttpApi.tla, for any answers and device lists, about the    *)
(* bytes of Framing.tla, for any messages, varints and frames, and about   *)
(* the ciphers of Eax.tla, for any block cipher, keys and data.            *)
(***************************************************************************)
EXTENDS OwnerKey, HttpAnswers, Frames, Ciphers, SequenceTheorems, WellFoundedInduction, TLAPS

\* The initial state is typed.
LEMMA TypeInit == Init => TypeOK
  <1> SUFFICES ASSUME Init PROVE TypeOK
    OBVIOUS
  <1>1. EmptySecrets \in Secrets /\ None \in Optional
    BY DEF Secrets, EmptySecrets, Optional
  <1>2. \A c \in Callers : pc[c] = "idle"
    BY DEF Init
  <1>3. /\ stored \in Secrets \cup {Absent}
        /\ pc \in [Callers -> {"idle", "token", "eid", "decrypt", "cache",
                               "returned", "failed"}]
        /\ secrets \in [Callers -> Secrets]
        /\ ownerKey \in [Callers -> Optional]
        /\ mapsStored \in BOOLEAN /\ overlapped \in BOOLEAN
    BY <1>1 DEF Init
  <1> QED
    BY <1>2, <1>3 DEF TypeOK

\* A missing file is no secrets.
LEMMA AbsentIsNotSecrets == Absent \notin Secrets
  BY ValuesAssumption DEF Secrets, Optional

\* Update hands secrets to its function, also when the file is missing.
LEMMA FoundIsSecrets == TypeOK => Found \in Secrets
  BY DEF TypeOK, Found, Secrets, EmptySecrets, Optional

\* An error return keeps the types.
LEMMA FailType ==
    ASSUME NEW c \in Callers, TypeOK, Fail(c)
    PROVE  TypeOK'
  BY DEF TypeOK, Fail, Goto, Secrets, EmptySecrets, Optional, history

\* So does every step of a call of GetOwnerKey.
LEMMA CallType ==
    ASSUME NEW c \in Callers, TypeOK, GetOwnerKey(c)
    PROVE  TypeOK'
  <1>1. CASE Load(c)
    BY <1>1, AbsentIsNotSecrets
       DEF TypeOK, Load, Goto, Usable, history
  <1>2. CASE Cached(c)
    BY <1>2 DEF TypeOK, Cached, Goto, Secrets, Optional, history
  <1>3. CASE LoadFails(c)
    BY <1>3, FailType DEF LoadFails
  <1>4. CASE Token(c) \/ EidInfo(c)
    BY <1>4, FailType DEF TypeOK, Token, EidInfo, Request, Goto, history
  <1>5. CASE Decrypt(c)
    <2>1. CASE Fail(c)
      BY <2>1, FailType
    <2>2. CASE ~Fail(c)
      <3>1. /\ pc[c] = "decrypt"
            /\ secrets[c].SharedKey = secrets[c].account
            /\ ownerKey' = [ownerKey EXCEPT ![c] = secrets[c].account]
            /\ pc' = [pc EXCEPT ![c] = "cache"]
            /\ UNCHANGED <<stored, secrets, mapsStored, overlapped>>
        BY <1>5, <2>2 DEF Decrypt, Goto, history
      <3>2. /\ secrets[c].account # None
            /\ secrets[c].account \in Optional
        BY <3>1 DEF TypeOK, Secrets
      <3> QED
        BY <3>1, <3>2 DEF TypeOK
    <2> QED
      BY <2>1, <2>2
  <1>6. CASE Cache(c)
    <2>1. CASE Fail(c)
      BY <2>1, FailType
    <2>2. CASE ~Fail(c)
      <3>1. /\ stored' = [Found EXCEPT !.OwnerKey = ownerKey[c]]
            /\ pc' = [pc EXCEPT ![c] = "returned"]
            /\ pc[c] = "cache"
            /\ UNCHANGED <<secrets, ownerKey, mapsStored, overlapped>>
        BY <1>6, <2>2 DEF Cache, Goto, history
      <3>2. stored' \in Secrets
        BY <3>1, FoundIsSecrets DEF TypeOK, Secrets
      <3> QED
        BY <3>1, <3>2 DEF TypeOK
    <2> QED
      BY <2>1, <2>2
  <1>7. CASE Again(c)
    BY <1>7 DEF TypeOK, Again, Goto, Optional, history
  <1> QED
    BY <1>1, <1>2, <1>3, <1>4, <1>5, <1>6, <1>7 DEF GetOwnerKey

\* So does every other writer.
LEMMA OthersType ==
    ASSUME TypeOK,
           SignIn \/ Clear \/ StoreSharedKey \/ StoreFCM \/ StoreMapsCookies
    PROVE  TypeOK'
  <1>1. CASE SignIn
    BY <1>1 DEF TypeOK, SignIn, Replace, Secrets, EmptySecrets, Optional
  <1>2. CASE Clear
    BY <1>2 DEF TypeOK, Clear, Replace
  <1>3. CASE StoreSharedKey
    BY <1>3 DEF TypeOK, StoreSharedKey, Secrets, history
  <1>4. CASE StoreFCM \/ StoreMapsCookies
    BY <1>4, FoundIsSecrets
       DEF TypeOK, StoreFCM, StoreMapsCookies, Secrets, history
  <1> QED
    BY <1>1, <1>2, <1>3, <1>4

\* Types are preserved by every step.
LEMMA TypeStep == TypeOK /\ [Next]_vars => TypeOK'
  <1>1. ASSUME TypeOK, Next PROVE TypeOK'
    BY <1>1, CallType, OthersType DEF Next
  <1>2. ASSUME TypeOK, UNCHANGED vars PROVE TypeOK'
    BY <1>2 DEF TypeOK, vars, history
  <1> QED
    BY <1>1, <1>2

-----------------------------------------------------------------------------
(* Nothing that was stored is lost *)

\* Maps cookies stored during a call of GetOwnerKey are still there after it:
\* the final Update starts from the secrets it finds, not from those loaded.
THEOREM CookiesAreKept == Spec => []MapsCookiesKept
  <1> DEFINE Kept == TypeOK /\ MapsCookiesKept
  <1>1. Init => Kept
    BY TypeInit DEF Init, MapsCookiesKept
  <1>2. Kept /\ [Next]_vars => Kept'
    <2> SUFFICES ASSUME Kept, [Next]_vars PROVE MapsCookiesKept'
      BY TypeStep
    <2>1. Absent \notin Secrets /\ Found \in Secrets
      BY AbsentIsNotSecrets, FoundIsSecrets
    <2>2. ASSUME NEW c \in Callers, Cache(c) PROVE MapsCookiesKept'
      <3>1. CASE Fail(c)
        BY <3>1 DEF Fail, history, MapsCookiesKept
      <3>2. CASE ~Fail(c)
        <4>1. /\ stored' = [Found EXCEPT !.OwnerKey = ownerKey[c]]
              /\ UNCHANGED mapsStored
          BY <2>2, <3>2 DEF Cache, history
        <4>2. /\ stored' \in Secrets
              /\ stored'.MapsCookies = Found.MapsCookies
          BY <4>1, <2>1 DEF TypeOK, Secrets
        <4> QED
          BY <4>1, <4>2, <2>1 DEF MapsCookiesKept, Found
      <3> QED
        BY <3>1, <3>2
    <2>3. ASSUME NEW c \in Callers, GetOwnerKey(c), ~Cache(c)
          PROVE  MapsCookiesKept'
      BY <2>3 DEF GetOwnerKey, Load, Cached, LoadFails, Token, EidInfo,
                  Request, Decrypt, Again, Fail, history,
                  MapsCookiesKept
    <2>4. CASE SignIn \/ Clear
      BY <2>4 DEF SignIn, Clear, Replace, MapsCookiesKept
    <2>5. CASE StoreSharedKey
      <3>1. /\ stored # Absent
            /\ stored' = [stored EXCEPT !.SharedKey = stored.account]
            /\ UNCHANGED mapsStored
        BY <2>5 DEF StoreSharedKey, history
      <3>2. /\ stored' \in Secrets
            /\ stored'.MapsCookies = stored.MapsCookies
        BY <3>1, <2>1 DEF TypeOK, Secrets
      <3> QED
        BY <3>1, <3>2, <2>1 DEF MapsCookiesKept
    <2>6. CASE StoreFCM
      <3>1. /\ stored' = [Found EXCEPT !.FCMCredentials = TRUE]
            /\ UNCHANGED mapsStored
        BY <2>6 DEF StoreFCM, history
      <3>2. /\ stored' \in Secrets
            /\ stored'.MapsCookies = Found.MapsCookies
        BY <3>1, <2>1 DEF Secrets
      <3> QED
        BY <3>1, <3>2, <2>1 DEF MapsCookiesKept, Found
    <2>7. CASE StoreMapsCookies
      <3>1. stored' = [Found EXCEPT !.MapsCookies = TRUE]
        BY <2>7 DEF StoreMapsCookies
      <3>2. stored' \in Secrets /\ stored'.MapsCookies = TRUE
        BY <3>1, <2>1 DEF Secrets
      <3> QED
        BY <3>2, <2>1 DEF MapsCookiesKept
    <2>8. CASE UNCHANGED vars
      BY <2>8 DEF vars, history, MapsCookiesKept
    <2> QED
      BY <2>2, <2>3, <2>4, <2>5, <2>6, <2>7, <2>8 DEF Next
  <1> QED
    BY <1>1, <1>2, PTL DEF Spec

-----------------------------------------------------------------------------
(* The cached key fits *)

\* The invariant of calls that are not overlapped holds at first.
LEMMA AloneInit == Init => AloneInv
  BY TypeInit DEF Init, AloneInv, StoreFits, CallFits, UnderWay

\* A step of one caller.
LEMMA AloneCall ==
    ASSUME NEW c \in Callers, AloneInv, ~overlapped, GetOwnerKey(c)
    PROVE  StoreFits' /\ \A d \in Callers : CallFits(d)'
  <1> TypeOK /\ TypeOK' /\ StoreFits /\ \A d \in Callers : CallFits(d)
    BY CallType DEF AloneInv
  <1>1. CASE Fail(c)
    BY <1>1 DEF Fail, Goto, TypeOK, StoreFits, CallFits, UnderWay
  <1>2. CASE Load(c)
    BY <1>2 DEF Load, Goto, TypeOK, StoreFits, CallFits, UnderWay
  <1>3. CASE Cached(c)
    BY <1>3 DEF Cached, Goto, TypeOK, StoreFits, CallFits, UnderWay
  <1>4. CASE (Token(c) \/ EidInfo(c)) /\ ~Fail(c)
    BY <1>4 DEF Token, EidInfo, Request, Goto, TypeOK, StoreFits, CallFits,
                UnderWay
  <1>5. CASE Decrypt(c) /\ ~Fail(c)
    BY <1>5 DEF Decrypt, Goto, TypeOK, StoreFits, CallFits, UnderWay
  <1>6. CASE Cache(c) /\ ~Fail(c)
    <2>1. /\ stored' = [Found EXCEPT !.OwnerKey = ownerKey[c]]
          /\ pc[c] = "cache" /\ pc' = [pc EXCEPT ![c] = "returned"]
          /\ UNCHANGED <<secrets, ownerKey>>
      BY <1>6 DEF Cache, Goto, history
    <2>2. /\ stored # Absent /\ stored \in Secrets /\ Found = stored
          /\ ownerKey[c] = stored.account
      BY <2>1 DEF CallFits, UnderWay, TypeOK, Found
    <2>3. /\ stored' \in Secrets
          /\ stored'.account = stored.account
          /\ stored'.SharedKey = stored.SharedKey
          /\ stored'.OwnerKey = stored.account
      BY <2>1, <2>2 DEF TypeOK, Secrets
    <2>4. stored' # Absent
      BY <2>3, AbsentIsNotSecrets
    <2>5. StoreFits'
      BY <2>2, <2>3 DEF StoreFits
    <2>6. ASSUME NEW d \in Callers PROVE CallFits(d)'
      BY <2>1, <2>3, <2>4 DEF CallFits, UnderWay, TypeOK
    <2> QED
      BY <2>5, <2>6
  <1>7. CASE Again(c)
    BY <1>7 DEF Again, Goto, TypeOK, StoreFits, CallFits, UnderWay
  <1> QED
    BY <1>1, <1>2, <1>3, <1>4, <1>5, <1>6, <1>7
       DEF GetOwnerKey, LoadFails

\* A step of another writer: one that replaces the secrets finds no call under
\* way, and the others leave the account alone.
LEMMA AloneOthers ==
    ASSUME AloneInv, ~overlapped',
           SignIn \/ Clear \/ StoreSharedKey \/ StoreFCM \/ StoreMapsCookies
    PROVE  StoreFits' /\ \A d \in Callers : CallFits(d)'
  <1> TypeOK
    BY DEF AloneInv
  <1> DEFINE Writes ==
        /\ stored' \in Secrets
        /\ stored'.account = Found.account
        /\ stored'.SharedKey \in {Found.SharedKey, Found.account}
        /\ stored'.OwnerKey = Found.OwnerKey
        /\ UNCHANGED <<pc, secrets, ownerKey, overlapped>>
  <1>1. CASE Writes
    <2>0. StoreFits /\ \A d \in Callers : CallFits(d)
      BY <1>1 DEF AloneInv
    <2>1. stored' # Absent
      BY <1>1, AbsentIsNotSecrets
    <2>2. StoreFits'
      BY <1>1, <2>0, <2>1 DEF StoreFits, Found, EmptySecrets
    <2>3. ASSUME NEW d \in Callers PROVE CallFits(d)'
      BY <1>1, <2>0, <2>1 DEF CallFits, UnderWay, Found
    <2> QED
      BY <2>2, <2>3
  <1>2. CASE SignIn \/ Clear
    <2>1. \A d \in Callers : ~UnderWay(d) /\ ~UnderWay(d)'
      BY <1>2 DEF SignIn, Clear, Replace, UnderWay
    <2>2. StoreFits'
      BY <1>2 DEF SignIn, Clear, StoreFits, EmptySecrets
    <2> QED
      BY <2>1, <2>2 DEF CallFits, UnderWay
  <1>3. CASE StoreSharedKey
    <2>1. Found = stored /\ stored \in Secrets
      BY <1>3 DEF StoreSharedKey, Found, TypeOK
    <2> QED
      BY <1>1, <1>3, <2>1 DEF StoreSharedKey, Secrets, history
  <1>4. CASE StoreFCM \/ StoreMapsCookies
    <2>1. Found \in Secrets
      BY FoundIsSecrets
    <2> QED
      BY <1>1, <1>4, <2>1 DEF StoreFCM, StoreMapsCookies, Secrets, history
  <1> QED
    BY <1>2, <1>3, <1>4

\* The invariant is inductive.
LEMMA AloneStep == AloneInv /\ [Next]_vars => AloneInv'
  <1> SUFFICES ASSUME AloneInv, [Next]_vars PROVE AloneInv'
    OBVIOUS
  <1>1. TypeOK'
    BY TypeStep DEF AloneInv
  <1>2. ASSUME ~overlapped'
        PROVE  StoreFits' /\ \A d \in Callers : CallFits(d)'
    <2>1. ASSUME NEW c \in Callers, GetOwnerKey(c) PROVE ~overlapped
      BY <1>2, <2>1 DEF GetOwnerKey, Load, Cached, LoadFails, Token, EidInfo,
                        Request, Decrypt, Cache, Again, Fail, history
    <2>2. CASE Next
      BY <1>2, <2>1, <2>2, AloneCall, AloneOthers DEF Next
    <2>3. CASE UNCHANGED vars
      BY <1>2, <2>3 DEF vars, history, AloneInv, StoreFits, CallFits, UnderWay
    <2> QED
      BY <2>2, <2>3
  <1> QED
    BY <1>1, <1>2 DEF AloneInv

\* It is stronger than the property.
LEMMA AloneImplies == AloneInv => CachedKeyFits
  BY DEF AloneInv, StoreFits, CachedKeyFits

\* The store and every call keep their types (auth.Secrets, GetOwnerKey).
THEOREM TypeCorrectness == Spec => []TypeOK
  BY TypeInit, TypeStep, PTL DEF Spec

\* The owner key in the store is that of the stored shared key, unless the
\* sign-in or Clear that made the secrets came during a call of GetOwnerKey.
THEOREM CachedKeyAlwaysFits == Spec => []CachedKeyFits
  BY AloneInit, AloneStep, AloneImplies, PTL DEF Spec

-----------------------------------------------------------------------------
(* The requests *)

\* The relation < on the numbers is well-founded.
LEMMA LessIsWellFounded ==
  IsWellFoundedOn({p \in Nat \X Nat : p[1] < p[2]}, Nat)
<1>1. IsWellFoundedOn(OpToRel(<, Nat), Nat)
  BY NatLessThanWellFounded
<1>2. OpToRel(<, Nat) = {p \in Nat \X Nat : p[1] < p[2]}
  BY DEF OpToRel
<1> QED
  BY <1>1, <1>2

\* A set of numbers with a number in it has a least one.
LEMMA Least ==
  ASSUME NEW T \in SUBSET Nat, T # {}
  PROVE  \E n \in T : \A m \in T : n <= m
<1> DEFINE R == {p \in Nat \X Nat : p[1] < p[2]}
<1>1. PICK n \in T : \A m \in T : <<m, n>> \notin R
  <2> HIDE DEF R
  <2>1. IsWellFoundedOn(R, Nat)
    BY LessIsWellFounded DEF R
  <2> QED
    BY <2>1, WFMin
<1>2. ASSUME NEW m \in T PROVE n <= m
  <2>1. <<m, n>> \in Nat \X Nat /\ <<m, n>>[1] = m /\ <<m, n>>[2] = n
    OBVIOUS
  <2>2. ~(m < n)
    BY <1>1, <2>1
  <2> QED
    BY <2>2
<1> QED
  BY <1>2

\* Induction, over a set of numbers instead of a predicate.
LEMMA SetInduction ==
  ASSUME NEW S \in SUBSET Nat, 0 \in S, \A n \in S : n + 1 \in S
  PROVE  S = Nat
<1>1. SUFFICES ASSUME S # Nat PROVE FALSE
  OBVIOUS
<1>2. PICK n \in Nat \ S : \A m \in Nat \ S : n <= m
  BY <1>1, Least
<1>3. n - 1 \in Nat /\ n - 1 \in S
  BY <1>2
<1> QED
  BY <1>2, <1>3

\* What is known of an answer.
IsAnswer(a) ==
  /\ a.token \in BOOLEAN /\ a.reached \in BOOLEAN /\ a.complete \in BOOLEAN
  /\ a.framed \in BOOLEAN /\ a.decodes \in BOOLEAN
  /\ a.status \in Nat

\* The assumption, for one answer.
LEMMA AnswerTypes ==
  ASSUME NEW a \in Answers
  PROVE  IsAnswer(a) /\ \E T : a.body \in Seq(T)
BY AnswersAssumption DEF AnswersAssumption, IsAnswer, IsSeq

\* The greatest number of a set is its Max.
LEMMA MaxIs ==
  ASSUME NEW S \in SUBSET Int, NEW m \in S, \A x \in S : x <= m
  PROVE  Max(S) = m /\ H!Max(S) = m
<1>1. \A y \in S : m >= y
  OBVIOUS
<1>2. ASSUME NEW z \in S, \A y \in S : z >= y PROVE z = m
  BY <1>2
<1> QED
  BY <1>1, <1>2 DEF Max, H!Max

\* The least number of a set is its Min.
LEMMA MinIs ==
  ASSUME NEW S \in SUBSET Int, NEW m \in S, \A x \in S : m <= x
  PROVE  Min(S) = m /\ H!Min(S) = m
<1>1. \A y \in S : m =< y
  OBVIOUS
<1>2. ASSUME NEW z \in S, \A y \in S : z =< y PROVE z = m
  BY <1>2
<1> QED
  BY <1>1, <1>2 DEF Min, H!Min

\* Truncate keeps pieces at the beginning as they are, and adds its mark.
LEMMA TruncateKeeps ==
  ASSUME NEW T, NEW body \in Seq(T), NEW i \in DOMAIN H!Truncate(body)
  PROVE  \/ H!Truncate(body)[i] = "..."
         \/ i \in DOMAIN body /\ \A j \in 1..i : H!Truncate(body)[j] = body[j]
<1>0. MaxLen \in Nat
  BY AnswersAssumption DEF AnswersAssumption
<1>1. CASE Len(body) <= MaxLen
  <2>1. H!Truncate(body) = body
    BY <1>1 DEF H!Truncate
  <2> QED
    BY <2>1
<1>2. CASE ~(Len(body) <= MaxLen)
  <2> DEFINE front == SubSeq(body, 1, MaxLen)
             S     == T \cup {"..."}
  <2>1. H!Truncate(body) = front \o <<"...">>
    BY <1>2 DEF H!Truncate
  <2>2. /\ front \in Seq(T) /\ Len(front) = MaxLen
        /\ \A j \in 1..MaxLen : front[j] = body[j]
    BY <1>0, <1>2
  <2>3. front \in Seq(S) /\ <<"...">> \in Seq(S) /\ Len(<<"...">>) = 1 /\ <<"...">>[1] = "..."
    BY <2>2
  <2> HIDE DEF front, S
  <2> DEFINE s == front \o <<"...">>
  <2>4. /\ s \in Seq(S) /\ Len(s) = Len(front) + Len(<<"...">>)
        /\ \A j \in 1..(Len(front) + Len(<<"...">>)) :
              s[j] = IF j <= Len(front) THEN front[j] ELSE <<"...">>[j - Len(front)]
    BY <2>3, ConcatProperties, Zenon
  <2>5. DOMAIN s = 1..(MaxLen + 1) /\ s[MaxLen + 1] = "..."
    BY <1>0, <2>2, <2>3, <2>4
  <2>6. \A j \in 1..MaxLen : s[j] = body[j]
    BY <2>2, <2>4
  <2>7. i \in 1..(MaxLen + 1)
    BY <2>1, <2>5
  <2>8. CASE i = MaxLen + 1
    BY <2>1, <2>5, <2>8
  <2>9. CASE i \in 1..MaxLen
    <3>1. i \in DOMAIN body /\ \A j \in 1..i : j \in 1..MaxLen
      BY <1>0, <1>2, <2>9
    <3> QED
      BY <2>1, <2>6, <3>1
  <2> QED
    BY <1>0, <2>7, <2>8, <2>9
<1> QED
  BY <1>1, <1>2

\* What is shown of a body whose secrets stand in fields has none in it.
LEMMA SafeHidesSecrets ==
  ASSUME NEW T, NEW body \in Seq(T), H!SecretsInFields(body), NEW i \in DOMAIN H!Safe(body)
  PROVE  H!Safe(body)[i] \notin SecretTexts
<1> DEFINE t     == H!Truncate(body)
           start == H!FieldStart(t, H!FieldSeparators, i)
<1>0. SecretTexts \cap (H!FieldSeparators \cup {"***", "..."}) = {}
  BY AnswersAssumption DEF AnswersAssumption
<1>1. /\ i \in DOMAIN t
      /\ H!Safe(body)[i] = IF t[i] \notin H!FieldSeparators /\ i > start
                                /\ t[start] \in H!SensitiveKeys
                             THEN "***" ELSE t[i]
  BY DEF H!Safe, H!Redact
<1>2. SUFFICES ASSUME t[i] \in SecretTexts
               PROVE  i > start /\ t[start] \in H!SensitiveKeys
  BY <1>0, <1>1
<1>3. i \in DOMAIN body /\ \A j \in 1..i : t[j] = body[j]
  BY <1>0, <1>1, <1>2, TruncateKeeps
<1>4. i \in 1..Len(body) /\ Len(body) \in Nat
  BY <1>3
<1>5. body[i] \in SecretTexts
  BY <1>2, <1>3, <1>4
<1>6. PICK k \in 1..(i - 1) :
        /\ body[k] \in H!SensitiveKeys
        /\ k = 1 \/ body[k - 1] \in {"&", "\n", "\r", " ", "\t"}
        /\ \A j \in k..i : body[j] \notin {"&", "\n", "\r", " ", "\t"}
  BY <1>3, <1>5, Zenon DEF H!SecretsInFields
<1>7. /\ t[k] \in H!SensitiveKeys
      /\ k = 1 \/ t[k - 1] \in H!FieldSeparators
      /\ \A j \in k..i : t[j] \notin H!FieldSeparators
  <2>1. k \in 1..i /\ (k # 1 => k - 1 \in 1..i) /\ k..i \subseteq 1..i
    BY <1>4
  <2>2. t[k] = body[k] /\ (k # 1 => t[k - 1] = body[k - 1]) /\ \A j \in k..i : t[j] = body[j]
    BY <1>3, <2>1
  <2>3. H!FieldSeparators = {"&", "\n", "\r", " ", "\t"}
    BY DEF H!FieldSeparators
  <2> HIDE DEF t
  <2> QED
    BY <1>6, <2>2, <2>3, Zenon
<1> HIDE DEF t
<1>8. start = k
  <2> DEFINE S == {0} \cup {j \in 1..(i - 1) : t[j] \in H!FieldSeparators}
  <2>1. k - 1 \in S
    <3>1. k # 1 => k - 1 \in 1..(i - 1) /\ t[k - 1] \in H!FieldSeparators
      <4>1. k # 1 => k - 1 \in 1..(i - 1)
        BY <1>4
      <4> QED
        BY <1>7, <4>1, Zenon
    <3>2. k = 1 => k - 1 = 0
      OBVIOUS
    <3> QED
      BY <3>1, <3>2
  <2>2. S \in SUBSET Int /\ \A x \in S : x <= k - 1
    <3>1. ASSUME NEW j \in 1..(i - 1), t[j] \in H!FieldSeparators PROVE j <= k - 1
      <4>1. j \notin k..i
        BY <1>7, <3>1
      <4> QED
        BY <1>4, <4>1
    <3> QED
      BY <1>4, <3>1
  <2>3. H!Max(S) = k - 1
    <3> HIDE DEF S
    <3> QED
      BY <2>1, <2>2, MaxIs
  <2> QED
    BY <1>4, <2>3 DEF H!FieldStart
<1> HIDE DEF start
<1> QED
  BY <1>4, <1>7, <1>8

\* An error shows nothing of a body, or what is safe, or a bad escape.
ShownSafely(r, a) ==
  r.shown = <<>> \/ r.shown = H!Safe(a.body) \/ \E p \in BadEscapes : r.shown = <<p>>

\* An answer that counts as one.
Good(a) == a.reached /\ a.complete /\ a.status = 200

\* The body is returned of an answer that counts, and of every such answer.
LEMMA RequestsNeedAnswers ==
  ASSUME NEW a, NEW authenticated
  PROVE  LET sent == H!Request(a, authenticated)
         IN  /\ sent.err = "none" <=> Good(a) /\ (authenticated => a.token)
             /\ sent.err = "none" => sent.value = a.body
BY DEF Good, H!Request, H!StatusOK, H!Fails, H!Shows, H!Ok

\* What url.ParseQuery takes, and what its error shows.
LEMMA ParsedOrShown ==
  ASSUME NEW T, NEW body \in Seq(T)
  PROVE  LET parsed == H!ParseQuery(body)
         IN  /\ parsed.err = "none" <=> H!WellFormed(body)
             /\ parsed.shown = <<>> \/ \E p \in BadEscapes : parsed.shown = <<p>>
<1> DEFINE bad == {i \in DOMAIN body : body[i] \in BadEscapes}
           q   == <<body[H!Min(bad)]>>
<1>1. H!ParseQuery(body) = IF \E i \in DOMAIN body : body[i] = ";" THEN H!Fails("parse")
                           ELSE IF bad # {} THEN [H!Fails("parse") EXCEPT !.shown = q]
                           ELSE H!Ok(body)
  BY DEF H!ParseQuery
<1>2. bad # {} => \E p \in BadEscapes : q = <<p>>
  <2>1. SUFFICES ASSUME bad # {} PROVE \E p \in BadEscapes : q = <<p>>
    OBVIOUS
  <2>2. bad \in SUBSET Nat
    OBVIOUS
  <2>3. PICK m \in bad : \A x \in bad : m <= x
    <3> HIDE DEF bad
    <3> QED
      BY <2>1, <2>2, Least
  <2>4. H!Min(bad) = m
    <3> HIDE DEF bad
    <3> QED
      BY <2>2, <2>3, MinIs
  <2>5. body[m] \in BadEscapes
    BY <2>3
  <2> QED
    BY <2>4, <2>5
<1>3. H!WellFormed(body) <=> ~(\E i \in DOMAIN body : body[i] = ";") /\ bad = {}
  <2> HIDE DEF q
  <2> QED
    BY DEF H!WellFormed
<1> DEFINE quoted == [H!Fails("parse") EXCEPT !.shown = q]
<1>4. /\ H!Fails("parse").err = "parse" /\ H!Fails("parse").shown = <<>>
      /\ quoted.err = "parse" /\ quoted.shown = q
      /\ H!Ok(body).err = "none" /\ H!Ok(body).shown = <<>>
  <2> HIDE DEF q
  <2> QED
    BY DEF H!Fails, H!Ok
<1> DEFINE semicolon == \E i \in DOMAIN body : body[i] = ";"
<1>5. H!ParseQuery(body) = IF semicolon THEN H!Fails("parse")
                           ELSE IF bad # {} THEN quoted ELSE H!Ok(body)
  BY <1>1
<1>6. H!WellFormed(body) <=> ~semicolon /\ bad = {}
  BY <1>3
<1> HIDE DEF bad, q, quoted, semicolon
<1> QED
  BY <1>2, <1>4, <1>5, <1>6

\* The shared request of the clients does (postAuthForm and the like).
LEMMA RequestsShowSafely ==
  ASSUME NEW a, NEW authenticated
  PROVE  ShownSafely(H!Request(a, authenticated), a)
BY DEF ShownSafely, H!Request, H!Fails, H!Shows, H!Ok

\* So does a request for a token.
LEMMA TokensShowSafely ==
  ASSUME NEW T, NEW a, a.body \in Seq(T), NEW key
  PROVE  ShownSafely(H!RequestToken(a, key), a)
<1> DEFINE sent   == H!Request(a, FALSE)
           parsed == H!ParseQuery(sent.value)
<1>1. ShownSafely(sent, a)
  BY RequestsShowSafely
<1>2. sent.err = "none" => parsed.shown = <<>> \/ \E p \in BadEscapes : parsed.shown = <<p>>
  <2>1. sent.err = "none" => sent.value = a.body
    BY RequestsNeedAnswers
  <2> QED
    BY <2>1, ParsedOrShown
<1>3. \/ H!RequestToken(a, key) = sent
      \/ sent.err = "none" /\ H!RequestToken(a, key) = parsed
      \/ H!RequestToken(a, key).shown = <<>>
      \/ H!RequestToken(a, key).shown = H!Safe(a.body)
  <2> HIDE DEF sent, parsed
  <2>1. H!RequestToken(a, key) =
           IF sent.err # "none" THEN sent
           ELSE IF parsed.err # "none" THEN parsed
           ELSE IF H!Field(sent.value, key) = <<>> THEN H!Shows("no token", a.body)
           ELSE H!Ok(H!Field(sent.value, key))
    BY DEF H!RequestToken, sent, parsed
  <2> DEFINE field == H!Field(sent.value, key)
  <2>2. H!Shows("no token", a.body).shown = H!Safe(a.body) /\ H!Ok(field).shown = <<>>
    BY DEF H!Shows, H!Ok
  <2> HIDE DEF field
  <2> QED
    BY <2>1, <2>2 DEF field
<1> HIDE DEF sent, parsed
<1> QED
  BY <1>1, <1>2, <1>3 DEF ShownSafely

\* So do all the requests.
LEMMA ResultsShowSafely ==
  ASSUME NEW T, NEW a, a.body \in Seq(T), NEW r \in H!Results(a)
  PROVE  ShownSafely(r, a)
<1>1. ShownSafely(H!ExchangeOAuthToken(a).token, a)
  BY TokensShowSafely DEF H!ExchangeOAuthToken
<1>2. ShownSafely(H!NovaRequest(a), a)
  <2>1. H!NovaRequest(a) = H!Request(a, TRUE) \/ H!NovaRequest(a).shown = <<>>
    BY DEF H!NovaRequest, H!Fails
  <2> QED
    BY <2>1, RequestsShowSafely DEF ShownSafely
<1>3. ShownSafely(H!SpotRequest(a), a)
  <2>1. H!SpotRequest(a) = H!Request(a, TRUE) \/ H!SpotRequest(a).shown = <<>>
    BY DEF H!SpotRequest, H!Fails
  <2> QED
    BY <2>1, RequestsShowSafely DEF ShownSafely
<1>4. ShownSafely(H!ListRequest(a), a)
  BY DEF ShownSafely, H!ListRequest, H!Fails, H!Shows, H!Ok
<1> QED
  BY <1>1, <1>2, <1>3, <1>4, TokensShowSafely DEF H!Results

\* No error shows a secret that stands in a field (sensitiveKeys).
LEMMA ErrorsNeverShowSecrets ==
  ASSUME NEW a \in Answers
  PROVE  H!ErrorsKeepSecrets(a)
<1>1. PICK T : a.body \in Seq(T)
  BY AnswerTypes
<1>2. ASSUME H!SecretsInFields(a.body), NEW r \in H!Results(a), NEW i \in DOMAIN r.shown
      PROVE  r.shown[i] \notin SecretTexts
  <2>1. ShownSafely(r, a)
    BY <1>1, ResultsShowSafely
  <2>2. CASE r.shown = <<>>
    BY <1>2, <2>2
  <2>3. CASE r.shown = H!Safe(a.body)
    BY <1>1, <1>2, <2>3, SafeHidesSecrets
  <2>4. CASE \E p \in BadEscapes : r.shown = <<p>>
    <3>1. PICK p \in BadEscapes : r.shown = <<p>>
      BY <2>4
    <3>2. r.shown[i] = p
      BY <1>2, <3>1
    <3> QED
      BY <3>2, AnswersAssumption DEF AnswersAssumption
  <2> QED
    BY <2>1, <2>2, <2>3, <2>4 DEF ShownSafely
<1> QED
  BY <1>2 DEF H!ErrorsKeepSecrets

\* A token is had just of a well-formed answer in which its field is not empty.
LEMMA TokensNeedAnswers ==
  ASSUME NEW T, NEW a, a.body \in Seq(T), NEW key
  PROVE  LET token == H!RequestToken(a, key)
         IN  /\ token.err = "none" <=>
                   Good(a) /\ H!WellFormed(a.body) /\ H!Field(a.body, key) # <<>>
             /\ token.err = "none" => token.value = H!Field(a.body, key)
<1> DEFINE sent   == H!Request(a, FALSE)
           token  == H!RequestToken(a, key)
           parsed == H!ParseQuery(sent.value)
           field  == H!Field(sent.value, key)
<1>1. (sent.err = "none" <=> Good(a)) /\ (sent.err = "none" => sent.value = a.body)
  BY RequestsNeedAnswers
<1>2. sent.err = "none" => (parsed.err = "none" <=> H!WellFormed(a.body))
  BY <1>1, ParsedOrShown
<1>3. sent.err = "none" => field = H!Field(a.body, key)
  BY <1>1
<1>4. token = IF sent.err # "none" THEN sent
              ELSE IF parsed.err # "none" THEN parsed
              ELSE IF field = <<>> THEN H!Shows("no token", a.body)
              ELSE H!Ok(field)
  BY DEF H!RequestToken
<1> HIDE DEF sent, token, field, parsed
<1>5. H!Shows("no token", a.body).err # "none" /\ H!Ok(field).err = "none" /\ H!Ok(field).value = field
  BY DEF H!Shows, H!Ok
<1>6. /\ token.err = "none" <=> sent.err = "none" /\ parsed.err = "none" /\ field # <<>>
      /\ token.err = "none" => token.value = field
  BY <1>4, <1>5
<1> QED
  BY <1>1, <1>2, <1>3, <1>6 DEF token

\* A body is had of an answer to Nova, to Spot and for a list when it is what it should be.
LEMMA BodiesNeedAnswers ==
  ASSUME NEW a, IsAnswer(a)
  PROVE  LET ok == a.token /\ a.status = 200
         IN  /\ H!BodyIsWhole(a, H!NovaRequest(a), ok)
             /\ H!BodyIsWhole(a, H!SpotRequest(a), ok /\ a.framed)
             /\ H!BodyIsWhole(a, H!ListRequest(a), a.status \in 200..299)
<1> DEFINE sent == H!Request(a, TRUE)
<1>1. (sent.err = "none" <=> Good(a) /\ a.token) /\ (sent.err = "none" => sent.value = a.body)
  BY RequestsNeedAnswers
<1>2. H!NovaRequest(a) = IF sent.err = "none" /\ ~a.decodes THEN H!Fails("unmarshal") ELSE sent
  BY DEF H!NovaRequest
<1>3. H!SpotRequest(a) = IF sent.err # "none" THEN sent
                         ELSE IF ~a.framed THEN H!Fails("unwrap")
                         ELSE IF ~a.decodes THEN H!Fails("unmarshal") ELSE sent
  BY DEF H!SpotRequest
<1> HIDE DEF sent
<1>4. H!Fails("unmarshal").err # "none" /\ H!Fails("unwrap").err # "none"
  BY DEF H!Fails
<1>5. H!BodyIsWhole(a, H!NovaRequest(a), a.token /\ a.status = 200)
  BY <1>1, <1>2, <1>4 DEF H!BodyIsWhole, Good
<1>6. H!BodyIsWhole(a, H!SpotRequest(a), a.token /\ a.status = 200 /\ a.framed)
  BY <1>1, <1>3, <1>4 DEF H!BodyIsWhole, Good
<1>7. H!BodyIsWhole(a, H!ListRequest(a), a.status \in 200..299)
  BY DEF H!BodyIsWhole, H!ListRequest, H!Fails, H!Shows, H!Ok
<1> QED
  BY <1>5, <1>6, <1>7 DEF H!BodyIsWhole

\* A field begins at the beginning or behind a separator.
LEMMA FieldBegins ==
  ASSUME NEW T, NEW body \in Seq(T), NEW seps, NEW i \in 1..Len(body)
  PROVE  H!FieldStart(body, seps, i) = i <=> i = 1 \/ body[i - 1] \in seps
<1> DEFINE S == {0} \cup {j \in 1..(i - 1) : body[j] \in seps}
<1>1. Len(body) \in Nat /\ i \in Nat /\ 0 \in S /\ \A x \in S : x \in 0..(i - 1)
  OBVIOUS
<1>2. i - 1 \in S <=> i = 1 \/ body[i - 1] \in seps
  <2>1. CASE i = 1
    BY <2>1
  <2>2. CASE i # 1
    <3>1. i - 1 \in 1..(i - 1) /\ i - 1 # 0
      BY <1>1, <2>2
    <3> QED
      BY <2>2, <3>1
  <2> QED
    BY <2>1, <2>2
<1>3. H!FieldStart(body, seps, i) = H!Max(S) + 1
  BY DEF H!FieldStart
<1>4. H!Max(S) \in S /\ \A x \in S : x <= H!Max(S)
  <2> DEFINE D == {d \in Nat : i - d \in S}
  <2> HIDE DEF S
  <2>1. i \in D /\ D \in SUBSET Nat
    BY <1>1
  <2>2. PICK d \in D : \A c \in D : d <= c
    <3> HIDE DEF D
    <3> QED
      BY <2>1, Least
  <2>3. i - d \in S
    BY <2>2
  <2>4. ASSUME NEW x \in S PROVE x <= i - d
    <3>1. i - x \in D
      <4>1. i - x \in Nat /\ i - (i - x) = x
        BY <1>1
      <4> QED
        BY <4>1
    <3>2. d <= i - x /\ d \in Nat /\ x \in Nat
      BY <1>1, <2>2, <3>1
    <3> QED
      BY <1>1, <3>2
  <2>5. S \in SUBSET Int
    BY <1>1
  <2> HIDE DEF D
  <2>6. H!Max(S) = i - d
    BY <2>3, <2>4, <2>5, MaxIs
  <2> QED
    BY <2>3, <2>4, <2>6
<1> HIDE DEF S
<1>5. H!Max(S) = i - 1 <=> i - 1 \in S
  BY <1>1, <1>4
<1>6. H!Max(S) \in Int
  BY <1>1, <1>4
<1> QED
  BY <1>1, <1>2, <1>3, <1>5, <1>6

\* A part of a text, from its first piece to its last.
LEMMA PartOf ==
  ASSUME NEW S, NEW text \in Seq(S), NEW first \in 1..Len(text), NEW end \in (first + 1)..(Len(text) + 1)
  PROVE  LET part == SubSeq(text, first + 1, end - 1)
         IN  /\ DOMAIN part = 1..(end - 1 - first) /\ Len(part) = end - 1 - first
             /\ \A k \in DOMAIN part : part[k] = text[first + k]
OBVIOUS

\* What Field takes is what the body says for the key; when it says that there
\* is nothing, nothing is taken.
LEMMA FieldSays ==
  ASSUME NEW T, NEW body \in Seq(T), NEW key, key \notin {"&", "\n"}
  PROVE  /\ H!Says(body, key, H!Field(body, key))
         /\ H!Says(body, key, <<>>) => H!Field(body, key) = <<>>
<1> DEFINE seps   == {"&", "\n"}
           text   == H!Unescaped(body)
           fields == {i \in DOMAIN body : text[i] = key /\ H!FieldStart(body, seps, i) = i}
           first  == H!Min(fields)
           stops  == {Len(body) + 1} \cup {j \in first..Len(body) : body[j] \in seps}
           end    == H!Min(stops)
           said(i) == IF body[i] \in DOMAIN Escapes THEN Escapes[body[i]] ELSE body[i]
           ends(i) == i = Len(body) + 1 \/ body[i] \in {"&", "\n"}
           keyed   == {i \in DOMAIN body : said(i) = key /\ (i = 1 \/ ends(i - 1))}
           part    == SubSeq(text, first + 1, end - 1)
<1>1. Len(body) \in Nat /\ DOMAIN body = 1..Len(body)
  OBVIOUS
<1>2. H!Field(body, key) = IF fields = {} THEN <<>> ELSE part
  BY DEF H!Field, H!FieldIn
<1>3. /\ DOMAIN text = DOMAIN body /\ \A i \in DOMAIN body : text[i] = said(i)
      /\ \E S : text \in Seq(S)
  <2> DEFINE S == {said(i) : i \in DOMAIN body}
  <2>1. DOMAIN text = 1..Len(body) /\ \A i \in DOMAIN body : text[i] = said(i)
    BY <1>1 DEF H!Unescaped, H!Unescape
  <2>2. text \in [1..Len(body) -> S]
    BY <1>1, <2>1 DEF H!Unescaped, H!Unescape
  <2>3. text \in Seq(S)
    BY <1>1, <2>2, SeqDef
  <2> QED
    BY <1>1, <2>1, <2>3
<1>4. fields = keyed
  <2>1. ASSUME NEW i \in DOMAIN body
        PROVE  H!FieldStart(body, seps, i) = i <=> i = 1 \/ ends(i - 1)
    <3>1. H!FieldStart(body, seps, i) = i <=> i = 1 \/ body[i - 1] \in seps
      BY <1>1, FieldBegins
    <3>2. i - 1 # Len(body) + 1
      BY <1>1
    <3> QED
      BY <3>1, <3>2
  <2> HIDE DEF ends, seps, text, said
  <2> QED
    BY <1>3, <2>1
<1>5. \A v : H!Says(body, key, v) <=>
        \/ keyed = {} /\ v = <<>>
        \/ \E i \in keyed :
             /\ \A j \in keyed : i <= j
             /\ i + Len(v) <= Len(body) /\ ends(i + Len(v) + 1)
             /\ \A k \in DOMAIN v : ~ends(i + k) /\ v[k] = said(i + k)
  BY DEF H!Says
<1>6. CASE fields = {}
  <2> HIDE DEF fields, keyed, part
  <2> QED
    BY <1>2, <1>4, <1>5, <1>6
<1>7. CASE fields # {}
  <2>1. first \in fields /\ \A j \in fields : first <= j
    <3>1. fields \in SUBSET Nat
      BY <1>1
    <3> HIDE DEF fields
    <3>2. PICK m \in fields : \A x \in fields : m <= x
      BY <1>7, <3>1, Least
    <3>3. H!Min(fields) = m
      BY <3>1, <3>2, MinIs
    <3> QED
      BY <3>2, <3>3
  <2>2. first \in 1..Len(body)
    BY <1>1, <2>1
  <2> HIDE DEF fields, first
  <2>3. end \in stops /\ \A j \in stops : end <= j
    <3>1. stops \in SUBSET Nat /\ stops # {}
      BY <1>1, <2>2
    <3> HIDE DEF stops
    <3>2. PICK m \in stops : \A x \in stops : m <= x
      BY <3>1, Least
    <3>3. H!Min(stops) = m
      BY <3>1, <3>2, MinIs
    <3> QED
      BY <3>2, <3>3
  <2>4. end \in first..(Len(body) + 1) /\ ends(end)
    BY <1>1, <2>2, <2>3
  <2>5. \A j \in first..(end - 1) : ~ends(j)
    BY <1>1, <2>2, <2>3, <2>4
  <2> HIDE DEF stops, end
  <2>6. ~ends(first)
    <3>1. body[first] \notin {"&", "\n"}
      <4>1. said(first) = key
        BY <2>1, <1>4
      <4>2. body[first] \in {"&", "\n"} => body[first] \notin DOMAIN Escapes
        BY AnswersAssumption DEF AnswersAssumption, H!FieldSeparators
      <4> QED
        BY <4>1, <4>2
    <3> QED
      BY <1>1, <2>2, <3>1
  <2>7. end \in (first + 1)..(Len(body) + 1)
    <3>1. end # first
      BY <2>4, <2>6
    <3> QED
      BY <1>1, <2>2, <2>4, <3>1
  <2>8. /\ Len(part) = end - 1 - first /\ DOMAIN part = 1..(end - 1 - first)
        /\ \A k \in DOMAIN part : part[k] = text[first + k]
    <3>1. PICK S : text \in Seq(S)
      BY <1>3
    <3> HIDE DEF text
    <3>2. Len(text) = Len(body)
      BY <1>1, <1>3, <3>1
    <3> QED
      BY <2>2, <2>7, <3>1, <3>2, PartOf
  <2>9. H!Field(body, key) = part
    BY <1>2, <1>7
  <2>10. ASSUME NEW k \in DOMAIN part PROVE ~ends(first + k) /\ part[k] = said(first + k)
    <3>1. first + k \in first..(end - 1) /\ first + k \in DOMAIN body
      BY <1>1, <2>2, <2>7, <2>8
    <3> HIDE DEF part, text, said, ends
    <3> QED
      BY <1>3, <2>5, <2>8, <3>1
  <2>11. first + Len(part) = end - 1 /\ end - 1 + 1 = end /\ end - 1 <= Len(body)
    BY <1>1, <2>2, <2>7, <2>8
  <2>12. H!Says(body, key, part)
    <3>1. first \in keyed /\ \A j \in keyed : first <= j
      BY <1>4, <2>1
    <3>2. first + Len(part) <= Len(body) /\ ends(first + Len(part) + 1)
      BY <2>4, <2>11
    <3> HIDE DEF part, said, ends, keyed
    <3> QED
      BY <1>5, <2>10, <3>1, <3>2
  <2>13. ASSUME H!Says(body, key, <<>>) PROVE part = <<>>
    <3>1. PICK i \in keyed : (\A j \in keyed : i <= j) /\ ends(i + Len(<<>>) + 1)
                              /\ i + Len(<<>>) <= Len(body)
      BY <1>4, <1>5, <1>7, <2>13
    <3>2. i = first
      BY <1>1, <1>4, <2>1, <2>2, <3>1
    <3>3. ends(first + 1) /\ first <= Len(body)
      BY <2>2, <3>1, <3>2
    <3>4. ~(first + 1 \in first..(end - 1))
      BY <2>5, <3>3
    <3>5. end = first + 1
      BY <2>2, <2>7, <3>4
    <3>6. first + 1 \in Int /\ end - 1 \in Int /\ end - 1 < first + 1
      BY <2>2, <3>5
    <3> QED
      BY <3>6, SubSeqEmpty
  <2> QED
    BY <2>9, <2>12, <2>13
<1> QED
  BY <1>6, <1>7

\* Every result is what the answer says (requestScopeToken, Request of nova and
\* spot, fetchListViaHTTP).
LEMMA ResultsAreAlwaysAnswers ==
  ASSUME NEW a \in Answers
  PROVE  H!ResultsAreAnswers(a)
<1>1. PICK T : a.body \in Seq(T)
  BY AnswerTypes
<1>2. ASSUME NEW key \in {"Token=", "Auth="}
      PROVE  H!TokenIsSaid(a, key, H!RequestToken(a, key))
  <2> DEFINE token == H!RequestToken(a, key)
             field == H!Field(a.body, key)
  <2>1. /\ token.err = "none" <=> Good(a) /\ H!WellFormed(a.body) /\ field # <<>>
        /\ token.err = "none" => token.value = field
    BY <1>1, TokensNeedAnswers
  <2>2. H!Says(a.body, key, field) /\ (H!Says(a.body, key, <<>>) => field = <<>>)
    <3>1. key \notin {"&", "\n"}
      OBVIOUS
    <3> QED
      BY <1>1, <3>1, FieldSays, Zenon
  <2> HIDE DEF token, field
  <2>3. field # <<>> <=> ~H!Says(a.body, key, <<>>)
    BY <2>2
  <2>4. H!TokenIsSaid(a, key, token)
    BY <2>1, <2>2, <2>3 DEF H!TokenIsSaid, Good
  <2> QED
    BY <2>4 DEF token
<1>3. /\ H!ExchangeOAuthToken(a).token = H!RequestToken(a, "Token=")
      /\ H!ExchangeOAuthToken(a).token.err = "none" =>
            H!ExchangeOAuthToken(a).email = H!Field(a.body, "Email=")
  BY DEF H!ExchangeOAuthToken
<1>4. H!Says(a.body, "Email=", H!Field(a.body, "Email="))
  BY <1>1, FieldSays
<1>5. IsAnswer(a)
  BY AnswerTypes
<1>6. H!TokenIsSaid(a, "Token=", H!ExchangeOAuthToken(a).token)
  BY <1>2, <1>3
<1>7. H!TokenIsSaid(a, "Auth=", H!RequestToken(a, "Auth="))
  BY <1>2
<1>8. H!ExchangeOAuthToken(a).token.err = "none" =>
         H!Says(a.body, "Email=", H!ExchangeOAuthToken(a).email)
  BY <1>3, <1>4
<1> QED
  BY <1>5, <1>6, <1>7, <1>8, BodiesNeedAnswers DEF H!ResultsAreAnswers

\* What FlattenSeq of the community modules computes, one sequence at a time.
LEMMA FlattenStepByStep ==
  ASSUME NEW T, NEW seqs \in Seq(Seq(T))
  PROVE  \E flat : /\ flat \in [0..Len(seqs) -> Seq(T)]
                   /\ flat[0] = <<>>
                   /\ \A d \in 1..Len(seqs) : flat[d] = flat[d - 1] \o seqs[d]
                   /\ H!FlattenSeq(seqs) = flat[Len(seqs)]
<1> DEFINE Loop(n, f) == f = [i \in 1..n |-> IF i = 1 THEN seqs[i] ELSE f[i - 1] \o seqs[i]]
           S == {n \in Nat : \E f : Loop(n, f)}
<1>1. 0 \in S
  <2>1. Loop(0, [i \in 1..0 |-> <<>>])
    OBVIOUS
  <2> QED
    BY <2>1
<1>2. ASSUME NEW n \in S PROVE n + 1 \in S
  <2>1. PICK f : Loop(n, f)
    OBVIOUS
  <2> DEFINE last == IF n = 0 THEN seqs[1] ELSE f[n] \o seqs[n + 1]
             g == [i \in 1..(n + 1) |-> IF i = n + 1 THEN last ELSE f[i]]
  <2>2. ASSUME NEW i \in 1..(n + 1)
        PROVE  g[i] = IF i = 1 THEN seqs[i] ELSE g[i - 1] \o seqs[i]
    <3>1. CASE i = n + 1 /\ n = 0
      BY <3>1
    <3>2. CASE i = n + 1 /\ n # 0
      <4>1. last = f[n] \o seqs[n + 1]
        BY <3>2
      <4>2. i - 1 = n /\ n \in 1..(n + 1) /\ n # n + 1 /\ i # 1
        BY <3>2
      <4>3. g[n] = f[n] /\ g[n + 1] = last
        <5> HIDE DEF last
        <5> QED
          BY <4>2
      <4> HIDE DEF g
      <4> QED
        BY <3>2, <4>1, <4>2, <4>3
    <3>3. CASE i \in 1..n
      <4>1. f[i] = IF i = 1 THEN seqs[i] ELSE f[i - 1] \o seqs[i]
        BY <2>1, <3>3
      <4>2. g[i] = f[i] /\ (i # 1 => g[i - 1] = f[i - 1])
        BY <3>3
      <4> QED
        BY <4>1, <4>2
    <3> QED
      BY <3>1, <3>2, <3>3
  <2>3. Loop(n + 1, g)
    BY <2>2
  <2>4. n + 1 \in Nat
    OBVIOUS
  <2> HIDE DEF Loop, g
  <2>5. \E f_ : Loop(n + 1, f_)
    BY <2>3
  <2> QED
    BY <2>4, <2>5
<1>3. S = Nat
  <2> HIDE DEF S
  <2>1. S \in SUBSET Nat
    BY DEF S
  <2> QED
    BY <1>1, <1>2, <2>1, SetInduction
<1> DEFINE n == Len(seqs)
<1>4. n \in Nat /\ \A d \in 1..n : seqs[d] \in Seq(T)
  OBVIOUS
<1>5. \E f : Loop(n, f)
  BY <1>3, <1>4
<1> DEFINE f == CHOOSE f : Loop(n, f)
<1>6. Loop(n, f)
  BY <1>5
<1>7. n # 0 => H!FlattenSeq(seqs) = f[n]
  BY DEF H!FlattenSeq
<1>8. n = 0 => H!FlattenSeq(seqs) = <<>>
  BY DEF H!FlattenSeq
<1> HIDE DEF f, n
<1>9. \A i \in 1..n : f[i] = IF i = 1 THEN seqs[i] ELSE f[i - 1] \o seqs[i]
  BY <1>4, <1>6
<1> DEFINE R == {m \in Nat : m \in 1..n => f[m] \in Seq(T)}
<1>10. R = Nat
  <2>1. 0 \in R
    OBVIOUS
  <2>2. ASSUME NEW m \in R PROVE m + 1 \in R
    <3>1. SUFFICES ASSUME m + 1 \in 1..n PROVE f[m + 1] \in Seq(T)
      OBVIOUS
    <3>2. f[m + 1] = IF m + 1 = 1 THEN seqs[m + 1] ELSE f[m] \o seqs[m + 1]
      <4>1. (m + 1) - 1 = m
        OBVIOUS
      <4> QED
        BY <1>9, <3>1, <4>1
    <3>3. m + 1 # 1 => f[m] \in Seq(T)
      BY <1>4, <3>1
    <3>4. seqs[m + 1] \in Seq(T)
      BY <1>4, <3>1
    <3>5. m + 1 # 1 => f[m] \o seqs[m + 1] \in Seq(T)
      BY <3>3, <3>4, ConcatProperties, Zenon
    <3> QED
      BY <3>2, <3>4, <3>5
  <2> HIDE DEF R
  <2>3. R \in SUBSET Nat
    BY DEF R
  <2> QED
    BY <2>1, <2>2, <2>3, SetInduction
<1>11. \A m \in 1..n : f[m] \in Seq(T)
  BY <1>4, <1>10
<1> DEFINE flat == [m \in 0..n |-> IF m = 0 THEN <<>> ELSE f[m]]
<1>12. flat \in [0..n -> Seq(T)]
  <2>1. ASSUME NEW m \in 0..n PROVE flat[m] \in Seq(T)
    <3>1. <<>> \in Seq(T)
      OBVIOUS
    <3>2. m # 0 => m \in 1..n
      BY <1>4
    <3> QED
      BY <1>11, <3>1, <3>2
  <2> QED
    BY <2>1
<1>13. flat[0] = <<>>
  BY <1>4
<1>14. ASSUME NEW d \in 1..n PROVE flat[d] = flat[d - 1] \o seqs[d]
  <2>1. flat[d] = f[d]
    BY <1>4
  <2>2. CASE d = 1
    <3>1. flat[d - 1] = <<>> /\ flat[d] = seqs[d] /\ seqs[d] \in Seq(T)
      BY <1>4, <1>9, <2>1, <2>2
    <3>2. <<>> \o seqs[d] = seqs[d]
      BY <3>1, ConcatEmptySeq, Zenon
    <3> QED
      BY <3>1, <3>2
  <2>3. CASE d # 1
    <3>1. flat[d - 1] = f[d - 1]
      BY <1>4, <2>3
    <3> QED
      BY <1>9, <2>1, <2>3, <3>1
  <2> QED
    BY <2>2, <2>3
<1>15. H!FlattenSeq(seqs) = flat[n]
  BY <1>4, <1>7, <1>8
<1> HIDE DEF flat
<1> QED
  BY <1>12, <1>13, <1>14, <1>15 DEF n

\* Where in a concatenation its parts are.
LEMMA PartsOfConcat ==
  ASSUME NEW T, NEW s \in Seq(T), NEW t \in Seq(T)
  PROVE  /\ s \o t \in Seq(T) /\ Len(s \o t) = Len(s) + Len(t)
         /\ \A k \in 1..Len(s) : (s \o t)[k] = s[k]
         /\ \A i \in 1..Len(t) : (s \o t)[Len(s) + i] = t[i]
<1> DEFINE st == s \o t
           l == Len(s)
           m == Len(t)
<1>1. /\ st \in Seq(T) /\ Len(st) = l + m
      /\ \A k \in 1..l + m : st[k] = IF k <= l THEN s[k] ELSE t[k - l]
  BY ConcatProperties, Zenon
<1>2. l \in Nat /\ m \in Nat
  OBVIOUS
<1> HIDE DEF st, l, m
<1>3. \A k \in 1..l : st[k] = s[k]
  BY <1>1, <1>2
<1>4. ASSUME NEW i \in 1..m PROVE st[l + i] = t[i]
  <2>1. l + i \in 1..l + m /\ ~(l + i <= l) /\ (l + i) - l = i
    BY <1>2
  <2>2. st[l + i] = t[(l + i) - l]
    BY <1>1, <2>1, Zenon
  <2> QED
    BY <2>1, <2>2
<1> QED
  BY <1>1, <1>3, <1>4 DEF st, l, m

\* The sections of the first m sequences in their concatenation: each sequence
\* is one, from where the sequences before it end, and there is nothing else.
Sectioned(seqs, flat, m) ==
  /\ \A d \in 1..m : Len(flat[d - 1]) <= Len(flat[m])
  /\ \A d \in 1..m : \A i \in 1..Len(seqs[d]) :
        /\ Len(flat[d - 1]) + i \in 1..Len(flat[m])
        /\ flat[m][Len(flat[d - 1]) + i] = seqs[d][i]
  /\ \A k \in 1..Len(flat[m]) : \E d \in 1..m : \E i \in 1..Len(seqs[d]) :
        k = Len(flat[d - 1]) + i

\* One more sequence is one more section.
LEMMA NextSection ==
  ASSUME NEW T, NEW seqs \in Seq(Seq(T)), NEW flat \in [0..Len(seqs) -> Seq(T)],
         NEW m \in Nat, m + 1 <= Len(seqs), flat[m + 1] = flat[m] \o seqs[m + 1],
         Sectioned(seqs, flat, m)
  PROVE  Sectioned(seqs, flat, m + 1)
<1> DEFINE s == flat[m]
           t == seqs[m + 1]
           L(d) == Len(flat[d])
<1>1. s \in Seq(T) /\ t \in Seq(T) /\ (m + 1) - 1 = m
  <2>1. m \in 0..Len(seqs) /\ m + 1 \in 1..Len(seqs) /\ (m + 1) - 1 = m
    OBVIOUS
  <2>2. flat[m] \in Seq(T)
    BY <2>1
  <2>3. seqs[m + 1] \in Seq(T)
    BY <2>1
  <2> QED
    BY <2>1, <2>2, <2>3
<1>2. /\ flat[m + 1] \in Seq(T) /\ L(m + 1) = L(m) + Len(t)
      /\ \A k \in 1..L(m) : flat[m + 1][k] = s[k]
      /\ \A i \in 1..Len(t) : flat[m + 1][L(m) + i] = t[i]
  <2> DEFINE st == s \o t
  <2>1. /\ st \in Seq(T) /\ Len(st) = Len(s) + Len(t)
        /\ \A k \in 1..Len(s) : st[k] = s[k]
        /\ \A i \in 1..Len(t) : st[Len(s) + i] = t[i]
    <3>1. s \in Seq(T) /\ t \in Seq(T)
      BY <1>1
    <3> HIDE DEF s, t
    <3> QED
      BY <3>1, PartsOfConcat
  <2>2. flat[m + 1] = st
    OBVIOUS
  <2> HIDE DEF st, t
  <2> QED
    BY <2>1, <2>2
<1>3. /\ L(m) \in Nat /\ Len(t) \in Nat
      /\ \A d \in 1..m : d \in 1..(m + 1) /\ L(d - 1) \in Nat /\ Len(seqs[d]) \in Nat
  <2>1. L(m) \in Nat /\ Len(t) \in Nat
    <3> HIDE DEF s, t
    <3> QED
      BY <1>1 DEF s
  <2>2. ASSUME NEW d \in 1..m
        PROVE  d \in 1..(m + 1) /\ L(d - 1) \in Nat /\ Len(seqs[d]) \in Nat
    <3>1. d - 1 \in 0..Len(seqs) /\ d \in 1..Len(seqs) /\ d \in 1..(m + 1)
      OBVIOUS
    <3>2. flat[d - 1] \in Seq(T)
      BY <3>1
    <3>3. seqs[d] \in Seq(T)
      BY <3>1
    <3>4. L(d - 1) \in Nat
      BY <3>2
    <3>5. Len(seqs[d]) \in Nat
      BY <3>3
    <3> QED
      BY <3>1, <3>4, <3>5
  <2> HIDE DEF L, t
  <2> QED
    BY <2>1, <2>2
<1>4. /\ \A d \in 1..m : L(d - 1) <= L(m)
      /\ \A d \in 1..m : \A i \in 1..Len(seqs[d]) :
           L(d - 1) + i \in 1..L(m) /\ s[L(d - 1) + i] = seqs[d][i]
      /\ \A k \in 1..L(m) : \E d \in 1..m : \E i \in 1..Len(seqs[d]) : k = L(d - 1) + i
  BY DEF Sectioned
<1>5. \A d \in 1..(m + 1) : d \in 1..m \/ (d = m + 1 /\ L(d - 1) = L(m))
  BY <1>1
<1> HIDE DEF s, t, L
<1>6. ASSUME NEW d \in 1..(m + 1) PROVE L(d - 1) <= L(m + 1)
  <2>1. L(m) <= L(m + 1) /\ L(m) \in Nat /\ L(m + 1) \in Nat
    BY <1>2, <1>3
  <2>2. CASE d \in 1..m
    <3>1. L(d - 1) <= L(m) /\ L(d - 1) \in Nat
      BY <1>3, <1>4, <2>2
    <3> QED
      BY <2>1, <3>1
  <2>3. CASE d = m + 1 /\ L(d - 1) = L(m)
    BY <2>1, <2>3
  <2> QED
    BY <1>5, <2>2, <2>3
<1>7. ASSUME NEW d \in 1..(m + 1), NEW i \in 1..Len(seqs[d])
      PROVE  L(d - 1) + i \in 1..L(m + 1) /\ flat[m + 1][L(d - 1) + i] = seqs[d][i]
  <2>1. CASE d \in 1..m
    <3>1. L(d - 1) + i \in 1..L(m) /\ s[L(d - 1) + i] = seqs[d][i]
      BY <1>4, <2>1
    <3>2. L(d - 1) + i \in 1..L(m + 1)
      BY <1>2, <1>3, <3>1
    <3>3. flat[m + 1][L(d - 1) + i] = s[L(d - 1) + i]
      BY <1>2, <3>1
    <3> QED
      BY <3>1, <3>2, <3>3
  <2>2. CASE d = m + 1 /\ L(d - 1) = L(m)
    <3>1. i \in 1..Len(t) /\ seqs[d] = t
      BY <2>2 DEF t
    <3>2. L(m) + i \in 1..L(m + 1)
      BY <1>2, <1>3, <3>1
    <3>3. flat[m + 1][L(m) + i] = t[i]
      BY <1>2, <3>1
    <3> QED
      BY <2>2, <3>1, <3>2, <3>3
  <2> QED
    BY <1>5, <2>1, <2>2
<1>8. ASSUME NEW k \in 1..L(m + 1)
      PROVE  \E d \in 1..(m + 1) : \E i \in 1..Len(seqs[d]) : k = L(d - 1) + i
  <2>1. CASE k \in 1..L(m)
    BY <1>3, <1>4, <2>1
  <2>2. CASE k \notin 1..L(m)
    <3>1. k - L(m) \in 1..Len(t) /\ k = L(m) + (k - L(m))
      BY <1>2, <1>3, <2>2
    <3>2. m + 1 \in 1..(m + 1)
      OBVIOUS
    <3> QED
      BY <1>1, <3>1, <3>2 DEF t
  <2> QED
    BY <2>1, <2>2
<1> QED
  BY <1>6, <1>7, <1>8 DEF Sectioned, L

\* The sections of what FlattenSeq returns.
LEMMA FlatInSections ==
  ASSUME NEW T, NEW seqs \in Seq(Seq(T))
  PROVE  \E flat : /\ flat \in [0..Len(seqs) -> Seq(T)]
                   /\ H!FlattenSeq(seqs) = flat[Len(seqs)]
                   /\ Sectioned(seqs, flat, Len(seqs))
<1> DEFINE n == Len(seqs)
<1>1. PICK flat : /\ flat \in [0..n -> Seq(T)] /\ flat[0] = <<>>
                  /\ \A d \in 1..n : flat[d] = flat[d - 1] \o seqs[d]
                  /\ H!FlattenSeq(seqs) = flat[n]
  BY FlattenStepByStep
<1>2. n \in Nat
  OBVIOUS
<1> DEFINE S == {m \in Nat : m <= n => Sectioned(seqs, flat, m)}
<1>3. 0 \in S
  <2>1. 1..0 = {} /\ Len(flat[0]) = 0
    BY <1>1
  <2> QED
    BY <2>1 DEF Sectioned
<1>4. ASSUME NEW m \in S PROVE m + 1 \in S
  <2>1. SUFFICES ASSUME m + 1 <= n PROVE Sectioned(seqs, flat, m + 1)
    OBVIOUS
  <2>2. m \in Nat /\ Sectioned(seqs, flat, m) /\ m + 1 \in 1..n /\ (m + 1) - 1 = m
    BY <1>2, <2>1
  <2>3. flat[m + 1] = flat[m] \o seqs[m + 1]
    BY <1>1, <2>2
  <2> QED
    BY <1>1, <2>1, <2>2, <2>3, NextSection
<1>5. S = Nat
  <2> HIDE DEF S
  <2>1. S \in SUBSET Nat
    BY DEF S
  <2> QED
    BY <1>3, <1>4, <2>1, SetInduction
<1>6. Sectioned(seqs, flat, n)
  BY <1>2, <1>5
<1> QED
  BY <1>1, <1>6

\* Every device has its section of the list.
LEMMA DevicesAlwaysListed ==
  ASSUME NEW devices \in DeviceLists
  PROVE  H!DevicesListed(devices)
<1> DEFINE ids(d) == IF devices[d].android THEN devices[d].phoneIDs ELSE devices[d].ids
           tell(d) == [i \in DOMAIN ids(d) |-> [name |-> devices[d].name, id |-> ids(d)[i]]]
           n       == Len(devices)
           seqs    == [d \in 1..n |-> tell(d)]
           T       == UNION {{tell(d)[i] : i \in DOMAIN ids(d)} : d \in 1..n}
<1>1. n \in Nat /\ DOMAIN devices = 1..n
  BY AnswersAssumption DEF AnswersAssumption, IsSeq
<1>2. ASSUME NEW d \in 1..n
      PROVE  Len(ids(d)) \in Nat /\ DOMAIN ids(d) = 1..Len(ids(d))
  BY <1>1, AnswersAssumption DEF AnswersAssumption, IsSeq
<1>3. H!CanonicIDs(devices) = H!FlattenSeq(seqs)
  BY <1>1 DEF H!CanonicIDs, H!DeviceIDs
<1>16. H!DevicesListed(devices) <=>
         LET listed == H!CanonicIDs(devices)
             named(d) == {k \in DOMAIN listed : listed[k].name = devices[d].name}
         IN  H!IsInjective([d \in DOMAIN devices |-> devices[d].name]) =>
               /\ \A d \in DOMAIN devices : \E before \in 0..Len(listed) :
                     /\ named(d) = (before + 1)..(before + Len(ids(d)))
                     /\ \A i \in DOMAIN ids(d) : listed[before + i].id = ids(d)[i]
               /\ DOMAIN listed = UNION {named(d) : d \in DOMAIN devices}
  BY DEF H!DevicesListed
<1> HIDE DEF ids, n
<1>4. ASSUME NEW d \in 1..n
      PROVE  /\ tell(d) \in Seq(T) /\ Len(tell(d)) = Len(ids(d))
             /\ \A i \in 1..Len(ids(d)) :
                   tell(d)[i].name = devices[d].name /\ tell(d)[i].id = ids(d)[i]
  <2>1. \A i \in 1..Len(ids(d)) : tell(d)[i] \in T
    BY <1>2
  <2>2. tell(d) \in [1..Len(ids(d)) -> T]
    <3> HIDE DEF T
    <3> QED
      BY <1>2, <2>1
  <2>3. tell(d) \in Seq(T) /\ Len(tell(d)) = Len(ids(d))
    <3> HIDE DEF T, tell
    <3> QED
      BY <1>2, <2>2
  <2> QED
    BY <1>2, <2>3
<1> HIDE DEF tell, T
<1>5. seqs \in Seq(Seq(T)) /\ Len(seqs) = n /\ \A d \in 1..n : seqs[d] = tell(d)
  BY <1>1, <1>4
<1> HIDE DEF seqs
<1>6. PICK flat : /\ flat \in [0..n -> Seq(T)] /\ H!FlattenSeq(seqs) = flat[n]
                  /\ Sectioned(seqs, flat, n)
  BY <1>5, FlatInSections
<1> DEFINE listed   == H!CanonicIDs(devices)
           before(d) == Len(flat[d - 1])
           named(d) == {k \in DOMAIN listed : listed[k].name = devices[d].name}
<1>17. listed = flat[n]
  BY <1>3, <1>6
<1> HIDE DEF listed
<1>7. Len(listed) \in Nat /\ DOMAIN listed = 1..Len(listed)
  BY <1>1, <1>6, <1>17
<1>8. ASSUME NEW d \in 1..n PROVE before(d) \in 0..Len(listed)
  <2>1. d - 1 \in 0..n
    BY <1>1
  <2>2. before(d) \in Nat
    BY <1>6, <2>1
  <2>3. before(d) <= Len(listed)
    BY <1>6, <1>17 DEF Sectioned
  <2> QED
    BY <1>7, <2>2, <2>3
<1>9. ASSUME NEW d \in 1..n, NEW i \in 1..Len(ids(d))
      PROVE  /\ before(d) + i \in DOMAIN listed
             /\ listed[before(d) + i].name = devices[d].name
             /\ listed[before(d) + i].id = ids(d)[i]
  <2>1. i \in 1..Len(seqs[d]) /\ seqs[d] = tell(d)
    BY <1>4, <1>5
  <2>2. before(d) + i \in 1..Len(listed) /\ listed[before(d) + i] = tell(d)[i]
    BY <1>6, <1>17, <2>1 DEF Sectioned
  <2> QED
    BY <1>4, <1>7, <2>2
<1>10. ASSUME NEW k \in DOMAIN listed
       PROVE  \E d \in 1..n : \E i \in 1..Len(ids(d)) : k = before(d) + i
  <2>1. \E d \in 1..n : \E i \in 1..Len(seqs[d]) : k = before(d) + i
    BY <1>6, <1>7, <1>17 DEF Sectioned
  <2> QED
    BY <1>4, <1>5, <2>1
<1> HIDE DEF before
<1>11. SUFFICES ASSUME H!IsInjective([d \in DOMAIN devices |-> devices[d].name])
       PROVE  /\ \A d \in 1..n : \E b \in 0..Len(listed) :
                   /\ named(d) = (b + 1)..(b + Len(ids(d)))
                   /\ \A i \in DOMAIN ids(d) : listed[b + i].id = ids(d)[i]
              /\ DOMAIN listed = UNION {named(d) : d \in 1..n}
  BY <1>1, <1>16 DEF listed
<1>12. \A c, d \in 1..n : devices[c].name = devices[d].name => c = d
  BY <1>1, <1>11 DEF H!IsInjective
<1>13. ASSUME NEW d \in 1..n
       PROVE  named(d) = (before(d) + 1)..(before(d) + Len(ids(d)))
  <2> DEFINE b == before(d)
             l == Len(ids(d))
  <2>1. b \in Int /\ l \in Nat
    BY <1>2, <1>7, <1>8
  <2>2. ASSUME NEW k \in named(d) PROVE k \in (b + 1)..(b + l)
    <3>1. PICK c \in 1..n : \E i \in 1..Len(ids(c)) : k = before(c) + i
      BY <1>10
    <3>2. PICK i \in 1..Len(ids(c)) : k = before(c) + i
      BY <3>1
    <3>4. c = d
      BY <1>9, <1>12, <3>2
    <3>3. k = b + i /\ i \in 1..l
      BY <3>2, <3>4
    <3> HIDE DEF b, l
    <3> QED
      BY <2>1, <3>3
  <2>3. ASSUME NEW k \in (b + 1)..(b + l) PROVE k \in named(d)
    <3>1. k - b \in 1..l /\ k = b + (k - b)
      <4> HIDE DEF b, l
      <4> QED
        BY <2>1
    <3>2. b + (k - b) \in DOMAIN listed /\ listed[b + (k - b)].name = devices[d].name
      BY <1>9, <3>1
    <3> QED
      BY <3>1, <3>2
  <2> QED
    BY <2>2, <2>3
<1>14. ASSUME NEW d \in 1..n
       PROVE  \E b \in 0..Len(listed) :
                /\ named(d) = (b + 1)..(b + Len(ids(d)))
                /\ \A i \in DOMAIN ids(d) : listed[b + i].id = ids(d)[i]
  <2>1. before(d) \in 0..Len(listed)
    BY <1>8
  <2>2. \A i \in DOMAIN ids(d) : listed[before(d) + i].id = ids(d)[i]
    BY <1>2, <1>9
  <2>3. named(d) = (before(d) + 1)..(before(d) + Len(ids(d)))
    BY <1>13
  <2> HIDE DEF named
  <2> QED
    BY <2>1, <2>2, <2>3, Zenon
<1>15. DOMAIN listed = UNION {named(d) : d \in 1..n}
  <2>1. ASSUME NEW k \in DOMAIN listed PROVE \E d \in 1..n : k \in named(d)
    <3>1. PICK d \in 1..n : \E i \in 1..Len(ids(d)) : k = before(d) + i
      BY <1>10
    <3>2. listed[k].name = devices[d].name
      BY <1>9, <3>1
    <3> QED
      BY <3>2
  <2>2. \A d \in 1..n : named(d) \subseteq DOMAIN listed
    OBVIOUS
  <2> HIDE DEF named
  <2> QED
    BY <2>1, <2>2
<1> QED
  BY <1>14, <1>15

\* AnswersTold, for whatever answers, escapes and device lists: the five requests
\* succeed on good answers and on no others, tokens are what their fields say once
\* unescaped, no error shows a secret, and every identifier of a device is told
\* (postAuthForm, url.ParseQuery, the requests of nova, spot and savedplaces,
\* httpbody.Safe, CanonicIDs).
THEOREM AnswersAlwaysTold == AnswersSpec => []AnswersTold
<1>1. NothingPicked => AnswersTold
  BY DEF NothingPicked, AnswersTold
<1>2. AnswersTold /\ [PickResponse]_<<subject, input>> => AnswersTold'
  <2> SUFFICES ASSUME AnswersTold, [PickResponse]_<<subject, input>> PROVE AnswersTold'
    OBVIOUS
  <2>1. CASE PickAnswer
    <3>1. input' \in Answers /\ subject' = "answer"
      BY <2>1 DEF PickAnswer, Picks
    <3>2. H!ErrorsKeepSecrets(input') /\ H!ResultsAreAnswers(input')
      BY <3>1, ErrorsNeverShowSecrets, ResultsAreAlwaysAnswers
    <3> QED
      BY <3>1, <3>2 DEF AnswersTold
  <2>2. CASE PickDevices
    <3>1. input' \in DeviceLists /\ subject' = "devices"
      BY <2>2 DEF PickDevices, Picks
    <3>2. H!DevicesListed(input')
      BY <3>1, DevicesAlwaysListed
    <3> QED
      BY <3>1, <3>2 DEF AnswersTold
  <2>3. CASE UNCHANGED <<subject, input>>
    <3>1. subject' = subject /\ input' = input
      BY <2>3
    <3> QED
      BY <3>1 DEF AnswersTold
  <2> QED
    BY <2>1, <2>2, <2>3 DEF PickResponse
<1> QED
  BY <1>1, <1>2, PTL DEF AnswersSpec

-----------------------------------------------------------------------------
(* The frames *)

\* Division with remainder.
LEMMA DivMod ==
  ASSUME NEW a \in Nat, NEW b \in Nat \ {0}
  PROVE  /\ a \div b \in Nat /\ a % b \in 0..(b - 1)
         /\ a = b * (a \div b) + (a % b)
         /\ a < b => a % b = a
OBVIOUS

\* A remainder is its own, also with the divisor added.
LEMMA ModOfSum ==
  ASSUME NEW b \in Nat \ {0}, NEW d \in 0..(b - 1)
  PROVE  (d + b) % b = d /\ d % b = d
OBVIOUS

\* A loop of n turns, what it holds before the first, and what each makes of it.
Turns(step, n, S) == \A i \in 1..n : \A y \in S : step[i][y] \in S
IsRun(f, n, S, first, step) ==
  /\ f \in [0..n -> S] /\ f[0] = first
  /\ \A i \in 1..n : f[i] = step[i][f[i - 1]]

\* A loop has a run.
LEMMA Iterated ==
  ASSUME NEW n \in Nat, NEW S, NEW first \in S, NEW step, Turns(step, n, S)
  PROVE  \E f : IsRun(f, n, S, first, step)
<1> DEFINE Loop(m, f) == IsRun(f, m, S, first, step)
           T == {m \in Nat : m <= n => \E f : Loop(m, f)}
<1>1. 0 \in T
  <2>1. Loop(0, [i \in 0..0 |-> first])
    BY DEF IsRun
  <2> QED
    BY <2>1
<1>2. ASSUME NEW m \in T PROVE m + 1 \in T
  <2>1. SUFFICES ASSUME m + 1 <= n PROVE \E f_ : Loop(m + 1, f_)
    <3>1. m + 1 \in Nat
      OBVIOUS
    <3> HIDE DEF Loop
    <3> QED
      BY <3>1
  <2>2. PICK f : Loop(m, f)
    BY <2>1
  <2> DEFINE last == step[m + 1][f[m]]
             g == [i \in 0..(m + 1) |-> IF i = m + 1 THEN last ELSE f[i]]
  <2>3. f[m] \in S /\ m + 1 \in 1..n
    BY <2>1, <2>2 DEF IsRun
  <2>4. last \in S
    BY <2>3 DEF Turns
  <2> HIDE DEF last
  <2>5. g \in [0..(m + 1) -> S] /\ g[0] = first
    BY <2>2, <2>4 DEF IsRun
  <2>6. ASSUME NEW i \in 1..(m + 1) PROVE g[i] = step[i][g[i - 1]]
    <3>1. CASE i = m + 1
      <4>1. g[i] = last /\ g[i - 1] = f[m]
        BY <3>1
      <4> QED
        BY <3>1, <4>1 DEF last
    <3>2. CASE i \in 1..m
      <4>1. g[i] = f[i] /\ g[i - 1] = f[i - 1]
        BY <3>2
      <4> QED
        BY <2>2, <3>2, <4>1 DEF IsRun
    <3> QED
      BY <3>1, <3>2
  <2>7. Loop(m + 1, g)
    BY <2>5, <2>6 DEF IsRun
  <2> HIDE DEF Loop, g
  <2> QED
    BY <2>7
<1>3. T = Nat
  <2> HIDE DEF T
  <2>1. T \in SUBSET Nat
    BY DEF T
  <2> QED
    BY <1>1, <1>2, <2>1, SetInduction
<1> QED
  BY <1>3

\* What is known of the widths.
LEMMA Widths ==
  /\ Group \in Nat /\ Group > 1 /\ Word \in Nat /\ Word > 0
  /\ MostBytes \in Nat /\ MostBytes > 0
  /\ Word <= Scale[MostBytes]
  /\ \A n \in 1..MostBytes : (n - 1) * GroupBits < WordBits
<1>1. /\ GroupBits \in Nat /\ GroupBits > 0 /\ WordBits \in Nat /\ WordBits > 0
      /\ Group \in Nat /\ Group > 1 /\ Word \in Nat /\ Word > 0
      /\ Word <= Scale[MostBytes]
  BY WidthAssumption DEF WidthAssumption
<1> DEFINE sum == WordBits + GroupBits - 1
<1>2. /\ MostBytes \in Nat /\ sum % GroupBits \in 0..(GroupBits - 1)
      /\ sum = GroupBits * MostBytes + (sum % GroupBits)
  <2>1. sum \in Nat /\ GroupBits \in Nat \ {0}
    BY <1>1
  <2> HIDE DEF sum
  <2> QED
    BY <2>1, DivMod DEF MostBytes, sum
<1>3. MostBytes > 0
  <2>1. sum >= GroupBits
    BY <1>1
  <2>2. MostBytes # 0
    <3>1. SUFFICES ASSUME MostBytes = 0 PROVE FALSE
      OBVIOUS
    <3>2. GroupBits * MostBytes = 0
      BY <1>1, <3>1
    <3> QED
      BY <1>1, <1>2, <2>1, <3>2
  <2> QED
    BY <1>2, <2>2
<1>4. ASSUME NEW n \in 1..MostBytes PROVE (n - 1) * GroupBits < WordBits
  <2>1. n * GroupBits <= GroupBits * MostBytes
    BY <1>1, <1>2
  <2>2. (n - 1) * GroupBits = n * GroupBits - GroupBits
    BY <1>1
  <2> QED
    BY <1>1, <1>2, <2>1, <2>2
<1> QED
  BY <1>1, <1>2, <1>3, <1>4

\* A number in groups of bits.
LEMMA InGroups ==
  ASSUME NEW a \in Nat
  PROVE  /\ a \div Group \in Nat /\ a % Group \in 0..(Group - 1)
         /\ a = Group * (a \div Group) + (a % Group)
         /\ a < Group => a % Group = a /\ a \div Group = 0
<1>1. Group \in Nat \ {0}
  BY Widths
<1>2. /\ a \div Group \in Nat /\ a % Group \in 0..(Group - 1)
      /\ a = Group * (a \div Group) + (a % Group)
      /\ a < Group => a % Group = a
  BY <1>1, DivMod
<1>3. ASSUME a < Group PROVE a \div Group = 0
  BY <1>1, <1>3
<1> QED
  BY <1>2, <1>3

\* The scale by its recursion.
LEMMA ScaleSteps ==
  /\ Scale \in [0..MostBytes -> Nat] /\ Scale[0] = 1
  /\ \A i \in 1..MostBytes : Scale[i] = Group * Scale[i - 1]
  /\ \A i \in 0..MostBytes : Scale[i] >= 1
<1> DEFINE step == [i \in 1..MostBytes |-> [y \in Nat \ {0} |-> Group * y]]
           Loop(f) == f = [i \in 0..MostBytes |-> IF i = 0 THEN 1 ELSE Group * f[i - 1]]
<1>1. Turns(step, MostBytes, Nat \ {0})
  <2>1. ASSUME NEW y \in Nat \ {0} PROVE Group * y \in Nat \ {0}
    BY Widths
  <2> QED
    BY <2>1 DEF Turns
<1>2. PICK f : /\ f \in [0..MostBytes -> Nat \ {0}] /\ f[0] = 1
               /\ \A i \in 1..MostBytes : f[i] = step[i][f[i - 1]]
  <2>1. MostBytes \in Nat /\ 1 \in Nat \ {0}
    BY Widths
  <2> HIDE DEF step
  <2>2. \E f : IsRun(f, MostBytes, Nat \ {0}, 1, step)
    BY <1>1, <2>1, Iterated
  <2> QED
    BY <2>2 DEF IsRun
<1>3. ASSUME NEW i \in 1..MostBytes PROVE f[i] = Group * f[i - 1]
  <2>1. i - 1 \in 0..MostBytes
    BY Widths
  <2>2. f[i - 1] \in Nat \ {0}
    BY <1>2, <2>1
  <2> QED
    BY <1>2, <2>2
<1>4. Loop(f)
  <2> DEFINE h == [i \in 0..MostBytes |-> IF i = 0 THEN 1 ELSE Group * f[i - 1]]
  <2>1. ASSUME NEW i \in 0..MostBytes PROVE f[i] = h[i]
    <3>1. i # 0 => i \in 1..MostBytes
      BY Widths
    <3> QED
      BY <1>2, <1>3, <3>1
  <2>2. f = [i \in 0..MostBytes |-> f[i]]
    BY <1>2
  <2> HIDE DEF h
  <2>3. f = h
    <3>1. h = [i \in 0..MostBytes |-> h[i]]
      BY DEF h
    <3> QED
      BY <2>1, <2>2, <3>1
  <2> QED
    BY <2>3 DEF h
<1>5. Loop(Scale)
  BY <1>4 DEF Scale
<1>6. Scale = f
  <2> DEFINE T == {m \in Nat : m \in 0..MostBytes => Scale[m] = f[m]}
  <2>1. 0 \in T
    BY <1>2, <1>5
  <2>2. ASSUME NEW m \in T PROVE m + 1 \in T
    <3>1. SUFFICES ASSUME m + 1 \in 0..MostBytes PROVE Scale[m + 1] = f[m + 1]
      OBVIOUS
    <3>2. /\ m \in 0..MostBytes /\ m + 1 \in 1..MostBytes /\ (m + 1) - 1 = m
          /\ m + 1 # 0
      BY <3>1, Widths
    <3>3. Scale[m + 1] = Group * Scale[m]
      BY <1>5, <3>1, <3>2
    <3>4. f[m + 1] = Group * f[m]
      BY <1>3, <3>2
    <3> QED
      BY <3>2, <3>3, <3>4
  <2>3. T = Nat
    <3> HIDE DEF T
    <3>1. T \in SUBSET Nat
      BY DEF T
    <3> QED
      BY <2>1, <2>2, <3>1, SetInduction
  <2>4. \A m \in 0..MostBytes : Scale[m] = f[m]
    BY <2>3, Widths
  <2>5. Scale = [m \in 0..MostBytes |-> Scale[m]]
    BY <1>5
  <2>6. f = [m \in 0..MostBytes |-> f[m]]
    BY <1>2
  <2> HIDE DEF Loop
  <2> QED
    BY <2>4, <2>5, <2>6
<1>7. \A i \in 0..MostBytes : f[i] \in Nat /\ f[i] >= 1
  BY <1>2
<1>8. f \in [0..MostBytes -> Nat]
  BY <1>2
<1> QED
  BY <1>2, <1>3, <1>6, <1>7, <1>8

\* What is left after each turn of encodeVarint32.
LEMMA LeftSteps ==
  ASSUME NEW x \in Nat
  PROVE  /\ Left(x) \in [0..MostBytes -> Nat] /\ Left(x)[0] = x
         /\ \A i \in 1..MostBytes : Left(x)[i] = Left(x)[i - 1] \div Group
<1> DEFINE step == [i \in 1..MostBytes |-> [y \in Nat |-> y \div Group]]
           Loop(f) == f = [i \in 0..MostBytes |-> IF i = 0 THEN x ELSE f[i - 1] \div Group]
<1>1. Turns(step, MostBytes, Nat)
  <2>1. ASSUME NEW y \in Nat PROVE y \div Group \in Nat
    BY InGroups
  <2> QED
    BY <2>1 DEF Turns
<1>2. PICK f : /\ f \in [0..MostBytes -> Nat] /\ f[0] = x
               /\ \A i \in 1..MostBytes : f[i] = step[i][f[i - 1]]
  <2>1. MostBytes \in Nat
    BY Widths
  <2> HIDE DEF step
  <2>2. \E f : IsRun(f, MostBytes, Nat, x, step)
    BY <1>1, <2>1, Iterated
  <2> QED
    BY <2>2 DEF IsRun
<1>3. ASSUME NEW i \in 1..MostBytes PROVE f[i] = f[i - 1] \div Group
  <2>1. i - 1 \in 0..MostBytes
    BY Widths
  <2>2. f[i - 1] \in Nat
    BY <1>2, <2>1
  <2> QED
    BY <1>2, <2>2
<1>4. Loop(f)
  <2> DEFINE h == [i \in 0..MostBytes |-> IF i = 0 THEN x ELSE f[i - 1] \div Group]
  <2>1. ASSUME NEW i \in 0..MostBytes PROVE f[i] = h[i]
    <3>1. i # 0 => i \in 1..MostBytes
      BY Widths
    <3> QED
      BY <1>2, <1>3, <3>1
  <2>2. f = [i \in 0..MostBytes |-> f[i]]
    BY <1>2
  <2> HIDE DEF h
  <2>3. f = h
    <3>1. h = [i \in 0..MostBytes |-> h[i]]
      BY DEF h
    <3> QED
      BY <2>1, <2>2, <3>1
  <2> QED
    BY <2>3 DEF h
<1> DEFINE left == CHOOSE g : Loop(g)
<1>5. Loop(left)
  BY <1>4
<1>6. Left(x) = left
  BY DEF Left
<1> HIDE DEF left
<1>7. left[0] = x /\ \A i \in 1..MostBytes : left[i] = left[i - 1] \div Group
  BY <1>5, Widths
<1> DEFINE T == {m \in Nat : m \in 0..MostBytes => left[m] \in Nat}
<1>8. 0 \in T
  BY <1>7
<1>9. ASSUME NEW m \in T PROVE m + 1 \in T
  <2>1. SUFFICES ASSUME m + 1 \in 0..MostBytes PROVE left[m + 1] \in Nat
    OBVIOUS
  <2>2. m \in 0..MostBytes /\ m + 1 \in 1..MostBytes /\ (m + 1) - 1 = m
    BY <2>1, Widths
  <2>3. left[m + 1] = left[m] \div Group /\ left[m] \in Nat
    BY <1>7, <2>2
  <2> QED
    BY <2>3, InGroups
<1>10. T = Nat
  <2> HIDE DEF T
  <2>1. T \in SUBSET Nat
    BY DEF T
  <2> QED
    BY <1>8, <1>9, <2>1, SetInduction
<1>11. left \in [0..MostBytes -> Nat]
  <2>1. \A m \in 0..MostBytes : left[m] \in Nat
    BY <1>10, Widths
  <2>2. left = [m \in 0..MostBytes |-> left[m]]
    BY <1>5
  <2> HIDE DEF Loop
  <2> QED
    BY <2>1, <2>2
<1> QED
  BY <1>6, <1>7, <1>11

\* What decodeVarint32 has added up after each byte.
SumsUp(sum, s, n) ==
  /\ sum \in [0..n -> Nat] /\ sum[0] = 0
  /\ \A i \in 1..n : sum[i] = sum[i - 1] + (s[i] % Group) * Scale[i - 1]

\* Sum is the last of such a run.
LEMMA SumSteps ==
  ASSUME NEW s, NEW n \in 0..MostBytes, \A i \in 1..n : s[i] \in Nat
  PROVE  \E sum : SumsUp(sum, s, n) /\ Sum(s, n) = sum[n]
<1> DEFINE step == [i \in 1..n |-> [y \in Nat |-> y + (s[i] % Group) * Scale[i - 1]]]
           Loop(f) == f = [i \in 0..n |-> IF i = 0 THEN 0
                                          ELSE f[i - 1] + (s[i] % Group) * Scale[i - 1]]
<1>0. n \in Nat /\ n <= MostBytes
  BY Widths
<1>1. Turns(step, n, Nat)
  <2>1. ASSUME NEW i \in 1..n, NEW y \in Nat
        PROVE  y + (s[i] % Group) * Scale[i - 1] \in Nat
    <3>1. s[i] % Group \in Nat
      <4>1. s[i] \in Nat /\ Group \in Nat
        BY Widths
      <4>2. s[i] % Group \in 0..(Group - 1)
        BY <4>1, InGroups
      <4> QED
        BY <4>1, <4>2
    <3>2. i - 1 \in 0..MostBytes
      BY <1>0, Widths
    <3>3. Scale[i - 1] \in Nat
      BY <3>2, ScaleSteps
    <3> QED
      BY <3>1, <3>3
  <2> QED
    BY <2>1 DEF Turns
<1>2. PICK f : /\ f \in [0..n -> Nat] /\ f[0] = 0
               /\ \A i \in 1..n : f[i] = step[i][f[i - 1]]
  <2> HIDE DEF step
  <2>1. \E f : IsRun(f, n, Nat, 0, step)
    BY <1>0, <1>1, Iterated
  <2> QED
    BY <2>1 DEF IsRun
<1>3. ASSUME NEW i \in 1..n PROVE f[i] = f[i - 1] + (s[i] % Group) * Scale[i - 1]
  <2>1. i - 1 \in 0..n
    BY <1>0
  <2>2. f[i - 1] \in Nat
    BY <1>2, <2>1
  <2> QED
    BY <1>2, <2>2
<1>4. Loop(f)
  <2> DEFINE h == [i \in 0..n |-> IF i = 0 THEN 0 ELSE f[i - 1] + (s[i] % Group) * Scale[i - 1]]
  <2>1. ASSUME NEW i \in 0..n PROVE f[i] = h[i]
    <3>1. i # 0 => i \in 1..n
      BY <1>0
    <3> QED
      BY <1>2, <1>3, <3>1
  <2>2. f = [i \in 0..n |-> f[i]]
    BY <1>2
  <2> HIDE DEF h
  <2>3. f = h
    <3>1. h = [i \in 0..n |-> h[i]]
      BY DEF h
    <3> QED
      BY <2>1, <2>2, <3>1
  <2> QED
    BY <2>3 DEF h
<1> DEFINE sum == CHOOSE g : Loop(g)
<1>5. Loop(sum)
  BY <1>4
<1>6. Sum(s, n) = sum[n]
  BY DEF Sum
<1> HIDE DEF sum
<1>7. /\ sum[0] = 0
      /\ \A i \in 1..n : sum[i] = sum[i - 1] + (s[i] % Group) * Scale[i - 1]
  BY <1>0, <1>5
<1> DEFINE T == {m \in Nat : m \in 0..n => sum[m] \in Nat}
<1>8. 0 \in T
  BY <1>7
<1>9. ASSUME NEW m \in T PROVE m + 1 \in T
  <2>1. SUFFICES ASSUME m + 1 \in 0..n PROVE sum[m + 1] \in Nat
    OBVIOUS
  <2>2. m \in 0..n /\ m + 1 \in 1..n /\ (m + 1) - 1 = m
    BY <1>0, <2>1
  <2> DEFINE i == m + 1
  <2>3. sum[i] = sum[m] + (s[i] % Group) * Scale[m] /\ sum[m] \in Nat
    BY <1>7, <2>2
  <2>4. step[i][sum[m]] \in Nat /\ step[i][sum[m]] = sum[m] + (s[i] % Group) * Scale[m]
    BY <1>1, <2>2, <2>3 DEF Turns
  <2> QED
    BY <2>3, <2>4
<1>10. T = Nat
  <2> HIDE DEF T
  <2>1. T \in SUBSET Nat
    BY DEF T
  <2> QED
    BY <1>8, <1>9, <2>1, SetInduction
<1>11. sum \in [0..n -> Nat]
  <2>1. \A m \in 0..n : sum[m] \in Nat
    BY <1>0, <1>10
  <2>2. sum = [m \in 0..n |-> sum[m]]
    BY <1>5
  <2> HIDE DEF Loop
  <2> QED
    BY <2>1, <2>2
<1>12. SumsUp(sum, s, n)
  BY <1>7, <1>11 DEF SumsUp
<1> QED
  BY <1>6, <1>12

\* Each turn drops bits: what is left counts for no more than the number.
LEMMA LeftCounts ==
  ASSUME NEW x \in Nat, NEW i \in 0..MostBytes
  PROVE  Left(x)[i] * Scale[i] <= x
<1> DEFINE T == {m \in Nat : m \in 0..MostBytes => Left(x)[m] * Scale[m] <= x}
<1>1. 0 \in T
  BY LeftSteps, ScaleSteps
<1>2. ASSUME NEW m \in T PROVE m + 1 \in T
  <2>1. SUFFICES ASSUME m + 1 \in 0..MostBytes
                 PROVE  Left(x)[m + 1] * Scale[m + 1] <= x
    OBVIOUS
  <2>2. m \in 0..MostBytes /\ m + 1 \in 1..MostBytes /\ (m + 1) - 1 = m
    BY <2>1, Widths
  <2>3. Left(x)[m + 1] = Left(x)[m] \div Group /\ Left(x)[m] \in Nat
    <3> DEFINE j == m + 1
    <3>1. j \in 1..MostBytes /\ j - 1 = m
      BY <2>2
    <3> HIDE DEF j
    <3>2. Left(x)[j] = Left(x)[j - 1] \div Group /\ Left(x)[m] \in Nat
      BY <2>2, <3>1, LeftSteps
    <3> QED
      BY <3>1, <3>2 DEF j
  <2>4. Scale[m + 1] = Group * Scale[m] /\ Scale[m] \in Nat
    BY <2>2, ScaleSteps
  <2> DEFINE a == Left(x)[m]
             q == a \div Group
             c == Scale[m]
  <2>5. /\ q \in Nat /\ a \in Nat /\ c \in Nat /\ Group \in Nat
        /\ Group * q <= a
    <3>1. q \in Nat /\ a % Group \in 0..(Group - 1) /\ a = Group * q + (a % Group)
      BY <2>3, InGroups
    <3> HIDE DEF q, a
    <3>2. Group \in Nat
      BY Widths
    <3> QED
      BY <2>3, <2>4, <3>1, <3>2 DEF a
  <2>6. a * c <= x
    BY <2>2
  <2>7. Left(x)[m + 1] * Scale[m + 1] = q * (Group * c)
    BY <2>3, <2>4
  <2> HIDE DEF a, q, c
  <2>8. q * (Group * c) = (Group * q) * c
    BY <2>5
  <2>9. (Group * q) * c <= a * c
    <3> DEFINE b == Group * q
    <3>1. b \in Nat /\ b <= a
      BY <2>5
    <3> HIDE DEF b
    <3>2. b * c <= a * c
      BY <2>5, <3>1
    <3> QED
      BY <3>2 DEF b
  <2>10. (Group * q) * c \in Nat /\ a * c \in Nat
    BY <2>5
  <2> QED
    BY <2>6, <2>7, <2>8, <2>9, <2>10
<1>3. T = Nat
  <2> HIDE DEF T
  <2>1. T \in SUBSET Nat
    BY DEF T
  <2> QED
    BY <1>1, <1>2, <2>1, SetInduction
<1> QED
  BY <1>3, Widths

\* What is left fits a byte by the byte below which the number counts.
LEMMA LeftFits ==
  ASSUME NEW x \in Nat, NEW n \in 1..MostBytes, x < Scale[n]
  PROVE  Left(x)[n - 1] \in Nat /\ Left(x)[n - 1] < Group
<1>1. n - 1 \in 0..MostBytes
  BY Widths
<1>2. Left(x)[n - 1] \in Nat
  BY <1>1, LeftSteps
<1>3. Left(x)[n - 1] * Scale[n - 1] <= x
  BY <1>1, LeftCounts
<1>4. Scale[n] = Group * Scale[n - 1] /\ Scale[n - 1] \in Nat /\ Scale[n - 1] >= 1
  BY <1>1, ScaleSteps
<1> DEFINE l == Left(x)[n - 1]
           c == Scale[n - 1]
<1>5. l \in Nat /\ c \in Nat /\ c >= 1 /\ l * c <= x /\ x < Group * c /\ Group \in Nat
  BY <1>2, <1>3, <1>4, Widths
<1> HIDE DEF l, c
<1>6. l < Group
  <2>1. SUFFICES ASSUME l >= Group PROVE FALSE
    BY <1>5
  <2>2. l * c >= Group * c
    BY <1>5, <2>1
  <2>3. l * c \in Nat /\ Group * c \in Nat
    BY <1>5
  <2> QED
    BY <1>5, <2>2, <2>3
<1> QED
  BY <1>5, <1>6 DEF l

\* The bytes of encodeVarint32: all but the last say that more follow.
EncodedIn(x, last) ==
  /\ last \in 0..(MostBytes - 1)
  /\ EncodeVarint32(x) =
       [i \in 1..(last + 1) |->
          IF i <= last THEN (Left(x)[i - 1] % Group) + Group ELSE Left(x)[last]]
  /\ Left(x)[last] < Group
  /\ \A i \in 0..(last - 1) : ~(Left(x)[i] < Group)

\* A number below what n bytes count has bytes, no more than n of them.
LEMMA BytesOf ==
  ASSUME NEW x \in Nat, NEW n \in 1..MostBytes, x < Scale[n]
  PROVE  \E last \in 0..(n - 1) : EncodedIn(x, last)
<1> DEFINE left == Left(x)
           T == {i \in 0..MostBytes : Fits(left[i])}
<1>1. n - 1 \in T
  <2>1. n - 1 \in 0..MostBytes
    BY Widths
  <2>2. Left(x)[n - 1] < Group
    BY LeftFits
  <2> QED
    BY <2>1, <2>2 DEF Fits
<1>2. PICK last \in T : \A m \in T : last <= m
  <2>1. T \in SUBSET Nat
    BY Widths
  <2> HIDE DEF T
  <2> QED
    BY <1>1, <2>1, Least
<1>3. last \in 0..(n - 1) /\ last \in 0..(MostBytes - 1)
  BY <1>1, <1>2, Widths
<1>4. Min(T) = last
  <2>1. T \in SUBSET Int
    BY Widths
  <2> HIDE DEF T
  <2> QED
    BY <1>2, <2>1, MinIs
<1>5. left[last] < Group
  BY <1>2 DEF Fits
<1>6. \A i \in 0..(last - 1) : ~(left[i] < Group)
  <2>1. SUFFICES ASSUME NEW i \in 0..(last - 1), left[i] < Group PROVE FALSE
    OBVIOUS
  <2>2. i \in 0..MostBytes /\ i < last
    BY <1>3, <2>1, Widths
  <2>3. i \in T
    BY <2>1, <2>2 DEF Fits
  <2> HIDE DEF T
  <2> QED
    BY <1>2, <1>3, <2>2, <2>3
<1>7. EncodeVarint32(x) =
        [i \in 1..(last + 1) |-> IF i <= last THEN (left[i - 1] % Group) + Group ELSE left[last]]
  BY <1>4 DEF EncodeVarint32
<1> QED
  BY <1>3, <1>5, <1>6, <1>7 DEF EncodedIn

\* The bytes of a number, each with the bits it carries.
LEMMA EncodedBytes ==
  ASSUME NEW x \in Nat, NEW last, EncodedIn(x, last)
  PROVE  LET e == EncodeVarint32(x)
         IN  /\ e \in Seq(Nat) /\ Len(e) = last + 1
             /\ e[last + 1] < Group
             /\ \A i \in 1..last : ~(e[i] < Group)
             /\ \A i \in 1..(last + 1) : /\ e[i] \in Nat
                                         /\ e[i] % Group = Left(x)[i - 1] % Group
<1> DEFINE e == EncodeVarint32(x)
<1>1. last \in 0..(MostBytes - 1) /\ last \in Nat
  BY Widths DEF EncodedIn
<1>2. ASSUME NEW i \in 1..last
      PROVE  e[i] \in Nat /\ e[i] % Group = Left(x)[i - 1] % Group /\ ~(e[i] < Group)
  <2>1. i - 1 \in 0..MostBytes /\ i \in 1..(last + 1) /\ i <= last
    BY <1>1, Widths
  <2>2. e[i] = (Left(x)[i - 1] % Group) + Group
    BY <2>1 DEF EncodedIn
  <2> DEFINE d == Left(x)[i - 1] % Group
  <2>3. d \in 0..(Group - 1)
    <3>1. Left(x)[i - 1] \in Nat
      BY <2>1, LeftSteps
    <3> QED
      BY <3>1, InGroups
  <2> HIDE DEF d
  <2>4. Group \in Nat \ {0}
    BY Widths
  <2>5. (d + Group) % Group = d
    BY <2>3, <2>4, ModOfSum
  <2>6. d + Group \in Nat /\ ~(d + Group < Group)
    BY <2>3, <2>4
  <2> QED
    BY <2>2, <2>5, <2>6 DEF d
<1>3. e[last + 1] = Left(x)[last] /\ Left(x)[last] \in Nat /\ Left(x)[last] < Group
  <2>1. last + 1 \in 1..(last + 1) /\ ~(last + 1 <= last) /\ last \in 0..MostBytes
    BY <1>1, Widths
  <2>2. Left(x)[last] \in Nat
    BY <2>1, LeftSteps
  <2> QED
    BY <2>1, <2>2 DEF EncodedIn
<1>4. ASSUME NEW i \in 1..(last + 1)
      PROVE  e[i] \in Nat /\ e[i] % Group = Left(x)[i - 1] % Group
  <2>1. i \in 1..last \/ i = last + 1
    BY <1>1
  <2>2. CASE i = last + 1
    <3>1. i - 1 = last
      BY <1>1, <2>2
    <3> QED
      BY <1>3, <2>2, <3>1
  <2> QED
    BY <1>2, <2>1, <2>2
<1>5. e \in [1..(last + 1) -> Nat]
  <2>1. e = [i \in 1..(last + 1) |-> e[i]]
    BY DEF EncodedIn
  <2> HIDE DEF e
  <2> QED
    BY <1>4, <2>1
<1>6. e \in Seq(Nat) /\ Len(e) = last + 1
  <2>1. last + 1 \in Nat
    BY <1>1
  <2> HIDE DEF e
  <2>2. e \in Seq(Nat)
    BY <1>5, <2>1, SeqDef
  <2>3. DOMAIN e = 1..(last + 1)
    BY <1>5
  <2> QED
    BY <2>1, <2>2, <2>3, LenProperties
<1> QED
  BY <1>2, <1>3, <1>4, <1>6

\* Bytes that carry a number's bits add up to the number.
LEMMA SumOfBytes ==
  ASSUME NEW x \in Nat, NEW n \in 1..MostBytes, Left(x)[n - 1] < Group,
         NEW s, \A i \in 1..n : s[i] \in Nat /\ s[i] % Group = Left(x)[i - 1] % Group
  PROVE  Sum(s, n) = x
<1>1. n \in 0..MostBytes /\ n \in Nat /\ \A i \in 1..n : s[i] \in Nat
  BY Widths
<1>2. PICK sum : SumsUp(sum, s, n) /\ Sum(s, n) = sum[n]
  BY <1>1, SumSteps
<1> DEFINE left == Left(x)
           T == {m \in Nat : m \in 0..n => sum[m] + Scale[m] * left[m] = x}
<1>3. 0 \in T
  <2>1. sum[0] = 0 /\ Scale[0] = 1 /\ left[0] = x
    BY <1>2, LeftSteps, ScaleSteps DEF SumsUp
  <2> QED
    BY <2>1
<1>4. ASSUME NEW m \in T PROVE m + 1 \in T
  <2>1. SUFFICES ASSUME m + 1 \in 0..n
                 PROVE  sum[m + 1] + Scale[m + 1] * left[m + 1] = x
    OBVIOUS
  <2>2. /\ m \in 0..n /\ m \in 0..MostBytes /\ m + 1 \in 1..n /\ m + 1 \in 1..MostBytes
        /\ (m + 1) - 1 = m
    BY <2>1, Widths
  <2>3. left[m + 1] = left[m] \div Group /\ left[m] \in Nat
    <3> DEFINE j == m + 1
    <3>1. j \in 1..MostBytes /\ j - 1 = m
      BY <2>2
    <3> HIDE DEF j
    <3>2. Left(x)[j] = Left(x)[j - 1] \div Group /\ Left(x)[m] \in Nat
      BY <2>2, <3>1, LeftSteps
    <3> QED
      BY <3>1, <3>2 DEF j
  <2>4. Scale[m + 1] = Group * Scale[m] /\ Scale[m] \in Nat
    BY <2>2, ScaleSteps
  <2>5. sum[m + 1] = sum[m] + (left[m] % Group) * Scale[m] /\ sum[m] \in Nat
    <3> DEFINE j == m + 1
    <3>1. j \in 1..n /\ j - 1 = m
      BY <2>2
    <3>2. sum[j] = sum[j - 1] + (s[j] % Group) * Scale[j - 1]
      BY <1>2, <3>1 DEF SumsUp
    <3>3. s[j] % Group = left[j - 1] % Group
      BY <3>1
    <3>4. sum[m] \in Nat
      BY <1>2, <2>2 DEF SumsUp
    <3> QED
      BY <3>1, <3>2, <3>3, <3>4
  <2> DEFINE a == left[m]
             q == a \div Group
             d == a % Group
             c == Scale[m]
             v == sum[m]
  <2>6. q \in Nat /\ d \in Nat /\ a = Group * q + d
    <3>1. q \in Nat /\ d \in 0..(Group - 1) /\ a = Group * q + d
      BY <2>3, InGroups
    <3>2. Group \in Nat
      BY Widths
    <3> HIDE DEF q, d
    <3> QED
      BY <3>1, <3>2
  <2>7. v + c * a = x
    BY <2>2
  <2>8. sum[m + 1] + Scale[m + 1] * left[m + 1] = (v + d * c) + (Group * c) * q
    BY <2>3, <2>4, <2>5
  <2>9. v \in Nat /\ c \in Nat /\ Group \in Nat
    BY <2>4, <2>5, Widths
  <2> HIDE DEF a, q, d, c, v
  <2>10. (v + d * c) + (Group * c) * q = v + c * (Group * q + d)
    BY <2>6, <2>9
  <2> QED
    BY <2>6, <2>7, <2>8, <2>10
<1>5. T = Nat
  <2> HIDE DEF T
  <2>1. T \in SUBSET Nat
    BY DEF T
  <2> QED
    BY <1>3, <1>4, <2>1, SetInduction
<1>6. sum[n] + Scale[n] * left[n] = x
  BY <1>1, <1>5
<1>7. left[n] = 0
  <2>1. left[n] = left[n - 1] \div Group
    BY LeftSteps
  <2>2. n - 1 \in 0..MostBytes
    BY Widths
  <2>3. left[n - 1] \in Nat
    BY <2>2, LeftSteps
  <2> QED
    BY <2>1, <2>3, InGroups
<1>8. sum[n] \in Nat /\ Scale[n] \in Nat
  <2>1. n \in 0..n
    BY <1>1
  <2> QED
    BY <1>1, <1>2, <2>1, ScaleSteps DEF SumsUp
<1> QED
  BY <1>2, <1>6, <1>7, <1>8

\* What decodeVarint32 reads of bytes with an end among the first MostBytes.
LEMMA DecodeToEnd ==
  ASSUME NEW S, NEW s \in Seq(S), NEW n \in 1..MostBytes, n <= Len(s),
         s[n] < Group, \A i \in 1..(n - 1) : ~(s[i] < Group)
  PROVE  DecodeVarint32(s) =
           [err |-> "none", rest |-> From(s, n + 1), value |-> Sum(s, n) % Word]
<1> DEFINE ends == {i \in DOMAIN s : s[i] < Group}
<1>1. DOMAIN s = 1..Len(s) /\ Len(s) \in Nat /\ n \in Nat
  BY LenProperties, Widths
<1>2. n \in ends
  <2>1. n \in 1..Len(s)
    <3> DEFINE l == Len(s)
    <3>1. l \in Nat /\ n <= l /\ n \in Nat /\ n >= 1
      BY <1>1, Widths
    <3> HIDE DEF l
    <3>2. n \in 1..l
      BY <3>1
    <3> QED
      BY <3>2 DEF l
  <2> QED
    BY <1>1, <2>1
<1>3. \A i \in ends : n <= i
  <2>1. SUFFICES ASSUME NEW i \in ends PROVE n <= i
    OBVIOUS
  <2>2. i \in 1..Len(s) /\ s[i] < Group
    BY <1>1
  <2>3. i \in Nat /\ i >= 1
    BY <1>1, <2>2
  <2>4. ~(i \in 1..(n - 1))
    BY <2>2
  <2> QED
    BY <1>1, <2>3, <2>4
<1>4. Min(ends) = n
  <2>1. ends \in SUBSET Int
    BY <1>1
  <2> HIDE DEF ends
  <2> QED
    BY <1>2, <1>3, <2>1, MinIs
<1>5. ends # {} /\ n <= MostBytes
  BY <1>2, Widths
<1> QED
  BY <1>4, <1>5 DEF DecodeVarint32

\* What it says of bytes that stop before an end.
LEMMA DecodeCut ==
  ASSUME NEW S, NEW s \in Seq(S), Len(s) <= MostBytes, \A i \in 1..Len(s) : ~(s[i] < Group)
  PROVE  DecodeVarint32(s) = Fails("eof")
<1> DEFINE ends == {i \in DOMAIN s : s[i] < Group}
<1>1. ends = {}
  <2>1. DOMAIN s = 1..Len(s)
    BY LenProperties
  <2> QED
    BY <2>1
<1>2. ~(Len(s) > MostBytes)
  <2> DEFINE l == Len(s)
  <2>1. l \in Nat /\ MostBytes \in Nat /\ l <= MostBytes
    BY LenProperties, Widths
  <2> HIDE DEF l
  <2>2. ~(l > MostBytes)
    BY <2>1
  <2> QED
    BY <2>2 DEF l
<1> QED
  BY <1>1, <1>2 DEF DecodeVarint32

\* A piece of a sequence.
LEMMA Piece ==
  ASSUME NEW S, NEW s \in Seq(S), NEW m \in 1..(Len(s) + 1), NEW n \in (m - 1)..Len(s)
  PROVE  /\ SubSeq(s, m, n) \in Seq(S) /\ Len(SubSeq(s, m, n)) = n - m + 1
         /\ \A i \in 1..(n - m + 1) : SubSeq(s, m, n)[i] = s[m + i - 1]
<1> DEFINE l == Len(s)
           f == SubSeq(s, m, n)
<1>1. l \in Nat /\ \A i \in 1..l : s[i] \in S
  BY LenProperties, ElementOfSeq
<1>2. m \in 1..(l + 1) /\ n \in (m - 1)..l
  OBVIOUS
<1> HIDE DEF l
<1>3. m \in Int /\ n \in Int /\ \A i \in m..n : i \in 1..l
  BY <1>1, <1>2
<1>4. \A i \in m..n : s[i] \in S
  BY <1>1, <1>3
<1>5. /\ f \in Seq(S) /\ Len(f) = IF m <= n THEN n - m + 1 ELSE 0
      /\ \A i \in 1..(n - m + 1) : f[i] = s[m + i - 1]
  BY <1>3, <1>4, SubSeqProperties
<1> HIDE DEF f
<1>6. Len(f) = n - m + 1
  BY <1>1, <1>2, <1>5
<1> QED
  BY <1>5, <1>6 DEF f

\* A piece from the start.
LEMMA Start ==
  ASSUME NEW S, NEW s \in Seq(S), NEW n \in 0..Len(s)
  PROVE  /\ SubSeq(s, 1, n) \in Seq(S) /\ Len(SubSeq(s, 1, n)) = n
         /\ \A i \in 1..n : SubSeq(s, 1, n)[i] = s[i]
<1> DEFINE l == Len(s)
           f == SubSeq(s, 1, n)
<1>1. l \in Nat /\ n \in 0..l
  BY LenProperties
<1> HIDE DEF l
<1>2. 1 \in 1..(l + 1) /\ n \in (1 - 1)..l /\ n - 1 + 1 = n
  BY <1>1
<1>3. /\ f \in Seq(S) /\ Len(f) = n - 1 + 1
      /\ \A i \in 1..(n - 1 + 1) : f[i] = s[1 + i - 1]
  BY <1>2, Piece DEF l
<1> HIDE DEF f
<1>4. ASSUME NEW i \in 1..n PROVE f[i] = s[i]
  <2>1. i \in 1..(n - 1 + 1) /\ 1 + i - 1 = i
    BY <1>1
  <2> QED
    BY <1>3, <2>1
<1> QED
  BY <1>2, <1>3, <1>4 DEF f

\* A concatenation of two sequences, and where their elements are in it.
Joins(u, s, t, S) ==
  /\ u \in Seq(S) /\ Len(u) = Len(s) + Len(t)
  /\ \A i \in 1..Len(s) : u[i] = s[i]
  /\ \A i \in 1..Len(t) : u[Len(s) + i] = t[i]

\* What \o builds is one.
LEMMA JoinIs ==
  ASSUME NEW S, NEW s \in Seq(S), NEW t \in Seq(S)
  PROVE  Joins(s \o t, s, t, S)
<1> DEFINE u == s \o t
<1>1. /\ u \in Seq(S) /\ Len(u) = Len(s) + Len(t)
      /\ \A k \in 1..Len(s) : u[k] = s[k]
      /\ \A i \in 1..Len(t) : u[Len(s) + i] = t[i]
  BY PartsOfConcat
<1> HIDE DEF u
<1>2. Joins(u, s, t, S)
  BY <1>1 DEF Joins
<1> QED
  BY <1>2 DEF u

\* What follows the first part of a concatenation.
LEMMA AfterFirst ==
  ASSUME NEW S, NEW s \in Seq(S), NEW t \in Seq(S)
  PROVE  From(s \o t, Len(s) + 1) = t
<1> DEFINE u == s \o t
           a == Len(s)
           b == Len(t)
           f == SubSeq(u, a + 1, a + b)
<1>1. a \in Nat /\ b \in Nat
  BY LenProperties
<1>2. u \in Seq(S) /\ Len(u) = a + b /\ \A i \in 1..b : u[a + i] = t[i]
  BY PartsOfConcat
<1> HIDE DEF u, a, b
<1>3. f \in Seq(S) /\ Len(f) = b /\ \A i \in 1..b : f[i] = u[a + i]
  <2> DEFINE m == a + 1
             n == a + b
  <2>1. m \in 1..(Len(u) + 1) /\ n \in (m - 1)..Len(u) /\ n - m + 1 = b
    <3>1. m \in 1..(a + b + 1) /\ n \in (m - 1)..(a + b) /\ n - m + 1 = b
      BY <1>1
    <3> HIDE DEF m, n
    <3> QED
      BY <1>2, <3>1
  <2>2. \A i \in 1..b : m + i - 1 = a + i
    BY <1>1
  <2> HIDE DEF m, n
  <2>3. /\ SubSeq(u, m, n) \in Seq(S) /\ Len(SubSeq(u, m, n)) = n - m + 1
        /\ \A i \in 1..(n - m + 1) : SubSeq(u, m, n)[i] = u[m + i - 1]
    BY <1>2, <2>1, Piece
  <2>4. f = SubSeq(u, m, n)
    BY DEF m, n
  <2> HIDE DEF f
  <2> QED
    BY <2>1, <2>2, <2>3, <2>4
<1> HIDE DEF f
<1>4. t \in Seq(S) /\ Len(t) = b /\ \A i \in 1..b : f[i] = t[i]
  BY <1>2, <1>3 DEF b
<1>5. f = t
  BY <1>3, <1>4, SeqEqual
<1> QED
  BY <1>2, <1>5 DEF From, f, u, a

\* A concatenation cut in its first part.
LEMMA CutInFirst ==
  ASSUME NEW S, NEW s \in Seq(S), NEW t \in Seq(S), NEW n \in 0..Len(s)
  PROVE  SubSeq(s \o t, 1, n) = SubSeq(s, 1, n)
<1> DEFINE u == s \o t
           a == Len(s)
           b == Len(t)
           f == SubSeq(u, 1, n)
           g == SubSeq(s, 1, n)
<1>1. a \in Nat /\ b \in Nat /\ n \in 0..a
  BY LenProperties
<1>2. u \in Seq(S) /\ Len(u) = a + b /\ \A k \in 1..a : u[k] = s[k]
  BY PartsOfConcat
<1>3. g \in Seq(S) /\ Len(g) = n /\ \A i \in 1..n : g[i] = s[i]
  BY Start
<1> HIDE DEF u, a, b, g
<1>4. n \in 0..Len(u)
  BY <1>1, <1>2
<1>5. f \in Seq(S) /\ Len(f) = n /\ \A i \in 1..n : f[i] = u[i]
  BY <1>2, <1>4, Start
<1> HIDE DEF f
<1>6. \A i \in 1..n : i \in 1..a
  BY <1>1
<1>7. \A i \in 1..n : f[i] = g[i]
  BY <1>2, <1>3, <1>5, <1>6
<1>8. f = g
  BY <1>3, <1>5, <1>7, SeqEqual
<1> QED
  BY <1>8 DEF f, g, u

\* A concatenation cut in its second part.
LEMMA CutInSecond ==
  ASSUME NEW S, NEW s \in Seq(S), NEW t \in Seq(S), NEW n \in 0..Len(t)
  PROVE  SubSeq(s \o t, 1, Len(s) + n) = s \o SubSeq(t, 1, n)
<1> DEFINE u == s \o t
           a == Len(s)
           b == Len(t)
           k == a + n
           f == SubSeq(u, 1, k)
           g == SubSeq(t, 1, n)
           h == s \o g
<1>1. a \in Nat /\ b \in Nat /\ n \in 0..b
  BY LenProperties
<1>2. /\ u \in Seq(S) /\ Len(u) = a + b
      /\ \A i \in 1..a : u[i] = s[i]
      /\ \A i \in 1..b : u[a + i] = t[i]
  BY PartsOfConcat
<1>3. g \in Seq(S) /\ Len(g) = n /\ \A i \in 1..n : g[i] = t[i]
  BY Start
<1> HIDE DEF g
<1>4. /\ h \in Seq(S) /\ Len(h) = Len(s) + Len(g)
      /\ \A i \in 1..Len(s) : h[i] = s[i]
      /\ \A i \in 1..Len(g) : h[Len(s) + i] = g[i]
  <2>1. s \in Seq(S) /\ g \in Seq(S)
    BY <1>3
  <2>2. Joins(h, s, g, S)
    BY <2>1, JoinIs
  <2> HIDE DEF h
  <2> QED
    BY <2>2 DEF Joins
<1> HIDE DEF u, a, b, h
<1>5. k \in 0..Len(u)
  BY <1>1, <1>2
<1> HIDE DEF k
<1>6. f \in Seq(S) /\ Len(f) = k /\ \A i \in 1..k : f[i] = u[i]
  BY <1>2, <1>5, Start
<1>7. /\ h \in Seq(S) /\ Len(h) = k
      /\ \A i \in 1..a : h[i] = s[i]
      /\ \A i \in 1..n : h[a + i] = g[i]
  BY <1>3, <1>4 DEF a, k
<1> HIDE DEF f
<1>8. ASSUME NEW i \in 1..k PROVE f[i] = h[i]
  <2>1. CASE i \in 1..a
    BY <1>2, <1>6, <1>7, <2>1
  <2>2. CASE i \notin 1..a
    <3> DEFINE j == i - a
    <3>1. j \in 1..n /\ j \in 1..b /\ a + j = i
      BY <1>1, <2>2 DEF k
    <3> HIDE DEF j
    <3>2. h[a + j] = g[j] /\ g[j] = t[j] /\ u[a + j] = t[j]
      BY <1>2, <1>3, <1>7, <3>1
    <3> QED
      BY <1>6, <3>1, <3>2
  <2> QED
    BY <2>1, <2>2
<1>9. f = h
  BY <1>6, <1>7, <1>8, SeqEqual
<1> QED
  BY <1>9 DEF f, h, g, u, k, a

\* What is encoded is decoded, whatever follows it; cut short, it is not.
LEMMA DecodesBack ==
  ASSUME NEW S, Int \subseteq S, NEW x \in 0..(Word - 1), NEW more \in Seq(S)
  PROVE  LET e == EncodeVarint32(x)
         IN  /\ e \in Seq(S) /\ Len(e) \in 1..MostBytes
             /\ DecodeVarint32(e \o more) = [err |-> "none", rest |-> more, value |-> x]
             /\ \A n \in 0..(Len(e) - 1) : DecodeVarint32(SubSeq(e, 1, n)) = Fails("eof")
<1> DEFINE e == EncodeVarint32(x)
<1>1. x \in Nat /\ x < Word /\ x < Scale[MostBytes] /\ MostBytes \in 1..MostBytes
  <2>1. x \in Nat /\ x < Word /\ MostBytes \in 1..MostBytes
    BY Widths
  <2>2. Scale[MostBytes] \in Nat /\ Word \in Nat /\ Word <= Scale[MostBytes]
    BY <2>1, Widths, ScaleSteps
  <2> QED
    BY <2>1, <2>2
<1>2. PICK last \in 0..(MostBytes - 1) : EncodedIn(x, last)
  BY <1>1, BytesOf
<1> DEFINE l == last + 1
<1>3. /\ e \in Seq(Nat) /\ Len(e) = l /\ e[l] < Group
      /\ \A i \in 1..last : ~(e[i] < Group)
      /\ \A i \in 1..l : e[i] \in Nat /\ e[i] % Group = Left(x)[i - 1] % Group
  BY <1>1, <1>2, EncodedBytes
<1>4. Left(x)[last] < Group
  BY <1>2 DEF EncodedIn
<1> HIDE DEF e
<1>5. l \in 1..MostBytes /\ l - 1 = last /\ l \in Nat /\ last \in Nat /\ l >= 1
  BY Widths
<1>6. e \in Seq(S)
  <2>1. Nat \subseteq S
    OBVIOUS
  <2> QED
    BY <1>3, <2>1, SeqMonotonic
<1>7. DecodeVarint32(e \o more) = [err |-> "none", rest |-> more, value |-> x]
  <2> DEFINE s == e \o more
  <2>1. /\ s \in Seq(S) /\ Len(s) = Len(e) + Len(more)
        /\ \A i \in 1..Len(e) : s[i] = e[i]
    BY <1>6, PartsOfConcat
  <2>2. From(s, Len(e) + 1) = more
    BY <1>6, AfterFirst
  <2> HIDE DEF s, l
  <2>3. \A i \in 1..l : s[i] = e[i]
    BY <1>3, <2>1
  <2>4. l <= Len(s)
    <3> DEFINE k == Len(more)
    <3>1. k \in Nat
      BY LenProperties
    <3> HIDE DEF k
    <3>2. l <= l + k
      BY <1>5, <3>1
    <3> QED
      BY <1>3, <2>1, <3>2 DEF k
  <2>5. s[l] < Group
    BY <1>3, <1>5, <2>3
  <2>6. ASSUME NEW i \in 1..(l - 1) PROVE ~(s[i] < Group)
    <3>1. i \in 1..last /\ i \in 1..l
      BY <1>5
    <3>2. s[i] = e[i]
      BY <2>3, <3>1
    <3>3. ~(e[i] < Group)
      BY <1>3, <3>1
    <3> QED
      BY <3>2, <3>3
  <2>7. DecodeVarint32(s) =
          [err |-> "none", rest |-> From(s, l + 1), value |-> Sum(s, l) % Word]
    BY <1>5, <2>1, <2>4, <2>5, <2>6, DecodeToEnd
  <2>8. Sum(s, l) = x
    <3>1. \A i \in 1..l : s[i] \in Nat /\ s[i] % Group = Left(x)[i - 1] % Group
      BY <1>3, <2>3
    <3>2. Left(x)[l - 1] < Group
      BY <1>4, <1>5
    <3> QED
      BY <1>1, <1>5, <3>1, <3>2, SumOfBytes
  <2>9. x % Word = x
    <3>1. Word \in Nat \ {0}
      BY Widths
    <3> QED
      BY <1>1, <3>1, DivMod
  <2> QED
    BY <1>3, <2>7, <2>8, <2>9, <2>2 DEF s
<1>8. ASSUME NEW n \in 0..last PROVE DecodeVarint32(SubSeq(e, 1, n)) = Fails("eof")
  <2> DEFINE f == SubSeq(e, 1, n)
  <2>1. n \in 0..Len(e) /\ n <= MostBytes /\ \A i \in 1..n : i \in 1..last
    BY <1>3, <1>5, Widths
  <2>2. f \in Seq(Nat) /\ Len(f) = n /\ \A i \in 1..n : f[i] = e[i]
    BY <1>3, <2>1, Start
  <2> HIDE DEF f
  <2>3. Len(f) <= MostBytes /\ \A i \in 1..Len(f) : ~(f[i] < Group)
    BY <1>3, <2>1, <2>2
  <2>4. DecodeVarint32(f) = Fails("eof")
    BY <2>2, <2>3, DecodeCut
  <2> QED
    BY <2>4 DEF f
<1>9. Len(e) - 1 = last /\ Len(e) \in 1..MostBytes
  BY <1>3, <1>5
<1> QED
  BY <1>6, <1>7, <1>8, <1>9 DEF e

\* What readMsg makes of the bytes after a sound header.
Body(tag, tail) ==
  LET size    == DecodeVarint32(tail)
      payload == SubSeq(size.rest, 1, size.value)
      err     == IF size.err # "none" THEN size.err
                 ELSE IF size.value > MaxMCSMessageSize THEN "limit"
                 ELSE IF Len(size.rest) < size.value THEN "eof"
                 ELSE IF tag \notin Tags THEN "tag"
                 ELSE IF ~Parses(tag, payload) THEN "unmarshal" ELSE "none"
  IN  IF err # "none" THEN Fails(err)
      ELSE [err |-> err, value |-> [tag |-> tag, payload |-> payload],
            rest |-> From(size.rest, size.value + 1)]

\* The header sendMsg writes.
Header(isFirst, tag) == IF isFirst THEN <<MCSVersion, tag>> ELSE <<tag>>

\* Its bytes: the version of this client when it is the first, and the tag.
LEMMA HeaderBytes ==
  ASSUME NEW S, NEW isFirst \in BOOLEAN, NEW tag \in S, Int \subseteq S
  PROVE  LET h == Header(isFirst, tag)
         IN  /\ h \in Seq(S) /\ Len(h) = (IF isFirst THEN 2 ELSE 1) /\ h[Len(h)] = tag
             /\ isFirst => h[1] = MCSVersion
<1>1. MCSVersion \in S
  BY FramesAssumption DEF FramesAssumption
<1>2. CASE isFirst
  <2>1. Header(isFirst, tag) = <<MCSVersion, tag>>
    BY <1>2 DEF Header
  <2>2. <<MCSVersion, tag>> \in Seq(S) /\ Len(<<MCSVersion, tag>>) = 2
    BY <1>1
  <2>3. <<MCSVersion, tag>>[1] = MCSVersion /\ <<MCSVersion, tag>>[2] = tag
    OBVIOUS
  <2> QED
    BY <1>2, <2>1, <2>2, <2>3
<1>3. CASE ~isFirst
  <2>1. Header(isFirst, tag) = <<tag>>
    BY <1>3 DEF Header
  <2>2. <<tag>> \in Seq(S) /\ Len(<<tag>>) = 1 /\ <<tag>>[1] = tag
    OBVIOUS
  <2> QED
    BY <1>3, <2>1, <2>2
<1> QED
  BY <1>2, <1>3

\* Of a connection that starts with a sound header, readMsg reads the body.
LEMMA ReadAfterHeader ==
  ASSUME NEW S, NEW isFirst \in BOOLEAN, NEW tag \in S, Int \subseteq S, NEW tail \in Seq(S)
  PROVE  ReadMsg(isFirst, Header(isFirst, tag) \o tail) = Body(tag, tail)
<1> DEFINE h == Header(isFirst, tag)
           s == h \o tail
           header == IF isFirst THEN 2 ELSE 1
<1>1. /\ h \in Seq(S) /\ Len(h) = header /\ h[header] = tag
      /\ isFirst => h[1] = MCSVersion
  BY HeaderBytes
<1> HIDE DEF h
<1>2. /\ s \in Seq(S) /\ Len(s) = Len(h) + Len(tail)
      /\ \A i \in 1..Len(h) : s[i] = h[i]
  BY <1>1, PartsOfConcat
<1>3. From(s, Len(h) + 1) = tail
  BY <1>1, AfterFirst
<1> HIDE DEF s
<1>4. From(s, header + 1) = tail
  BY <1>1, <1>3
<1>5. ~(Len(s) < header)
  <2> DEFINE a == Len(h)
             b == Len(tail)
  <2>1. a \in Nat /\ b \in Nat
    BY <1>1, LenProperties
  <2>2. Len(s) = a + b /\ a = header
    BY <1>1, <1>2
  <2> HIDE DEF a, b, header
  <2>3. ~(a + b < a)
    BY <2>1
  <2> QED
    BY <2>2, <2>3
<1>6. s[header] = tag
  <2>1. header \in 1..header
    OBVIOUS
  <2> HIDE DEF header
  <2> QED
    BY <1>1, <1>2, <2>1
<1>7. ~(isFirst /\ s[1] < MCSVersion /\ s[1] # LegacyVersion)
  <2>1. SUFFICES ASSUME isFirst PROVE ~(s[1] < MCSVersion)
    OBVIOUS
  <2>2. 1 \in 1..Len(h)
    BY <1>1, <2>1
  <2>3. s[1] = MCSVersion
    BY <1>1, <1>2, <2>1, <2>2
  <2>4. MCSVersion \in Int
    BY FramesAssumption DEF FramesAssumption
  <2>5. ~(MCSVersion < MCSVersion)
    BY <2>4
  <2> QED
    BY <2>3, <2>5
<1> HIDE DEF header
<1>8. ReadMsg(isFirst, s) = Body(tag, tail)
  BY <1>4, <1>5, <1>6, <1>7 DEF ReadMsg, Body, header
<1> QED
  BY <1>8 DEF s, h

\* A message cut in its header.
LEMMA CutInHeader ==
  ASSUME NEW isFirst \in BOOLEAN, NEW s, Len(s) < (IF isFirst THEN 2 ELSE 1)
  PROVE  ReadMsg(isFirst, s).err = "eof"
<1>1. ReadMsg(isFirst, s) = Fails("eof")
  BY DEF ReadMsg
<1> QED
  BY <1>1 DEF Fails

\* A body whose size is whole, followed by a payload or a part of one.
LEMMA SizedBody ==
  ASSUME NEW S, Int \subseteq S, NEW x \in 0..(Word - 1), NEW q \in Seq(S), NEW tag
  PROVE  LET body == Body(tag, EncodeVarint32(x) \o q)
             p    == SubSeq(q, 1, x)
         IN  /\ x > MaxMCSMessageSize => body.err = "limit"
             /\ ~(x > MaxMCSMessageSize) /\ Len(q) < x => body.err = "eof"
             /\ ~(x > MaxMCSMessageSize) /\ ~(Len(q) < x) /\ tag \in Tags /\ Parses(tag, p) =>
                  body = [err |-> "none", value |-> [tag |-> tag, payload |-> p],
                          rest |-> From(q, x + 1)]
<1> DEFINE s == EncodeVarint32(x) \o q
           size == DecodeVarint32(s)
           p == SubSeq(q, 1, x)
<1>1. size = [err |-> "none", rest |-> q, value |-> x]
  BY DecodesBack
<1> HIDE DEF size
<1>2. size.err = "none" /\ size.rest = q /\ size.value = x
  BY <1>1
<1>3. ASSUME x > MaxMCSMessageSize PROVE Body(tag, s).err = "limit"
  <2>1. Body(tag, s) = Fails("limit")
    BY <1>2, <1>3 DEF Body, size
  <2> QED
    BY <2>1 DEF Fails
<1>4. ASSUME ~(x > MaxMCSMessageSize), Len(q) < x PROVE Body(tag, s).err = "eof"
  <2>1. Body(tag, s) = Fails("eof")
    BY <1>2, <1>4 DEF Body, size
  <2> QED
    BY <2>1 DEF Fails
<1>5. ASSUME ~(x > MaxMCSMessageSize), ~(Len(q) < x), tag \in Tags, Parses(tag, p)
      PROVE  Body(tag, s) = [err |-> "none", value |-> [tag |-> tag, payload |-> p],
                             rest |-> From(q, x + 1)]
  BY <1>2, <1>5 DEF Body, size
<1> DEFINE body == Body(tag, s)
<1>6. ~(x > MaxMCSMessageSize) /\ ~(Len(q) < x) /\ tag \in Tags /\ Parses(tag, p) =>
        body = [err |-> "none", value |-> [tag |-> tag, payload |-> p],
                rest |-> From(q, x + 1)]
  <2> HIDE DEF p, s
  <2> QED
    BY <1>5
<1>7. /\ x > MaxMCSMessageSize => body.err = "limit"
      /\ ~(x > MaxMCSMessageSize) /\ Len(q) < x => body.err = "eof"
  BY <1>3, <1>4
<1> HIDE DEF body, p
<1> QED
  BY <1>6, <1>7 DEF body, p

\* What sendMsg writes of a message, in its three parts.
LEMMA FrameParts ==
  ASSUME NEW S, Int \subseteq S, NEW isFirst \in BOOLEAN,
         NEW m, m.tag \in S, m.payload \in Seq(S), Len(m.payload) \in 0..(Word - 1)
  PROVE  LET h == Header(isFirst, m.tag)
             e == EncodeVarint32(Len(m.payload))
         IN  /\ Frame(isFirst, m) = h \o (e \o m.payload)
             /\ Frame(isFirst, m) \in Seq(S)
             /\ h \in Seq(S) /\ e \in Seq(S) /\ e \o m.payload \in Seq(S)
             /\ Len(e \o m.payload) = Len(e) + Len(m.payload)
             /\ Len(Frame(isFirst, m)) = Len(h) + (Len(e) + Len(m.payload))
<1> DEFINE p == m.payload
           h == Header(isFirst, m.tag)
           e == EncodeVarint32(Len(p))
           k == Len(p)
<1>1. h \in Seq(S)
  BY HeaderBytes
<1>2. e \in Seq(S)
  <2>1. k \in 0..(Word - 1)
    OBVIOUS
  <2> HIDE DEF k
  <2>2. <<>> \in Seq(S)
    OBVIOUS
  <2>3. EncodeVarint32(k) \in Seq(S)
    BY <2>1, <2>2, DecodesBack
  <2> QED
    BY <2>3 DEF k
<1>3. p \in Seq(S)
  OBVIOUS
<1>4. Frame(isFirst, m) = (h \o e) \o p
  BY DEF Frame, Header
<1> HIDE DEF h, e, p
<1>5. (h \o e) \o p = h \o (e \o p)
  BY <1>1, <1>2, <1>3, ConcatAssociative
<1>6. e \o p \in Seq(S) /\ Len(e \o p) = Len(e) + Len(p)
  BY <1>2, <1>3, ConcatProperties
<1> DEFINE t == e \o p
<1> HIDE DEF t
<1>7. t \in Seq(S)
  BY <1>6 DEF t
<1>8. h \o t \in Seq(S) /\ Len(h \o t) = Len(h) + Len(t)
  BY <1>1, <1>7, ConcatProperties
<1> QED
  BY <1>1, <1>2, <1>4, <1>5, <1>6, <1>8 DEF t, h, e, p

\* A message of the push connection is read back, and cut short it is not.
LEMMA MessageReadsBack ==
  ASSUME NEW isFirst \in BOOLEAN, NEW m \in Pushes, NEW more \in Following
  PROVE  ReadsBack(isFirst, m, more)
<1> DEFINE p == m.payload
           k == Len(p)
           S == Int \cup {m.tag} \cup {p[i] : i \in DOMAIN p} \cup {more[i] : i \in DOMAIN more}
           h == Header(isFirst, m.tag)
           e == EncodeVarint32(k)
           bytes == Frame(isFirst, m)
           a == Len(h)
           b == Len(e)
<1>1. /\ m = [tag |-> m.tag, payload |-> p]
      /\ p \in Seq({p[i] : i \in DOMAIN p}) /\ k < Word
      /\ more \in Seq({more[i] : i \in DOMAIN more})
  BY FramesAssumption DEF FramesAssumption, IsSeq
<1>2. k \in 0..(Word - 1)
  <2>1. k \in Nat
    BY <1>1, LenProperties
  <2> HIDE DEF k
  <2> QED
    BY <1>1, <2>1, Widths
<1>3. p \in Seq(S) /\ more \in Seq(S)
  <2>1. /\ {p[i] : i \in DOMAIN p} \subseteq S
        /\ {more[i] : i \in DOMAIN more} \subseteq S
    OBVIOUS
  <2> HIDE DEF S
  <2> QED
    BY <1>1, <2>1, SeqMonotonic
<1>4. Int \subseteq S /\ m.tag \in S
  OBVIOUS
<1> HIDE DEF S
<1>5. /\ bytes = h \o (e \o p) /\ bytes \in Seq(S)
      /\ h \in Seq(S) /\ e \in Seq(S) /\ e \o p \in Seq(S)
      /\ Len(e \o p) = b + k /\ Len(bytes) = a + (b + k)
  BY <1>2, <1>3, <1>4, FrameParts
<1>6. /\ a = (IF isFirst THEN 2 ELSE 1)
  BY <1>4, HeaderBytes
<1>7. a \in Nat /\ b \in Nat /\ k \in Nat /\ MaxMCSMessageSize \in Nat
  <2>1. a \in Nat /\ b \in Nat /\ k \in Nat
    BY <1>3, <1>5, LenProperties
  <2>2. MaxMCSMessageSize \in Nat
    BY Widths, WidthAssumption DEF WidthAssumption
  <2> QED
    BY <2>1, <2>2
<1>8. DecodeVarint32(e \o p) = [err |-> "none", rest |-> p, value |-> k]
      /\ \A n \in 0..(b - 1) : DecodeVarint32(SubSeq(e, 1, n)) = Fails("eof")
  <2> HIDE DEF k
  <2>1. /\ DecodeVarint32(EncodeVarint32(k) \o p) = [err |-> "none", rest |-> p, value |-> k]
        /\ \A n \in 0..(Len(EncodeVarint32(k)) - 1) :
              DecodeVarint32(SubSeq(EncodeVarint32(k), 1, n)) = Fails("eof")
    BY <1>2, <1>3, <1>4, DecodesBack
  <2> QED
    BY <2>1
<1> HIDE DEF h, a, b, k
<1> DEFINE sized == Len(bytes) - k
           Cut(n) == SubSeq(bytes, 1, n)
<1>9. sized = a + b
  BY <1>5, <1>7
\* Cut behind the size, it is taken for what it says it is.
<1>10. ASSUME NEW j \in 0..k
       PROVE  /\ k > MaxMCSMessageSize => ReadMsg(isFirst, Cut(a + (b + j))).err = "limit"
              /\ ~(k > MaxMCSMessageSize) /\ j < k =>
                   ReadMsg(isFirst, Cut(a + (b + j))).err = "eof"
  <2> DEFINE q == SubSeq(p, 1, j)
  <2>1. e \in Seq(S) /\ p \in Seq(S) /\ j \in 0..Len(p)
    BY <1>3, <1>5 DEF k
  <2>2. q \in Seq(S) /\ Len(q) = j /\ SubSeq(e \o p, 1, Len(e) + j) = e \o q
    <3> HIDE DEF e, p
    <3>1. q \in Seq(S) /\ Len(q) = j
      BY <2>1, Start
    <3>2. SubSeq(e \o p, 1, Len(e) + j) = e \o SubSeq(p, 1, j)
      BY <2>1, CutInSecond
    <3> QED
      BY <3>1, <3>2
  <2>3. Cut(a + (b + j)) = h \o (e \o q)
    <3> DEFINE t == e \o p
               n == b + j
    <3>1. n \in 0..Len(t)
      BY <1>5, <1>7
    <3>2. t \in Seq(S) /\ h \in Seq(S)
      BY <1>5
    <3>3. SubSeq(t, 1, n) = e \o q
      BY <2>2 DEF b
    <3> HIDE DEF t, n
    <3>4. SubSeq(h \o t, 1, Len(h) + n) = h \o SubSeq(t, 1, n)
      BY <3>1, <3>2, CutInSecond
    <3>5. SubSeq(bytes, 1, a + n) = h \o SubSeq(t, 1, n)
      BY <1>5, <3>4 DEF a, t
    <3> QED
      BY <3>3, <3>5 DEF n
  <2> HIDE DEF q
  <2>4. e \o q \in Seq(S)
    BY <2>1, <2>2, ConcatProperties
  <2>5. ReadMsg(isFirst, h \o (e \o q)) = Body(m.tag, e \o q)
    BY <1>4, <2>4, ReadAfterHeader DEF h
  <2>6. /\ k > MaxMCSMessageSize => Body(m.tag, e \o q).err = "limit"
        /\ ~(k > MaxMCSMessageSize) /\ Len(q) < k => Body(m.tag, e \o q).err = "eof"
    BY <1>2, <1>4, <2>2, SizedBody
  <2> QED
    BY <2>2, <2>3, <2>5, <2>6
\* Cut in the size.
<1>11. ASSUME NEW j \in 0..(b - 1) PROVE ReadMsg(isFirst, Cut(a + j)).err = "eof"
  <2> DEFINE q == SubSeq(e, 1, j)
             t == e \o p
  <2>1. j \in 0..b /\ j \in 0..(b + k)
    BY <1>7
  <2>2. e \in Seq(S) /\ p \in Seq(S) /\ j \in 0..Len(e)
    BY <1>3, <1>5, <2>1 DEF b
  <2>3. SubSeq(t, 1, j) = q /\ q \in Seq(S)
    <3> HIDE DEF e, p
    <3>1. SubSeq(e \o p, 1, j) = SubSeq(e, 1, j)
      BY <2>2, CutInFirst
    <3>2. SubSeq(e, 1, j) \in Seq(S)
      BY <2>2, Start
    <3> QED
      BY <3>1, <3>2
  <2>4. h \in Seq(S) /\ t \in Seq(S) /\ j \in 0..Len(t)
    BY <1>5, <2>1
  <2> HIDE DEF t
  <2>5. SubSeq(h \o t, 1, Len(h) + j) = h \o SubSeq(t, 1, j)
    BY <2>4, CutInSecond
  <2>6. Cut(a + j) = h \o q
    BY <1>5, <2>3, <2>5 DEF a, t
  <2>7. DecodeVarint32(q) = Fails("eof")
    BY <1>8
  <2> HIDE DEF q
  <2>8. ReadMsg(isFirst, h \o q) = Body(m.tag, q)
    BY <1>4, <2>3, ReadAfterHeader DEF h
  <2>9. DecodeVarint32(q).err = "eof"
    BY <2>7 DEF Fails
  <2>10. Body(m.tag, q) = Fails("eof")
    BY <2>9 DEF Body
  <2>11. Fails("eof").err = "eof"
    BY DEF Fails
  <2> QED
    BY <2>6, <2>8, <2>10, <2>11
\* Cut in the header.
<1>12. ASSUME NEW n \in 0..(a - 1) PROVE ReadMsg(isFirst, Cut(n)).err = "eof"
  <2>1. bytes \in Seq(S) /\ n \in 0..Len(bytes) /\ n < a
    BY <1>5, <1>7
  <2> HIDE DEF bytes
  <2>2. Len(Cut(n)) = n
    BY <2>1, Start
  <2> HIDE DEF Cut
  <2>3. Len(Cut(n)) < (IF isFirst THEN 2 ELSE 1)
    BY <1>6, <2>1, <2>2
  <2> QED
    BY <2>3, CutInHeader
<1>13. CASE k > MaxMCSMessageSize
  <2>1. ASSUME NEW n \in sized..Len(bytes) PROVE ReadMsg(isFirst, Cut(n)).err = "limit"
    <3> DEFINE j == n - (a + b)
    <3>1. j \in 0..k /\ n = a + (b + j)
      BY <1>5, <1>7, <1>9
    <3> HIDE DEF j, Cut
    <3> QED
      BY <1>10, <1>13, <3>1
  <2> QED
    BY <1>13, <2>1 DEF ReadsBack, k
<1>14. CASE ~(k > MaxMCSMessageSize)
  <2>1. ASSUME NEW n \in 0..(Len(bytes) - 1) PROVE ReadMsg(isFirst, Cut(n)).err = "eof"
    <3>1. n \in Nat /\ n < a + (b + k)
      BY <1>5, <1>7
    <3>2. CASE n < a
      <4>1. n \in 0..(a - 1)
        BY <1>7, <3>1, <3>2
      <4> QED
        BY <1>12, <4>1
    <3>3. CASE ~(n < a) /\ n < a + b
      <4> DEFINE j == n - a
      <4>1. j \in 0..(b - 1) /\ n = a + j
        BY <1>7, <3>1, <3>3
      <4> HIDE DEF j, Cut
      <4> QED
        BY <1>11, <4>1
    <3>4. CASE ~(n < a + b)
      <4> DEFINE j == n - (a + b)
      <4>1. j \in 0..k /\ j < k /\ n = a + (b + j)
        BY <1>7, <3>1, <3>4
      <4> HIDE DEF j, Cut
      <4> QED
        BY <1>10, <1>14, <4>1
    <3> QED
      BY <3>2, <3>3, <3>4
  <2>2. ASSUME m.tag \in Tags, Parses(m.tag, p)
        PROVE  LET read == ReadMsg(isFirst, bytes \o more)
               IN  read.err = "none" /\ read.value = m /\ read.rest = more
    <3> DEFINE q == p \o more
               t == e \o p
    <3>1. /\ q \in Seq(S) /\ Len(q) = Len(p) + Len(more)
          /\ From(q, Len(p) + 1) = more
          /\ SubSeq(q, 1, Len(p)) = p
      <4> HIDE DEF p
      <4>1. q \in Seq(S) /\ Len(q) = Len(p) + Len(more)
        BY <1>3, PartsOfConcat
      <4>2. From(q, Len(p) + 1) = more
        BY <1>3, AfterFirst
      <4>3. Len(p) \in 0..Len(p)
        BY <1>7 DEF k
      <4>4. SubSeq(q, 1, Len(p)) = SubSeq(p, 1, Len(p))
        BY <1>3, <4>3, CutInFirst
      <4>5. SubSeq(p, 1, Len(p)) = p
        BY <1>3, SubSeqFull
      <4> QED
        BY <4>1, <4>2, <4>4, <4>5
    <3>2. bytes \o more = h \o (e \o q)
      <4>1. t \o more = e \o q
        <5>1. e \in Seq(S) /\ p \in Seq(S) /\ more \in Seq(S)
          BY <1>3, <1>5
        <5> HIDE DEF e, p
        <5> QED
          BY <5>1, ConcatAssociative
      <4>2. h \in Seq(S) /\ t \in Seq(S) /\ more \in Seq(S)
        BY <1>3, <1>5
      <4> HIDE DEF t, q
      <4>3. (h \o t) \o more = h \o (t \o more)
        BY <4>2, ConcatAssociative
      <4> QED
        BY <1>5, <4>1, <4>3 DEF t
    <3> HIDE DEF q, t
    <3>3. e \o q \in Seq(S)
      BY <1>5, <3>1, ConcatProperties
    <3>4. ReadMsg(isFirst, h \o (e \o q)) = Body(m.tag, e \o q)
      BY <1>4, <3>3, ReadAfterHeader DEF h
    <3>5. ~(Len(q) < k)
      <4> DEFINE c == Len(more)
      <4>1. c \in Nat /\ Len(q) = k + c
        BY <1>3, <3>1, LenProperties DEF k
      <4> HIDE DEF c
      <4>2. ~(k + c < k)
        BY <1>7, <4>1
      <4> QED
        BY <4>1, <4>2
    <3>6. SubSeq(q, 1, k) = p /\ From(q, k + 1) = more
      BY <3>1 DEF k
    <3>7. Body(m.tag, e \o q) =
            [err |-> "none", value |-> [tag |-> m.tag, payload |-> p], rest |-> more]
      <4>1. Parses(m.tag, SubSeq(q, 1, k))
        BY <2>2, <3>6
      <4>2. Body(m.tag, e \o q) =
              [err |-> "none", value |-> [tag |-> m.tag, payload |-> SubSeq(q, 1, k)],
               rest |-> From(q, k + 1)]
        BY <1>2, <1>4, <1>14, <2>2, <3>1, <3>5, <4>1, SizedBody
      <4> QED
        BY <3>6, <4>2
    <3> DEFINE read == ReadMsg(isFirst, bytes \o more)
    <3>8. read = [err |-> "none", value |-> m, rest |-> more]
      BY <1>1, <3>2, <3>4, <3>7
    <3> HIDE DEF read
    <3>9. read.err = "none" /\ read.value = m /\ read.rest = more
      BY <3>8
    <3> QED
      BY <3>9 DEF read
  <2> QED
    BY <1>14, <2>1, <2>2 DEF ReadsBack, k
<1> QED
  BY <1>13, <1>14

\* The first n bytes add up to less than what the next would count.
LEMMA SumBelow ==
  ASSUME NEW s, NEW n \in 0..MostBytes, \A i \in 1..n : s[i] \in Nat
  PROVE  Sum(s, n) \in Nat /\ Sum(s, n) < Scale[n]
<1>1. PICK sum : SumsUp(sum, s, n) /\ Sum(s, n) = sum[n]
  BY SumSteps
<1>2. n \in Nat /\ n <= MostBytes /\ n \in 0..n
  BY Widths
<1> DEFINE T == {m \in Nat : m \in 0..n => sum[m] < Scale[m]}
<1>3. 0 \in T
  BY <1>1, ScaleSteps DEF SumsUp
<1>4. ASSUME NEW m \in T PROVE m + 1 \in T
  <2>1. SUFFICES ASSUME m + 1 \in 0..n PROVE sum[m + 1] < Scale[m + 1]
    OBVIOUS
  <2> DEFINE j == m + 1
  <2>2. m \in 0..n /\ m \in 0..MostBytes /\ j \in 1..n /\ j \in 1..MostBytes /\ j - 1 = m
    <3>1. m \in Nat /\ m + 1 <= n /\ MostBytes \in Nat
      BY <1>2, <2>1, Widths
    <3> QED
      BY <1>2, <3>1
  <2>3. Scale[j] = Group * Scale[m] /\ Scale[m] \in Nat
    <3> HIDE DEF j
    <3> QED
      BY <2>2, ScaleSteps
  <2>4. sum[j] = sum[m] + (s[j] % Group) * Scale[m] /\ sum[m] \in Nat
    BY <1>1, <2>2 DEF SumsUp
  <2> DEFINE c == Scale[m]
             v == sum[m]
             d == s[j] % Group
  <2>5. d \in 0..(Group - 1)
    BY <2>2, InGroups
  <2>6. v < c /\ v \in Nat /\ c \in Nat /\ Group \in Nat
    BY <2>2, <2>3, <2>4, Widths
  <2>7. sum[j] = v + d * c /\ Scale[j] = Group * c
    BY <2>3, <2>4
  <2> HIDE DEF c, v, d, j
  <2>8. d \in Nat /\ d + 1 \in Nat /\ d + 1 <= Group
    BY <2>5, <2>6
  <2>9. (d + 1) * c <= Group * c
    <3> DEFINE k == d + 1
    <3>1. k \in Nat /\ k <= Group
      BY <2>8
    <3> HIDE DEF k
    <3>2. k * c <= Group * c
      BY <2>6, <3>1
    <3> QED
      BY <3>2 DEF k
  <2>10. (d + 1) * c = d * c + c /\ d * c \in Nat /\ Group * c \in Nat
    BY <2>6, <2>8
  <2>11. v + d * c < Group * c
    BY <2>6, <2>9, <2>10
  <2> QED
    BY <2>7, <2>11 DEF j
<1>5. T = Nat
  <2> HIDE DEF T
  <2>1. T \in SUBSET Nat
    BY DEF T
  <2> QED
    BY <1>3, <1>4, <2>1, SetInduction
<1>6. sum[n] < Scale[n]
  BY <1>2, <1>5
<1>7. sum[n] \in Nat
  BY <1>1, <1>2 DEF SumsUp
<1> QED
  BY <1>1, <1>6, <1>7

\* Whatever bytes decodeVarint32 takes: a number of the right size, of no more
\* bytes than a word has groups, and its shortest form reads the same.
LEMMA VarintsExact ==
  ASSUME NEW s \in Seq(0..(2 * Group - 1))
  PROVE  VarintExact(s)
<1> DEFINE ends == {i \in DOMAIN s : s[i] < Group}
           n == Min(ends)
           read == DecodeVarint32(s)
           taken == [err |-> "none", rest |-> From(s, n + 1), value |-> Sum(s, n) % Word]
<1>1. SUFFICES ASSUME read.err = "none"
               PROVE  /\ read.value \in 0..(Word - 1)
                      /\ (Len(s) - Len(read.rest) - 1) * GroupBits < WordBits
                      /\ LET short == EncodeVarint32(read.value)
                         IN  /\ Len(short) <= Len(s) - Len(read.rest)
                             /\ DecodeVarint32(short \o read.rest) = read
  BY DEF VarintExact
<1>2. ends # {} /\ n <= MostBytes /\ read = taken
  <2>1. CASE ends # {} /\ n <= MostBytes
    BY <2>1 DEF DecodeVarint32
  <2>2. CASE ~(ends # {} /\ n <= MostBytes)
    <3>1. read = Fails(IF Len(s) > MostBytes THEN "overflow" ELSE "eof")
      BY <2>2 DEF DecodeVarint32
    <3>2. read.err \in {"overflow", "eof"}
      BY <3>1 DEF Fails
    <3> QED
      BY <1>1, <3>2
  <2> QED
    BY <2>1, <2>2
<1> DEFINE l == Len(s)
<1>3. DOMAIN s = 1..l /\ l \in Nat /\ \A i \in 1..l : s[i] \in Nat
  <2>1. DOMAIN s = 1..l /\ l \in Nat
    BY LenProperties
  <2>2. ASSUME NEW i \in 1..l PROVE s[i] \in Nat
    <3>1. s[i] \in 0..(2 * Group - 1)
      BY ElementOfSeq
    <3>2. 2 * Group - 1 \in Int
      BY Widths
    <3> QED
      BY <3>1, <3>2
  <2> QED
    BY <2>1, <2>2
<1>4. n \in ends
  <2>1. ends \in SUBSET Nat /\ ends \in SUBSET Int
    BY <1>3
  <2> HIDE DEF ends
  <2>2. PICK k \in ends : \A i \in ends : k <= i
    BY <1>2, <2>1, Least
  <2>3. Min(ends) = k
    BY <2>1, <2>2, MinIs
  <2> QED
    BY <2>3
<1> HIDE DEF n, ends
<1>5. n \in 1..l /\ n \in 1..MostBytes /\ n \in 0..MostBytes
  <2>1. n \in 1..l
    BY <1>3, <1>4 DEF ends
  <2> HIDE DEF l
  <2> QED
    BY <1>2, <1>3, <2>1, Widths
<1>6. Sum(s, n) \in Nat /\ Sum(s, n) < Scale[n]
  <2>1. \A i \in 1..n : s[i] \in Nat
    <3>1. \A i \in 1..n : i \in 1..l
      <4> HIDE DEF l
      <4> QED
        BY <1>3, <1>5
    <3> QED
      BY <1>3, <3>1
  <2> QED
    BY <1>5, <2>1, SumBelow
<1> DEFINE v == Sum(s, n) % Word
           rest == From(s, n + 1)
<1>7. v \in 0..(Word - 1) /\ v \in Nat /\ v < Scale[n]
  <2> DEFINE a == Sum(s, n)
             w == Word
  <2>1. w \in Nat \ {0}
    BY Widths
  <2>2. a \in Nat
    BY <1>6
  <2> HIDE DEF a, w
  <2>3. a \div w \in Nat /\ a % w \in 0..(w - 1) /\ a = w * (a \div w) + (a % w)
    BY <2>1, <2>2, DivMod
  <2> DEFINE q == a \div w
             r == a % w
  <2>4. q \in Nat /\ r \in 0..(w - 1) /\ a = w * q + r
    BY <2>3
  <2> HIDE DEF q, r
  <2>5. r \in Nat /\ r <= a
    <3>1. w * q \in Nat
      BY <2>1, <2>4
    <3> QED
      BY <2>1, <2>4, <3>1
  <2>6. Scale[n] \in Nat /\ a < Scale[n]
    BY <1>5, <1>6, ScaleSteps DEF a
  <2>7. r < Scale[n]
    BY <2>2, <2>5, <2>6
  <2> QED
    BY <2>4, <2>5, <2>7 DEF r, a, w
<1>8. rest \in Seq(Int) /\ Len(rest) = l - n
  <2> DEFINE m == n + 1
  <2>1. s \in Seq(Int)
    <3>1. 0..(2 * Group - 1) \subseteq Int
      OBVIOUS
    <3> QED
      BY <3>1, SeqMonotonic
  <2>2. m \in 1..(Len(s) + 1) /\ Len(s) \in (m - 1)..Len(s) /\ Len(s) - m + 1 = l - n
    <3> HIDE DEF l
    <3>1. m \in 1..(l + 1) /\ l \in (m - 1)..l /\ l - m + 1 = l - n
      BY <1>3, <1>5
    <3> QED
      BY <3>1 DEF l
  <2> HIDE DEF m
  <2>3. /\ SubSeq(s, m, Len(s)) \in Seq(Int)
        /\ Len(SubSeq(s, m, Len(s))) = Len(s) - m + 1
    BY <2>1, <2>2, Piece
  <2> QED
    BY <2>2, <2>3 DEF From, m
<1>9. read.value = v /\ read.rest = rest
  BY <1>2
<1> HIDE DEF v, rest
<1>10. Len(s) - Len(read.rest) = n
  <2> HIDE DEF l
  <2>1. l - Len(rest) = n
    BY <1>3, <1>5, <1>8
  <2> QED
    BY <1>9, <2>1 DEF l
<1>11. (n - 1) * GroupBits < WordBits
  BY <1>5, Widths
<1> DEFINE short == EncodeVarint32(v)
<1>12. Len(short) <= n
  <2>1. PICK last \in 0..(n - 1) : EncodedIn(v, last)
    BY <1>5, <1>7, BytesOf
  <2>2. Len(short) = last + 1
    BY <1>7, <2>1, EncodedBytes
  <2> HIDE DEF short
  <2> QED
    BY <1>5, <2>1, <2>2
<1>13. DecodeVarint32(short \o rest) = [err |-> "none", rest |-> rest, value |-> v]
  <2>1. Int \subseteq Int
    OBVIOUS
  <2> QED
    BY <1>7, <1>8, <2>1, DecodesBack
<1>14. read = [err |-> "none", rest |-> rest, value |-> v]
  BY <1>2 DEF rest, v
<1> HIDE DEF read, taken, l
<1>15. (Len(s) - Len(read.rest) - 1) * GroupBits < WordBits
  BY <1>10, <1>11
<1> QED
  BY <1>7, <1>9, <1>10, <1>12, <1>13, <1>14, <1>15

\* The four bytes of a length are the ones that give it.
LEMMA BigEndianOf ==
  ASSUME NEW s, s[2] \in 0..255, s[3] \in 0..255, s[4] \in 0..255, s[5] \in 0..255
  PROVE  /\ Value(s, 2) \in Nat
         /\ BigEndian(Value(s, 2)) = <<s[2], s[3], s[4], s[5]>>
<1> DEFINE a == s[2]
           b == s[3]
           c == s[4]
           d == s[5]
           v == Value(s, 2)
<1>1. a \in 0..255 /\ b \in 0..255 /\ c \in 0..255 /\ d \in 0..255
  OBVIOUS
<1>2. v = a * 16777216 + b * 65536 + c * 256 + d
  BY SMT DEF Value
<1> HIDE DEF a, b, c, d, v
<1>3. v \in Nat /\ v \div 16777216 = a
  BY <1>1, <1>2, SMT
<1>4. v \div 65536 = a * 256 + b
  BY <1>1, <1>2, SMT
<1>5. v \div 256 = a * 65536 + b * 256 + c
  BY <1>1, <1>2, SMT
<1>6. (a * 256 + b) % 256 = b /\ (a * 65536 + b * 256 + c) % 256 = c
  BY <1>1, SMT
<1>7. v % 256 = d
  BY <1>1, <1>2, SMT
<1>8. BigEndian(v) = <<a, b, c, d>>
  BY <1>3, <1>4, <1>5, <1>6, <1>7, SMT DEF BigEndian
<1> QED
  BY <1>3, <1>8, SMT DEF a, b, c, d, v

\* A frame that is taken is its header, its payload and what follows.
LEMMA FramesRead ==
  ASSUME NEW s \in Seq(0..255)
  PROVE  FramesAgree(s)
<1>1. SUFFICES ASSUME Unwrap(s).err = "none"
               PROVE  /\ s = Wrap(Unwrap(s).value) \o ReadFrame(s).rest
                      /\ ReadFrame(s).value = Unwrap(s).value
  BY DEF FramesAgree
<1> DEFINE l == Len(s)
           v == Value(s, 2)
           p == SubSeq(s, 6, 5 + v)
           rest == SubSeq(s, 6 + v, l)
<1>2. FrameError(s) = "none"
  <2>1. SUFFICES ASSUME FrameError(s) # "none" PROVE FALSE
    OBVIOUS
  <2>2. Unwrap(s) = Fails(FrameError(s))
    BY <2>1 DEF Unwrap
  <2>3. Fails(FrameError(s)).err = FrameError(s)
    BY DEF Fails
  <2> QED
    BY <1>1, <2>1, <2>2, <2>3
<1>3. Unwrap(s).value = p /\ ReadFrame(s).value = p /\ ReadFrame(s).rest = rest
  <2>1. Unwrap(s) = [err |-> "none", value |-> p, rest |-> <<>>]
    BY <1>2 DEF Unwrap
  <2>2. ReadFrame(s) = [err |-> "none", value |-> p, rest |-> rest]
    BY <1>2 DEF ReadFrame, From
  <2> HIDE DEF p, rest
  <2> QED
    BY <2>1, <2>2
<1>4. ~(l < 5) /\ s[1] = 0 /\ ~(l - 5 < v)
  <2> HIDE DEF v, l
  <2>1. ~(l < 5)
    BY <1>2 DEF FrameError, l
  <2>2. s[1] = 0
    BY <1>2, <2>1 DEF FrameError, l
  <2>3. ~(l - 5 < v)
    BY <1>2, <2>1, <2>2 DEF FrameError, l, v
  <2> QED
    BY <2>1, <2>2, <2>3
<1>5. l \in Nat
  BY LenProperties
<1>6. \A i \in 1..l : s[i] \in 0..255
  BY ElementOfSeq
<1>7. s[2] \in 0..255 /\ s[3] \in 0..255 /\ s[4] \in 0..255 /\ s[5] \in 0..255
  <2> HIDE DEF l
  <2>1. 2 \in 1..l /\ 3 \in 1..l /\ 4 \in 1..l /\ 5 \in 1..l
    BY <1>4, <1>5
  <2> QED
    BY <1>6, <2>1
<1>8. v \in Nat /\ BigEndian(v) = <<s[2], s[3], s[4], s[5]>>
  BY <1>7, BigEndianOf
<1> HIDE DEF v, l
<1>9. /\ 5 \in Nat /\ 6 \in 1..(l + 1) /\ 5 + v \in 5..l /\ 5 + v \in 6 - 1..l /\ l \in (5 + v)..l
      /\ 1 \in 1..(l + 1) /\ 5 \in 1 - 1..l /\ l \in 5..l /\ (5 + v) + 1 = 6 + v
  BY <1>4, <1>5, <1>8
<1>10. s = SubSeq(s, 1, 5) \o SubSeq(s, 6, l)
  <2> DEFINE k == 5
  <2>1. k \in 1 - 1..Len(s) /\ 1 \in 1..(Len(s) + 1) /\ Len(s) \in k..Len(s) /\ k + 1 = 6
    BY <1>9 DEF l
  <2> HIDE DEF k
  <2>2. SubSeq(s, 1, k) \o SubSeq(s, k + 1, Len(s)) = SubSeq(s, 1, Len(s))
    BY <2>1, ConcatAdjacentSubSeq
  <2>3. SubSeq(s, 1, Len(s)) = s
    BY SubSeqFull
  <2> QED
    BY <2>1, <2>2, <2>3 DEF k, l
<1>11. SubSeq(s, 6, l) = p \o rest
  <2> DEFINE k == 5 + v
  <2>1. k \in 6 - 1..Len(s) /\ 6 \in 1..(Len(s) + 1) /\ Len(s) \in k..Len(s) /\ k + 1 = 6 + v
    BY <1>9 DEF l
  <2> HIDE DEF k
  <2>2. SubSeq(s, 6, k) \o SubSeq(s, k + 1, Len(s)) = SubSeq(s, 6, Len(s))
    BY <2>1, ConcatAdjacentSubSeq
  <2> QED
    BY <2>1, <2>2 DEF k, l
<1> DEFINE B == 0..255
           five == <<s[2], s[3], s[4], s[5]>>
<1>12. SubSeq(s, 1, 5) \in Seq(B) /\ p \in Seq(B) /\ Len(p) = v /\ rest \in Seq(B)
  <2> DEFINE k == 5 + v
             j == 6 + v
  <2>1. /\ 5 \in 0..Len(s) /\ 6 \in 1..(Len(s) + 1) /\ k \in (6 - 1)..Len(s)
        /\ j \in 1..(Len(s) + 1) /\ Len(s) \in (j - 1)..Len(s) /\ k - 6 + 1 = v
    <3>1. /\ 5 \in 0..l /\ 6 \in 1..(l + 1) /\ k \in (6 - 1)..l
          /\ j \in 1..(l + 1) /\ l \in (j - 1)..l /\ k - 6 + 1 = v
      BY <1>4, <1>5, <1>8
    <3> QED
      BY <3>1 DEF l
  <2> HIDE DEF B, k, j
  <2>2. s \in Seq(B)
    BY DEF B
  <2>3. SubSeq(s, 1, 5) \in Seq(B)
    BY <2>1, <2>2, Start
  <2>4. SubSeq(s, 6, k) \in Seq(B) /\ Len(SubSeq(s, 6, k)) = k - 6 + 1
    BY <2>1, <2>2, Piece
  <2>5. SubSeq(s, j, Len(s)) \in Seq(B)
    BY <2>1, <2>2, Piece
  <2> QED
    BY <2>1, <2>3, <2>4, <2>5 DEF k, j, l
<1>13. SubSeq(s, 1, 5) = <<0>> \o BigEndian(v)
  <2> DEFINE f == SubSeq(s, 1, 5)
             z == <<0>>
             g == z \o five
  <2>1. 5 \in 0..Len(s)
    BY <1>4, <1>5 DEF l
  <2>2. f \in Seq(B) /\ Len(f) = 5 /\ \A i \in 1..5 : f[i] = s[i]
    BY <2>1, Start
  <2>3. z \in Seq(B) /\ Len(z) = 1 /\ z[1] = 0
    OBVIOUS
  <2>4. five \in Seq(B) /\ Len(five) = 4
    BY <1>7
  <2>5. five[1] = s[2] /\ five[2] = s[3] /\ five[3] = s[4] /\ five[4] = s[5]
    OBVIOUS
  <2> HIDE DEF f, z, five, B
  <2>6. /\ g \in Seq(B) /\ Len(g) = Len(z) + Len(five)
        /\ \A i \in 1..Len(z) : g[i] = z[i]
        /\ \A i \in 1..Len(five) : g[Len(z) + i] = five[i]
    <3>1. z \in Seq(B) /\ five \in Seq(B)
      BY <2>3, <2>4
    <3>2. Joins(g, z, five, B)
      BY <3>1, JoinIs
    <3> HIDE DEF g
    <3> QED
      BY <3>2 DEF Joins
  <2> HIDE DEF g
  <2>7. /\ Len(g) = 5 /\ g[1] = z[1] /\ g[1 + 1] = five[1] /\ g[1 + 2] = five[2]
        /\ g[1 + 3] = five[3] /\ g[1 + 4] = five[4]
    BY <2>3, <2>4, <2>6
  <2>8. \A i \in 1..5 : f[i] = g[i]
    BY <1>4, <2>2, <2>3, <2>5, <2>7
  <2>9. f = g
    <3>1. /\ f \in Seq(B) /\ g \in Seq(B) /\ Len(f) = Len(g)
          /\ \A i \in 1..Len(f) : f[i] = g[i]
      BY <2>2, <2>6, <2>7, <2>8
    <3> QED
      BY <3>1, SeqEqual
  <2> QED
    BY <1>8, <2>9 DEF f, g, z, five
<1> HIDE DEF p, rest, five
<1>14. Wrap(p) = SubSeq(s, 1, 5) \o p
  BY <1>12, <1>13 DEF Wrap
<1>15. (SubSeq(s, 1, 5) \o p) \o rest = SubSeq(s, 1, 5) \o (p \o rest)
  <2> DEFINE f == SubSeq(s, 1, 5)
  <2>1. f \in Seq(B) /\ p \in Seq(B) /\ rest \in Seq(B)
    BY <1>12
  <2> HIDE DEF B, f
  <2>2. (f \o p) \o rest = f \o (p \o rest)
    BY <2>1, ConcatAssociative, SMTT(20)
  <2> QED
    BY <2>2 DEF f
<1> QED
  BY <1>3, <1>10, <1>11, <1>14, <1>15

\* A length below 4 GiB is the one its four bytes give.
LEMMA ValueOf ==
  ASSUME NEW n \in Nat, Below4GiB(n), NEW s,
         s[2] = BigEndian(n)[1], s[3] = BigEndian(n)[2],
         s[4] = BigEndian(n)[3], s[5] = BigEndian(n)[4]
  PROVE  Value(s, 2) = n
<1> DEFINE a == n \div 16777216
           b == n \div 65536
           c == n \div 256
<1>1. a \in Nat /\ a < 256 /\ b \in Nat /\ c \in Nat
  BY SMT DEF Below4GiB
<1>2. s[2] = a /\ s[3] = b % 256 /\ s[4] = c % 256 /\ s[5] = n % 256
  BY DEF BigEndian
<1>3. Value(s, 2) = s[2] * 16777216 + s[3] * 65536 + s[4] * 256 + s[5]
  BY SMT DEF Value
<1>4. n = 256 * c + (n % 256) /\ (n % 256) \in Nat
  BY SMT
<1>5. c = 256 * b + (c % 256) /\ (c % 256) \in Nat
  BY SMT
<1>6. b = 256 * a + (b % 256) /\ (b % 256) \in Nat
  BY SMT
<1> HIDE DEF a, b, c
<1>7. a * 16777216 + (b % 256) * 65536 + (c % 256) * 256 + (n % 256) = n
  BY <1>1, <1>4, <1>5, <1>6, SMT
<1> QED
  BY <1>2, <1>3, <1>7

\* The header Wrap writes.
FrameHeader(n) == <<0>> \o BigEndian(n)

\* It has five bytes.
LEMMA FrameHeaderBytes ==
  ASSUME NEW S, Int \subseteq S, NEW n \in Nat
  PROVE  LET h == FrameHeader(n)
             f == BigEndian(n)
         IN  /\ h \in Seq(S) /\ Len(h) = 5 /\ h[1] = 0
             /\ h[2] = f[1] /\ h[3] = f[2] /\ h[4] = f[3] /\ h[5] = f[4]
<1> DEFINE z == <<0>>
           f == BigEndian(n)
           h == z \o f
<1>1. z \in Seq(S) /\ Len(z) = 1 /\ z[1] = 0
  OBVIOUS
<1>2. f \in Seq(S) /\ Len(f) = 4
  <2> DEFINE a == n \div 16777216
             b == (n \div 65536) % 256
             c == (n \div 256) % 256
             d == n % 256
  <2>1. a \in Int /\ b \in Int /\ c \in Int /\ d \in Int
    OBVIOUS
  <2>2. f = <<a, b, c, d>>
    BY DEF BigEndian
  <2> HIDE DEF a, b, c, d, f
  <2>3. a \in S /\ b \in S /\ c \in S /\ d \in S
    BY <2>1
  <2> QED
    BY <2>2, <2>3
<1> HIDE DEF z, f
<1>3. Joins(h, z, f, S)
  BY <1>1, <1>2, JoinIs
<1> HIDE DEF h
<1>4. /\ h \in Seq(S) /\ Len(h) = 5 /\ h[1] = z[1]
      /\ h[1 + 1] = f[1] /\ h[1 + 2] = f[2] /\ h[1 + 3] = f[3] /\ h[1 + 4] = f[4]
  BY <1>1, <1>2, <1>3 DEF Joins
<1> QED
  BY <1>1, <1>4 DEF h, f, z, FrameHeader

\* What a frame's header says decides what becomes of it.
LEMMA HeaderDecides ==
  ASSUME NEW S, Int \subseteq S, NEW n \in Nat, Below4GiB(n), NEW q \in Seq(S)
  PROVE  LET s == FrameHeader(n) \o q
         IN  /\ s \in Seq(S) /\ Len(s) = 5 + Len(q) /\ Value(s, 2) = n
             /\ \A i \in 1..Len(q) : s[5 + i] = q[i]
             /\ FrameError(s) = IF n > MaxFrameSize THEN "limit"
                                ELSE IF Len(q) < n THEN "short" ELSE "none"
<1> DEFINE h == FrameHeader(n)
           s == h \o q
           k == Len(q)
<1>1. /\ h \in Seq(S) /\ Len(h) = 5 /\ h[1] = 0 /\ h[2] = BigEndian(n)[1]
      /\ h[3] = BigEndian(n)[2] /\ h[4] = BigEndian(n)[3] /\ h[5] = BigEndian(n)[4]
  BY FrameHeaderBytes
<1>2. k \in Nat
  BY LenProperties
<1> HIDE DEF h
<1>3. Joins(s, h, q, S)
  BY <1>1, JoinIs
<1> HIDE DEF s
<1>4. s \in Seq(S) /\ Len(s) = 5 + k /\ \A i \in 1..k : s[5 + i] = q[i]
  BY <1>1, <1>3 DEF Joins
<1>5. \A i \in 1..5 : s[i] = h[i]
  BY <1>1, <1>3 DEF Joins
<1>6. s[1] = 0 /\ s[2] = h[2] /\ s[3] = h[3] /\ s[4] = h[4] /\ s[5] = h[5]
  BY <1>1, <1>5
<1>7. Value(s, 2) = n
  BY <1>1, <1>6, ValueOf
<1> HIDE DEF k
<1>8. ~(Len(s) < 5) /\ Len(s) - 5 = k
  BY <1>2, <1>4
<1>9. FrameError(s) = IF n > MaxFrameSize THEN "limit" ELSE IF k < n THEN "short" ELSE "none"
  BY <1>6, <1>7, <1>8 DEF FrameError, TooLarge
<1> QED
  BY <1>4, <1>7, <1>9 DEF s, h, k

\* A frame that is refused is refused by both.
LEMMA RefusedByBoth ==
  ASSUME NEW s, FrameError(s) # "none"
  PROVE  Unwrap(s).err = FrameError(s) /\ ReadFrame(s).err = FrameError(s)
<1>1. Unwrap(s) = Fails(FrameError(s)) /\ ReadFrame(s) = Fails(FrameError(s))
  BY DEF Unwrap, ReadFrame
<1>2. Fails(FrameError(s)).err = FrameError(s)
  BY DEF Fails
<1> QED
  BY <1>1, <1>2

\* A payload comes out of its frame, unless it is too large; cut short, it does not.
LEMMA PayloadUnwraps ==
  ASSUME NEW payload \in Payloads, NEW more \in Following
  PROVE  Unwraps(payload, more)
<1> DEFINE p == payload
           k == Len(p)
           S == Int \cup {p[i] : i \in DOMAIN p} \cup {more[i] : i \in DOMAIN more}
           h == FrameHeader(k)
           frame == Wrap(p)
           bytes == frame \o more
           Cut(n) == SubSeq(frame, 1, n)
<1>1. /\ p \in Seq({p[i] : i \in DOMAIN p}) /\ more \in Seq({more[i] : i \in DOMAIN more})
      /\ Below4GiB(5 + k + Len(more))
  BY FramesAssumption DEF FramesAssumption, IsSeq
<1>2. p \in Seq(S) /\ more \in Seq(S)
  <2>1. /\ {p[i] : i \in DOMAIN p} \subseteq S
        /\ {more[i] : i \in DOMAIN more} \subseteq S
    OBVIOUS
  <2> HIDE DEF S
  <2> QED
    BY <1>1, <2>1, SeqMonotonic
<1>3. Int \subseteq S
  OBVIOUS
<1> HIDE DEF S
<1>4. k \in Nat /\ Below4GiB(k) /\ MaxFrameSize \in Nat
  <2> DEFINE c == Len(more)
  <2>1. k \in Nat /\ c \in Nat
    BY <1>2, LenProperties
  <2>2. Below4GiB(5 + k + c)
    BY <1>1
  <2> HIDE DEF k, c
  <2>3. k \div 16777216 <= (5 + k + c) \div 16777216
    BY <2>1, SMT
  <2>4. k \div 16777216 \in Int /\ (5 + k + c) \div 16777216 \in Int
    BY <2>1, SMT
  <2>5. Below4GiB(k)
    BY <2>2, <2>3, <2>4, SMT DEF Below4GiB
  <2>6. MaxFrameSize \in Nat
    BY WidthAssumption DEF WidthAssumption
  <2> QED
    BY <2>1, <2>5, <2>6
<1>5. h \in Seq(S) /\ Len(h) = 5
  <2> HIDE DEF k
  <2> QED
    BY <1>3, <1>4, FrameHeaderBytes
<1>6. frame = h \o p
  BY DEF Wrap, FrameHeader
<1> HIDE DEF h, frame, p
<1>7. frame \in Seq(S) /\ Len(frame) = 5 + k
  <2> HIDE DEF k
  <2>1. h \o p \in Seq(S) /\ Len(h \o p) = Len(h) + Len(p)
    BY <1>2, <1>5, ConcatProperties
  <2> QED
    BY <1>5, <1>6, <2>1 DEF k
<1> HIDE DEF k
\* Cut in the header or behind it.
<1>8. ASSUME NEW n \in 0..4 PROVE FrameError(Cut(n)) = "short"
  <2>1. n \in 0..Len(frame)
    BY <1>4, <1>7
  <2>2. Len(Cut(n)) = n
    BY <1>7, <2>1, Start
  <2> HIDE DEF Cut
  <2>3. Len(Cut(n)) < 5
    BY <2>2
  <2> QED
    BY <2>3 DEF FrameError
<1>9. ASSUME NEW j \in 0..k
      PROVE  FrameError(Cut(5 + j)) = IF k > MaxFrameSize THEN "limit"
                                      ELSE IF j < k THEN "short" ELSE "none"
  <2> DEFINE q == SubSeq(p, 1, j)
  <2>1. j \in 0..Len(p)
    BY DEF k
  <2>2. q \in Seq(S) /\ Len(q) = j
    BY <1>2, <2>1, Start
  <2>3. SubSeq(h \o p, 1, Len(h) + j) = h \o q
    BY <1>2, <1>5, <2>1, CutInSecond
  <2> HIDE DEF q
  <2>4. Cut(5 + j) = h \o q
    BY <1>5, <1>6, <2>3
  <2> HIDE DEF Cut
  <2>5. FrameError(h \o q) = IF k > MaxFrameSize THEN "limit"
                             ELSE IF Len(q) < k THEN "short" ELSE "none"
    BY <1>3, <1>4, <2>2, HeaderDecides DEF h
  <2> QED
    BY <2>2, <2>4, <2>5
<1>10. CASE k > MaxFrameSize
  <2>1. ASSUME NEW n \in 5..Len(frame)
        PROVE  Unwrap(Cut(n)).err = "limit" /\ ReadFrame(Cut(n)).err = "limit"
    <3> DEFINE j == n - 5
    <3>1. j \in 0..k /\ 5 + j = n
      BY <1>4, <1>7
    <3> HIDE DEF j, Cut
    <3>2. FrameError(Cut(n)) = "limit"
      BY <1>9, <1>10, <3>1
    <3> QED
      BY <3>2, RefusedByBoth
  <2> QED
    BY <1>10, <2>1 DEF Unwraps, k, p, frame
<1>11. CASE ~(k > MaxFrameSize)
  <2>1. ASSUME NEW n \in 0..(Len(frame) - 1)
        PROVE  Unwrap(Cut(n)).err = "short" /\ ReadFrame(Cut(n)).err = "short"
    <3>1. n \in Nat /\ n < 5 + k
      BY <1>4, <1>7
    <3>2. FrameError(Cut(n)) = "short"
      <4>1. CASE n < 5
        <5>1. n \in 0..4
          BY <3>1, <4>1
        <5> HIDE DEF Cut
        <5> QED
          BY <1>8, <5>1
      <4>2. CASE ~(n < 5)
        <5> DEFINE j == n - 5
        <5>1. j \in 0..k /\ 5 + j = n /\ j < k
          BY <1>4, <3>1, <4>2
        <5> HIDE DEF j, Cut
        <5> QED
          BY <1>9, <1>11, <5>1
      <4> QED
        BY <4>1, <4>2
    <3> HIDE DEF Cut
    <3> QED
      BY <3>2, RefusedByBoth
  <2> DEFINE q == p \o more
             c == Len(more)
  <2>2. Joins(q, p, more, S) /\ c \in Nat
    BY <1>2, JoinIs, LenProperties
  <2>3. bytes = h \o q
    BY <1>2, <1>5, <1>6, ConcatAssociative
  <2>4. From(bytes, 5 + k + 1) = more
    BY <1>2, <1>7, AfterFirst
  <2> HIDE DEF bytes, q, c
  <2>5. q \in Seq(S) /\ Len(q) = k + c /\ \A i \in 1..k : q[i] = p[i]
    BY <2>2 DEF Joins, k, c
  <2>6. /\ bytes \in Seq(S) /\ Len(bytes) = 5 + Len(q) /\ Value(bytes, 2) = k
        /\ \A i \in 1..Len(q) : bytes[5 + i] = q[i]
        /\ FrameError(bytes) = IF k > MaxFrameSize THEN "limit"
                               ELSE IF Len(q) < k THEN "short" ELSE "none"
    BY <1>3, <1>4, <2>3, <2>5, HeaderDecides DEF h
  <2>7. FrameError(bytes) = "none"
    <3>1. ~(k + c < k)
      BY <1>4, <2>2
    <3> QED
      BY <1>11, <2>5, <2>6, <3>1
  <2>8. SubSeq(bytes, 6, 5 + k) = p
    <3> DEFINE m == 6
               e == 5 + k
               f == SubSeq(bytes, m, e)
    <3>1. m \in 1..(Len(bytes) + 1) /\ e \in (m - 1)..Len(bytes) /\ e - m + 1 = k
      BY <1>4, <2>2, <2>5, <2>6
    <3>2. \A i \in 1..k : m + i - 1 = 5 + i /\ i \in 1..Len(q)
      BY <1>4, <2>2, <2>5
    <3> HIDE DEF m, e
    <3>3. f \in Seq(S) /\ Len(f) = k /\ \A i \in 1..k : f[i] = bytes[m + i - 1]
      BY <2>6, <3>1, Piece
    <3> HIDE DEF f
    <3>4. \A i \in 1..k : f[i] = p[i]
      BY <2>5, <2>6, <3>2, <3>3
    <3>5. p \in Seq(S) /\ Len(p) = k
      BY <1>2 DEF k
    <3>6. f = p
      BY <3>3, <3>4, <3>5, SeqEqual
    <3> QED
      BY <3>6 DEF f, m, e
  <2>9. 6 + k = 5 + k + 1
    BY <1>4
  <2>10. Unwrap(bytes) = [err |-> "none", value |-> p, rest |-> <<>>]
    BY <2>6, <2>7, <2>8 DEF Unwrap
  <2>11. ReadFrame(bytes) = [err |-> "none", value |-> p, rest |-> more]
    BY <2>4, <2>6, <2>7, <2>8, <2>9 DEF ReadFrame
  <2>12. Unwrap(bytes).err = "none" /\ Unwrap(bytes).value = p
    BY <2>10
  <2> QED
    BY <1>11, <2>1, <2>11, <2>12 DEF Unwraps, k, p, frame, bytes
<1> QED
  BY <1>10, <1>11

\* FramesExact, for every width of bytes and words that holds a word in the
\* longest varint, every size limit and whatever is sent or arrives: what sendMsg
\* writes readMsg reads back, decodeVarint32 takes numbers of the right size, and
\* Unwrap and ReadFrame take the payload out of what Wrap builds up to the limit
\* of a frame's size, and take nothing else.
THEOREM FramesAlwaysExact == FramesSpec => []FramesExact
<1>1. NothingPicked => FramesExact
  BY DEF NothingPicked, FramesExact
<1>2. FramesExact /\ [PickFramed]_<<subject, input>> => FramesExact'
  <2>1. SUFFICES ASSUME FramesExact, [PickFramed]_<<subject, input>>
                 PROVE  FramesExact'
    OBVIOUS
  <2>2. CASE PickMessage
    <3>1. /\ subject' = "message"
          /\ input' \in [isFirst : BOOLEAN, m : Pushes, more : Following]
      BY <2>2 DEF PickMessage, Picks
    <3>2. input'.isFirst \in BOOLEAN /\ input'.m \in Pushes /\ input'.more \in Following
      BY <3>1
    <3>3. ReadsBack(input'.isFirst, input'.m, input'.more)
      BY <3>2, MessageReadsBack
    <3> QED
      BY <3>1, <3>3 DEF FramesExact
  <2>3. CASE PickVarint
    <3>1. subject' = "varint" /\ input' \in Seq(0..(2 * Group - 1))
      BY <2>3, FramesAssumption DEF FramesAssumption, PickVarint, Picks
    <3>2. VarintExact(input')
      BY <3>1, VarintsExact
    <3> QED
      BY <3>1, <3>2 DEF FramesExact
  <2>4. CASE PickFrame
    <3>1. subject' = "frame" /\ input' \in Seq(0..255)
      BY <2>4, FramesAssumption DEF FramesAssumption, PickFrame, Picks
    <3>2. FramesAgree(input')
      BY <3>1, FramesRead
    <3> QED
      BY <3>1, <3>2 DEF FramesExact
  <2>5. CASE PickPayload
    <3>1. /\ subject' = "payload"
          /\ input' \in [payload : Payloads, more : Following]
      BY <2>5 DEF PickPayload, Picks
    <3>2. input'.payload \in Payloads /\ input'.more \in Following
      BY <3>1
    <3>3. Unwraps(input'.payload, input'.more)
      BY <3>2, PayloadUnwraps
    <3> QED
      BY <3>1, <3>3 DEF FramesExact
  <2>6. CASE UNCHANGED <<subject, input>>
    BY <2>1, <2>6 DEF FramesExact
  <2> QED
    BY <2>1, <2>2, <2>3, <2>4, <2>5, <2>6 DEF PickFramed
<1> QED
  BY <1>1, <1>2, PTL DEF FramesSpec

-----------------------------------------------------------------------------
(* The ciphers *)

\* The quotient and the remainder of a number that is given by them.
LEMMA Quotient ==
  ASSUME NEW b \in Nat \ {0}, NEW q \in Nat, NEW r \in 0..(b - 1)
  PROVE  (b * q + r) \div b = q /\ (b * q + r) % b = r
<1> DEFINE a == b * q + r
           p == a \div b
           t == a % b
<1>1. ASSUME NEW j \in Nat, NEW k \in Nat, j < k PROVE b * j + b <= b * k
  <2> DEFINE d == k - j - 1
  <2>1. d \in Nat /\ k = j + 1 + d
    BY <1>1
  <2> HIDE DEF d
  <2>2. b * k = b * j + b + b * d
    BY <2>1
  <2>3. b * d \in Nat /\ b * j \in Nat
    BY <2>1
  <2> QED
    BY <2>2, <2>3
<1>2. a \in Nat
  OBVIOUS
<1> HIDE DEF a
<1>3. p \in Nat /\ t \in 0..(b - 1) /\ a = b * p + t
  BY <1>2, DivMod
<1> HIDE DEF p, t
<1> DEFINE bp == b * p
           bq == b * q
<1>4. bp \in Nat /\ bq \in Nat /\ bp + t = bq + r
  BY <1>3 DEF a
<1>5. ~(p < q)
  <2>1. p < q => bp + b <= bq
    BY <1>1, <1>3
  <2> HIDE DEF bp, bq
  <2> QED
    BY <1>3, <1>4, <2>1
<1>6. ~(q < p)
  <2>1. q < p => bq + b <= bp
    BY <1>1, <1>3
  <2> HIDE DEF bp, bq
  <2> QED
    BY <1>3, <1>4, <2>1
<1>7. p = q
  BY <1>3, <1>5, <1>6
<1>8. t = r
  <2>1. bp = bq
    BY <1>7
  <2> HIDE DEF bp, bq
  <2> QED
    BY <1>3, <1>4, <2>1
<1> QED
  BY <1>7, <1>8 DEF p, t, a

\* A digit before a number that is less than its place.
LEMMA Prefixed ==
  ASSUME NEW z \in Nat, NEW p \in Nat, NEW d \in 0..(z - 1), NEW r \in 0..(p - 1)
  PROVE  d * p + r \in 0..(z * p - 1)
<1> DEFINE e == z - 1 - d
<1>1. e \in Nat /\ z = d + 1 + e
  OBVIOUS
<1> HIDE DEF e
<1>2. z * p = d * p + p + e * p
  BY <1>1
<1>3. d * p \in Nat /\ e * p \in Nat
  BY <1>1
<1> DEFINE zp == z * p
           dp == d * p
           ep == e * p
<1>4. zp = dp + p + ep /\ dp \in Nat /\ ep \in Nat
  BY <1>2, <1>3
<1> HIDE DEF zp, dp, ep
<1>5. dp + r \in 0..(zp - 1)
  BY <1>4
<1> QED
  BY <1>5 DEF zp, dp

\* What is known of the sizes.
LEMMA CipherSizes ==
  /\ Top \in Nat /\ Top > 1 /\ ByteSize \in Nat /\ ByteSize = 2 * Top /\ ByteSize > 3
  /\ BlockLen \in Nat /\ BlockLen > 0
BY CipherAssumption DEF CipherAssumption, ByteSize

\* Some bytes.
LEMMA SomeBytes ==
  0 \in Bytes /\ 1 \in Bytes /\ 2 \in Bytes /\ Top \in Bytes /\ Rb \in Bytes
BY CipherSizes, CipherAssumption DEF CipherAssumption, Bytes

\* Exclusive or, as the library has it.
LEMMA XorTypes ==
  ASSUME NEW a \in Bytes, NEW b \in Bytes
  PROVE  Xor(a, b) \in Bytes /\ Xor(Xor(a, b), b) = a
BY CipherAssumption DEF CipherAssumption

\* The bytes of a block.
LEMMA BytesOfBlock ==
  ASSUME NEW b \in Blocks
  PROVE  /\ b = [i \in 1..BlockLen |-> b[i]]
         /\ \A i \in 1..BlockLen : b[i] \in Bytes /\ b[i] \in 0..(ByteSize - 1)
BY DEF Blocks, Bytes

\* The places by their recursion.
LEMMA PlaceSteps ==
  /\ \A i \in 0..BlockLen : Place[i] \in Nat \ {0}
  /\ Place[0] = 1
  /\ \A i \in 1..BlockLen : Place[i] = ByteSize * Place[i - 1]
<1> DEFINE step == [i \in 1..BlockLen |-> [y \in Nat \ {0} |-> ByteSize * y]]
           Loop(f) == f = [i \in 0..BlockLen |-> IF i = 0 THEN 1 ELSE ByteSize * f[i - 1]]
<1>1. Turns(step, BlockLen, Nat \ {0})
  <2>1. ASSUME NEW y \in Nat \ {0} PROVE ByteSize * y \in Nat \ {0}
    BY CipherSizes
  <2> QED
    BY <2>1 DEF Turns
<1>2. PICK f : /\ f \in [0..BlockLen -> Nat \ {0}] /\ f[0] = 1
               /\ \A i \in 1..BlockLen : f[i] = step[i][f[i - 1]]
  <2>1. BlockLen \in Nat /\ 1 \in Nat \ {0}
    BY CipherSizes
  <2> HIDE DEF step
  <2>2. \E f : IsRun(f, BlockLen, Nat \ {0}, 1, step)
    BY <1>1, <2>1, Iterated
  <2> QED
    BY <2>2 DEF IsRun
<1>3. ASSUME NEW i \in 1..BlockLen PROVE f[i] = ByteSize * f[i - 1]
  <2>1. i - 1 \in 0..BlockLen
    BY CipherSizes
  <2>2. f[i - 1] \in Nat \ {0}
    BY <1>2, <2>1
  <2> QED
    BY <1>2, <2>2
<1>4. Loop(f)
  <2> DEFINE h == [i \in 0..BlockLen |-> IF i = 0 THEN 1 ELSE ByteSize * f[i - 1]]
  <2>1. ASSUME NEW i \in 0..BlockLen PROVE f[i] = h[i]
    <3>1. i # 0 => i \in 1..BlockLen
      BY CipherSizes
    <3> QED
      BY <1>2, <1>3, <3>1
  <2>2. f = [i \in 0..BlockLen |-> f[i]] /\ h = [i \in 0..BlockLen |-> h[i]]
    BY <1>2
  <2> HIDE DEF h
  <2>3. f = h
    BY <2>1, <2>2
  <2> QED
    BY <2>3 DEF h
<1>5. Loop(Place)
  BY <1>4 DEF Place
<1>6. Place[0] = 1 /\ \A i \in 1..BlockLen : Place[i] = ByteSize * Place[i - 1]
  BY <1>5, CipherSizes
<1> DEFINE T == {m \in Nat : m \in 0..BlockLen => Place[m] \in Nat \ {0}}
<1>7. 0 \in T
  BY <1>6
<1>8. ASSUME NEW m \in T PROVE m + 1 \in T
  <2>1. SUFFICES ASSUME m + 1 \in 0..BlockLen PROVE Place[m + 1] \in Nat \ {0}
    OBVIOUS
  <2> DEFINE j == m + 1
  <2>2. m \in 0..BlockLen /\ j \in 1..BlockLen /\ j - 1 = m
    BY <2>1, CipherSizes
  <2> HIDE DEF j
  <2>3. Place[j] = ByteSize * Place[m] /\ Place[m] \in Nat \ {0}
    BY <1>6, <2>2
  <2>4. Place[j] \in Nat \ {0}
    BY <2>3, CipherSizes
  <2> QED
    BY <2>4 DEF j
<1>9. T = Nat
  <2>1. T \in SUBSET Nat
    OBVIOUS
  <2> HIDE DEF T
  <2> QED
    BY <1>7, <1>8, <2>1, SetInduction
<1>10. \A i \in 0..BlockLen : Place[i] \in Nat \ {0}
  BY <1>9, CipherSizes
<1> QED
  BY <1>6, <1>10

\* The sums of the bytes of a block, the highest first.
AddsUp(sum, b) ==
  /\ sum[0] = 0
  /\ \A i \in 1..BlockLen : sum[i] = ByteSize * sum[i - 1] + b[i]
  /\ \A i \in 0..BlockLen : sum[i] \in Nat

\* Number is the last of such sums.
LEMMA NumberSteps ==
  ASSUME NEW b \in Blocks
  PROVE  \E sum : AddsUp(sum, b) /\ Number(b) = sum[BlockLen]
<1> DEFINE step == [i \in 1..BlockLen |-> [y \in Nat |-> ByteSize * y + b[i]]]
           Loop(f) == f = [i \in 0..BlockLen |-> IF i = 0 THEN 0 ELSE ByteSize * f[i - 1] + b[i]]
<1>1. ASSUME NEW i \in 1..BlockLen, NEW y \in Nat PROVE ByteSize * y + b[i] \in Nat
  BY BytesOfBlock, CipherSizes
<1>2. Turns(step, BlockLen, Nat)
  BY <1>1 DEF Turns
<1>3. PICK f : /\ f \in [0..BlockLen -> Nat] /\ f[0] = 0
               /\ \A i \in 1..BlockLen : f[i] = step[i][f[i - 1]]
  <2>1. BlockLen \in Nat /\ 0 \in Nat
    BY CipherSizes
  <2> HIDE DEF step
  <2>2. \E f : IsRun(f, BlockLen, Nat, 0, step)
    BY <1>2, <2>1, Iterated
  <2> QED
    BY <2>2 DEF IsRun
<1>4. ASSUME NEW i \in 1..BlockLen PROVE f[i] = ByteSize * f[i - 1] + b[i]
  <2>1. i - 1 \in 0..BlockLen
    BY CipherSizes
  <2>2. f[i - 1] \in Nat
    BY <1>3, <2>1
  <2> QED
    BY <1>3, <2>2
<1>5. Loop(f)
  <2> DEFINE h == [i \in 0..BlockLen |-> IF i = 0 THEN 0 ELSE ByteSize * f[i - 1] + b[i]]
  <2>1. ASSUME NEW i \in 0..BlockLen PROVE f[i] = h[i]
    <3>1. i # 0 => i \in 1..BlockLen
      BY CipherSizes
    <3> QED
      BY <1>3, <1>4, <3>1
  <2>2. f = [i \in 0..BlockLen |-> f[i]] /\ h = [i \in 0..BlockLen |-> h[i]]
    BY <1>3
  <2> HIDE DEF h
  <2>3. f = h
    BY <2>1, <2>2
  <2> QED
    BY <2>3 DEF h
<1> DEFINE sum == CHOOSE g : Loop(g)
<1>6. Loop(sum)
  BY <1>5
<1>7. Number(b) = sum[BlockLen]
  BY DEF Number
<1> HIDE DEF sum
<1>8. sum[0] = 0 /\ \A i \in 1..BlockLen : sum[i] = ByteSize * sum[i - 1] + b[i]
  BY <1>6, CipherSizes
<1> DEFINE T == {m \in Nat : m \in 0..BlockLen => sum[m] \in Nat}
<1>9. 0 \in T
  BY <1>8
<1>10. ASSUME NEW m \in T PROVE m + 1 \in T
  <2>1. SUFFICES ASSUME m + 1 \in 0..BlockLen PROVE sum[m + 1] \in Nat
    OBVIOUS
  <2> DEFINE j == m + 1
  <2>2. m \in 0..BlockLen /\ j \in 1..BlockLen /\ j - 1 = m
    BY <2>1, CipherSizes
  <2> HIDE DEF j
  <2>3. sum[j] = ByteSize * sum[m] + b[j] /\ sum[m] \in Nat
    BY <1>8, <2>2
  <2>4. sum[j] \in Nat
    BY <1>1, <2>2, <2>3
  <2> QED
    BY <2>4 DEF j
<1>11. T = Nat
  <2>1. T \in SUBSET Nat
    OBVIOUS
  <2> HIDE DEF T
  <2> QED
    BY <1>9, <1>10, <2>1, SetInduction
<1>12. \A i \in 0..BlockLen : sum[i] \in Nat
  BY <1>11, CipherSizes
<1> HIDE DEF Loop
<1>13. AddsUp(sum, b)
  BY <1>8, <1>12 DEF AddsUp
<1> QED
  BY <1>7, <1>13

\* The first k bytes count for less than the place before them.
LEMMA NumberBelow ==
  ASSUME NEW b \in Blocks, NEW sum, AddsUp(sum, b), NEW k \in 0..BlockLen
  PROVE  sum[k] \in 0..(Place[k] - 1)
<1> DEFINE T == {m \in Nat : m \in 0..BlockLen => sum[m] \in 0..(Place[m] - 1)}
<1>1. 0 \in T
  BY PlaceSteps DEF AddsUp
<1>2. ASSUME NEW m \in T PROVE m + 1 \in T
  <2>1. SUFFICES ASSUME m + 1 \in 0..BlockLen PROVE sum[m + 1] \in 0..(Place[m + 1] - 1)
    OBVIOUS
  <2> DEFINE j == m + 1
  <2>2. m \in 0..BlockLen /\ j \in 1..BlockLen /\ j - 1 = m
    BY <2>1, CipherSizes
  <2> HIDE DEF j
  <2>3. sum[j] = ByteSize * sum[m] + b[j] /\ sum[m] \in 0..(Place[m] - 1)
    BY <2>2 DEF AddsUp
  <2>4. Place[j] = ByteSize * Place[m] /\ Place[m] \in Nat
    BY <2>2, PlaceSteps
  <2>5. b[j] \in 0..(ByteSize - 1) /\ ByteSize \in Nat
    BY <2>2, BytesOfBlock, CipherSizes
  <2> DEFINE s == sum[m]
             p == Place[m]
             d == b[j]
  <2>6. s \in 0..(p - 1) /\ p \in Nat /\ d \in 0..(ByteSize - 1)
    BY <2>3, <2>4, <2>5
  <2> HIDE DEF s, p, d
  <2>7. s * ByteSize + d \in 0..(p * ByteSize - 1)
    BY <2>5, <2>6, Prefixed
  <2>8. s * ByteSize = ByteSize * s /\ p * ByteSize = ByteSize * p
    BY <2>5, <2>6
  <2>9. sum[j] = ByteSize * s + d /\ Place[j] = ByteSize * p
    BY <2>3, <2>4 DEF s, p, d
  <2>10. sum[j] \in 0..(Place[j] - 1)
    BY <2>7, <2>8, <2>9
  <2> QED
    BY <2>10 DEF j
<1>3. T = Nat
  <2>1. T \in SUBSET Nat
    OBVIOUS
  <2> HIDE DEF T
  <2> QED
    BY <1>1, <1>2, <2>1, SetInduction
<1> QED
  BY <1>3, CipherSizes

\* A number has a block.
LEMMA BlockTyped ==
  ASSUME NEW n \in Nat
  PROVE  Block(n) \in Blocks
<1>1. ASSUME NEW i \in 1..BlockLen
      PROVE  (n \div Place[BlockLen - i]) % ByteSize \in 0..(ByteSize - 1)
  <2> DEFINE j == BlockLen - i
             p == Place[j]
             q == n \div p
  <2>1. j \in 0..BlockLen
    BY CipherSizes
  <2> HIDE DEF j
  <2>2. p \in Nat \ {0}
    BY <2>1, PlaceSteps
  <2> HIDE DEF p
  <2>3. q \in Nat
    BY <2>2, DivMod
  <2>4. ByteSize \in Nat \ {0}
    BY CipherSizes
  <2> HIDE DEF q
  <2>5. q % ByteSize \in 0..(ByteSize - 1)
    BY <2>3, <2>4, DivMod
  <2> QED
    BY <2>5 DEF q, p, j
<1> QED
  BY <1>1 DEF Block, Blocks, Bytes

\* The last j bytes count for less than the place before them.
LEMMA NumberCut ==
  ASSUME NEW b \in Blocks, NEW sum, AddsUp(sum, b), NEW k \in 0..BlockLen
  PROVE  \E r \in 0..(Place[k] - 1) : sum[BlockLen] = sum[BlockLen - k] * Place[k] + r
<1> DEFINE Cut(m) == \E r \in 0..(Place[m] - 1) :
                        sum[BlockLen] = sum[BlockLen - m] * Place[m] + r
           T == {m \in Nat : m \in 0..BlockLen => Cut(m)}
<1>1. 0 \in T
  <2>1. /\ BlockLen - 0 = BlockLen /\ BlockLen \in 0..BlockLen
        /\ 0 \in 0..(Place[0] - 1) /\ Place[0] = 1
    BY CipherSizes, PlaceSteps
  <2>2. sum[BlockLen] \in Nat
    BY <2>1 DEF AddsUp
  <2>3. sum[BlockLen] = sum[BlockLen - 0] * Place[0] + 0
    BY <2>1, <2>2
  <2>4. Cut(0)
    BY <2>1, <2>3
  <2> QED
    BY <2>4
<1>2. ASSUME NEW m \in T PROVE m + 1 \in T
  <2>1. SUFFICES ASSUME m + 1 \in 0..BlockLen PROVE Cut(m + 1)
    OBVIOUS
  <2> DEFINE j == m + 1
             e == BlockLen - j
             g == BlockLen - m
  <2>2. /\ m \in 0..BlockLen /\ j \in 1..BlockLen /\ j \in 0..BlockLen /\ j - 1 = m
        /\ e \in 0..BlockLen /\ g \in 1..BlockLen /\ g \in 0..BlockLen /\ g - 1 = e
    BY <2>1, CipherSizes
  <2>3. PICK r \in 0..(Place[m] - 1) : sum[BlockLen] = sum[g] * Place[m] + r
    BY <2>2
  <2> HIDE DEF j, e, g
  <2>4. sum[g] = ByteSize * sum[e] + b[g] /\ sum[e] \in Nat
    BY <2>2 DEF AddsUp
  <2>5. Place[j] = ByteSize * Place[m] /\ Place[m] \in Nat
    BY <2>2, PlaceSteps
  <2>6. b[g] \in 0..(ByteSize - 1) /\ ByteSize \in Nat
    BY <2>2, BytesOfBlock, CipherSizes
  <2> DEFINE s == sum[e]
             p == Place[m]
             d == b[g]
             rest == d * p + r
  <2>7. s \in Nat /\ p \in Nat /\ d \in 0..(ByteSize - 1) /\ r \in 0..(p - 1)
    BY <2>3, <2>4, <2>5, <2>6
  <2>8. /\ sum[BlockLen] = sum[g] * p + r /\ sum[g] = ByteSize * s + d
        /\ Place[j] = ByteSize * p
    BY <2>3, <2>4, <2>5
  <2> HIDE DEF s, p, d
  <2>9. rest \in 0..(ByteSize * p - 1)
    BY <2>6, <2>7, Prefixed
  <2>10. (ByteSize * s + d) * p + r = s * (ByteSize * p) + rest
    BY <2>6, <2>7
  <2> HIDE DEF rest
  <2>11. rest \in 0..(Place[j] - 1) /\ sum[BlockLen] = s * Place[j] + rest
    BY <2>8, <2>9, <2>10
  <2> QED
    BY <2>11 DEF s, e, j
<1>3. T = Nat
  <2>1. T \in SUBSET Nat
    OBVIOUS
  <2> HIDE DEF T
  <2> QED
    BY <1>1, <1>2, <2>1, SetInduction
<1> QED
  BY <1>3, CipherSizes

\* The number of a block is below what a block counts, and its block is that one.
LEMMA BlockOfNumber ==
  ASSUME NEW b \in Blocks
  PROVE  /\ Number(b) \in 0..(Place[BlockLen] - 1)
         /\ Block(Number(b)) = b
<1>1. PICK sum : AddsUp(sum, b) /\ Number(b) = sum[BlockLen]
  BY NumberSteps
<1>2. Number(b) \in 0..(Place[BlockLen] - 1)
  <2>1. BlockLen \in 0..BlockLen
    BY CipherSizes
  <2> QED
    BY <1>1, <2>1, NumberBelow
<1>3. ASSUME NEW i \in 1..BlockLen
      PROVE  (Number(b) \div Place[BlockLen - i]) % ByteSize = b[i]
  <2> DEFINE k == BlockLen - i
             p == Place[k]
             n == Number(b)
             s == sum[i - 1]
             d == b[i]
  <2>1. k \in 0..BlockLen /\ BlockLen - k = i /\ i - 1 \in 0..BlockLen /\ i \in 0..BlockLen
    BY CipherSizes
  <2> HIDE DEF k
  <2>2. PICK r \in 0..(p - 1) : n = sum[i] * p + r
    BY <1>1, <2>1, NumberCut
  <2>3. p \in Nat \ {0} /\ sum[i] \in Nat /\ s \in Nat /\ sum[i] = ByteSize * s + d
    BY <1>1, <2>1, PlaceSteps DEF AddsUp
  <2>4. d \in 0..(ByteSize - 1) /\ ByteSize \in Nat \ {0}
    BY BytesOfBlock, CipherSizes
  <2> HIDE DEF p, s, d, n
  <2> DEFINE t == sum[i]
  <2>5. t \in Nat /\ n = t * p + r
    BY <2>2, <2>3
  <2> HIDE DEF t
  <2>6. t * p = p * t
    BY <2>3, <2>5
  <2>7. (p * t + r) \div p = t
    BY <2>2, <2>3, <2>5, Quotient
  <2>8. (ByteSize * s + d) % ByteSize = d
    BY <2>3, <2>4, Quotient
  <2>9. n \div p = t /\ t % ByteSize = d
    BY <2>3, <2>5, <2>6, <2>7, <2>8 DEF t
  <2> QED
    BY <2>9 DEF n, p, k, d
<1>4. Block(Number(b)) = [i \in 1..BlockLen |-> b[i]]
  BY <1>3 DEF Block
<1> QED
  BY <1>2, <1>4, BytesOfBlock

\* Twice a byte: its top bit is the carry.
LEMMA Carry ==
  ASSUME NEW d \in 0..(ByteSize - 1)
  PROVE  /\ d \div Top = IF d >= Top THEN 1 ELSE 0
         /\ (2 * d) % ByteSize \in 0..(ByteSize - 2)
         /\ 2 * d = ByteSize * (d \div Top) + ((2 * d) % ByteSize)
<1> DEFINE z == ByteSize
           t == Top
<1>0. t \in Nat \ {0} /\ z \in Nat \ {0} /\ z = 2 * t /\ d \in 0..(z - 1)
  BY CipherSizes
<1> HIDE DEF z, t
<1>1. CASE d >= t
  <2> DEFINE e == d - t
             f == 2 * e
  <2>1. e \in 0..(t - 1) /\ f \in 0..(z - 1) /\ f \in 0..(z - 2) /\ 1 \in Nat
    BY <1>0, <1>1
  <2>2. t * 1 + e = d /\ z * 1 + f = 2 * d
    BY <1>0
  <2> HIDE DEF e, f
  <2>3. (t * 1 + e) \div t = 1 /\ (z * 1 + f) % z = f
    BY <1>0, <2>1, Quotient
  <2>4. d \div t = 1 /\ (2 * d) % z = f
    <3>1. d \div t = 1
      BY <2>2, <2>3
    <3> DEFINE w == 2 * d
    <3>2. z * 1 + f = w
      BY <2>2
    <3> HIDE DEF w
    <3>3. w % z = f
      BY <2>3, <3>2
    <3> QED
      BY <3>1, <3>3 DEF w
  <2> QED
    <3>1. /\ d \div t = IF d >= t THEN 1 ELSE 0
          /\ (2 * d) % z \in 0..(z - 2)
      BY <1>1, <2>1, <2>4
    <3>2. 2 * d = z * (d \div t) + ((2 * d) % z)
      BY <2>2, <2>4
    <3> QED
      BY <3>1, <3>2 DEF z, t
<1>2. CASE ~(d >= t)
  <2> DEFINE f == 2 * d
  <2>1. d \in 0..(t - 1) /\ f \in 0..(z - 1) /\ f \in 0..(z - 2) /\ 0 \in Nat
    BY <1>0, <1>2
  <2>2. t * 0 + d = d /\ z * 0 + f = f
    BY <1>0
  <2> HIDE DEF f
  <2>3. (t * 0 + d) \div t = 0 /\ (z * 0 + f) % z = f
    BY <1>0, <2>1, Quotient
  <2>4. d \div t = 0 /\ f % z = f
    BY <2>2, <2>3
  <2>5. (2 * d) % z = f /\ 2 * d = f
    BY <2>4 DEF f
  <2> QED
    BY <1>0, <1>2, <2>1, <2>2, <2>4, <2>5 DEF z, t
<1> QED
  BY <1>1, <1>2

\* Shifted by one bit, a block is one again.
LEMMA ShiftTyped ==
  ASSUME NEW b \in Blocks
  PROVE  ShiftLeft(b) \in Blocks
<1> DEFINE c(i) == IF i < BlockLen THEN b[i + 1] \div Top ELSE 0
           s(i) == ((2 * b[i]) % ByteSize) + c(i)
<1>1. ASSUME NEW i \in 1..BlockLen PROVE s(i) \in Bytes
  <2>1. (2 * b[i]) % ByteSize \in 0..(ByteSize - 2)
    BY BytesOfBlock, Carry
  <2>2. c(i) \in 0..1
    <3>1. CASE i < BlockLen
      <4> DEFINE j == i + 1
      <4>1. j \in 1..BlockLen
        BY <3>1, CipherSizes
      <4> HIDE DEF j
      <4>2. b[j] \div Top \in 0..1
        <5>1. b[j] \div Top = IF b[j] >= Top THEN 1 ELSE 0
          BY <4>1, BytesOfBlock, Carry
        <5> QED
          BY <5>1
      <4> QED
        BY <3>1, <4>2 DEF j
    <3>2. CASE ~(i < BlockLen)
      BY <3>2
    <3> QED
      BY <3>1, <3>2
  <2> DEFINE x == (2 * b[i]) % ByteSize
             y == c(i)
  <2>3. x \in 0..(ByteSize - 2) /\ y \in 0..1
    BY <2>1, <2>2
  <2> HIDE DEF x, y
  <2>4. x + y \in 0..(ByteSize - 1)
    BY <2>3, CipherSizes
  <2> QED
    BY <2>4 DEF x, y, Bytes
<1>2. ShiftLeft(b) = [i \in 1..BlockLen |-> s(i)]
  BY DEF ShiftLeft
<1> HIDE DEF s
<1> QED
  BY <1>1, <1>2 DEF Blocks

\* Twice the number of a block is that of the shifted one, and the carry out of it.
LEMMA ShiftNumber ==
  ASSUME NEW b \in Blocks
  PROVE  2 * Number(b) = (b[1] \div Top) * Place[BlockLen] + Number(ShiftLeft(b))
<1> DEFINE u == ShiftLeft(b)
           c == b[1] \div Top
           carry(i) == IF i < BlockLen THEN b[i + 1] \div Top ELSE 0
<1>1. u \in Blocks
  BY ShiftTyped
<1>2. PICK sum : AddsUp(sum, b) /\ Number(b) = sum[BlockLen]
  BY NumberSteps
<1>3. PICK shifted : AddsUp(shifted, u) /\ Number(u) = shifted[BlockLen]
  <2> HIDE DEF u
  <2> QED
    BY <1>1, NumberSteps
<1>4. ASSUME NEW i \in 1..BlockLen PROVE u[i] = ((2 * b[i]) % ByteSize) + carry(i)
  BY DEF ShiftLeft
<1>5. ASSUME NEW i \in 1..BlockLen PROVE b[i] \div Top \in 0..1
  <2>1. b[i] \div Top = IF b[i] >= Top THEN 1 ELSE 0
    BY BytesOfBlock, Carry
  <2> QED
    BY <2>1
<1>6. c \in 0..1
  <2>1. 1 \in 1..BlockLen
    BY CipherSizes
  <2> QED
    BY <1>5, <2>1
<1>7. ASSUME NEW i \in 0..BlockLen PROVE carry(i) \in 0..1
  <2>1. CASE i < BlockLen
    <3> DEFINE j == i + 1
    <3>1. j \in 1..BlockLen
      BY <2>1, CipherSizes
    <3> HIDE DEF j
    <3>2. b[j] \div Top \in 0..1
      BY <1>5, <3>1
    <3> QED
      BY <2>1, <3>2 DEF j
  <2>2. CASE ~(i < BlockLen)
    BY <2>2
  <2> QED
    BY <2>1, <2>2
<1> HIDE DEF u
<1> DEFINE Twice(m) == 2 * sum[m] + carry(m) = c * Place[m] + shifted[m]
           T == {m \in Nat : m \in 0..BlockLen => Twice(m)}
<1>8. 0 \in T
  <2>1. /\ sum[0] = 0 /\ shifted[0] = 0 /\ Place[0] = 1 /\ 0 < BlockLen
    BY <1>2, <1>3, PlaceSteps, CipherSizes DEF AddsUp
  <2>2. carry(0) = c
    BY <2>1
  <2> HIDE DEF carry, c
  <2>3. Twice(0)
    BY <1>6, <2>1, <2>2
  <2> QED
    BY <2>3
<1>9. ASSUME NEW m \in T PROVE m + 1 \in T
  <2>1. SUFFICES ASSUME m + 1 \in 0..BlockLen PROVE Twice(m + 1)
    OBVIOUS
  <2> DEFINE j == m + 1
  <2>2. m \in 0..BlockLen /\ j \in 1..BlockLen /\ j \in 0..BlockLen /\ j - 1 = m /\ m < BlockLen
    BY <2>1, CipherSizes
  <2>3. carry(m) = b[j] \div Top
    BY <2>2
  <2>4. Twice(m)
    BY <2>2
  <2> HIDE DEF j
  <2>5. sum[j] = ByteSize * sum[m] + b[j] /\ sum[m] \in Nat
    BY <1>2, <2>2 DEF AddsUp
  <2>6. shifted[j] = ByteSize * shifted[m] + u[j] /\ shifted[m] \in Nat
    BY <1>3, <2>2 DEF AddsUp
  <2>7. Place[j] = ByteSize * Place[m] /\ Place[m] \in Nat
    BY <2>2, PlaceSteps
  <2>8. u[j] = ((2 * b[j]) % ByteSize) + carry(j)
    BY <1>4, <2>2
  <2>9. /\ b[j] \in Nat /\ (2 * b[j]) % ByteSize \in Nat
        /\ 2 * b[j] = ByteSize * (b[j] \div Top) + ((2 * b[j]) % ByteSize)
    <3>1. b[j] \in 0..(ByteSize - 1)
      BY <2>2, BytesOfBlock
    <3>2. /\ (2 * b[j]) % ByteSize \in 0..(ByteSize - 2)
          /\ 2 * b[j] = ByteSize * (b[j] \div Top) + ((2 * b[j]) % ByteSize)
      BY <3>1, Carry
    <3> QED
      BY <3>1, <3>2, CipherSizes
  <2>10. carry(m) \in Nat /\ carry(j) \in Nat /\ c \in Nat
    BY <1>6, <1>7, <2>2
  <2> DEFINE z == ByteSize
             s == sum[m]
             t == shifted[m]
             p == Place[m]
             d == b[j]
             f == (2 * b[j]) % ByteSize
             cm == carry(m)
             cj == carry(j)
  <2>11. /\ z \in Nat /\ s \in Nat /\ t \in Nat /\ p \in Nat /\ d \in Nat /\ f \in Nat
         /\ cm \in Nat /\ cj \in Nat /\ c \in Nat
    BY <2>5, <2>6, <2>7, <2>9, <2>10, CipherSizes
  <2>12. 2 * s + cm = c * p + t
    <3> HIDE DEF c, carry
    <3> QED
      BY <2>4
  <2>13. 2 * d = z * cm + f
    BY <2>3, <2>9
  <2>14. sum[j] = z * s + d /\ shifted[j] = z * t + (f + cj) /\ Place[j] = z * p
    BY <2>5, <2>6, <2>7, <2>8
  <2> HIDE DEF z, s, t, p, d, f, cm, cj, c, carry
  <2>15. z * (2 * s + cm) = z * (c * p + t)
    BY <2>12
  <2>16. z * (2 * s + cm) = 2 * (z * s) + z * cm /\ z * (c * p + t) = c * (z * p) + z * t
    BY <2>11
  <2> DEFINE zs == z * s
             zcm == z * cm
             czp == c * (z * p)
             zt == z * t
  <2>17. zs \in Nat /\ zcm \in Nat /\ czp \in Nat /\ zt \in Nat
    BY <2>11
  <2>18. 2 * zs + zcm = czp + zt /\ 2 * d = zcm + f
    BY <2>13, <2>15, <2>16
  <2>19. sum[j] = zs + d /\ shifted[j] = zt + (f + cj) /\ c * Place[j] = czp
    BY <2>14
  <2> HIDE DEF zs, zcm, czp, zt
  <2>20. 2 * (zs + d) + cj = czp + (zt + (f + cj))
    BY <2>11, <2>17, <2>18
  <2>21. 2 * sum[j] + cj = c * Place[j] + shifted[j]
    BY <2>19, <2>20
  <2> QED
    BY <2>21 DEF cj, j
<1>10. T = Nat
  <2>1. T \in SUBSET Nat
    OBVIOUS
  <2> HIDE DEF T
  <2> QED
    BY <1>8, <1>9, <2>1, SetInduction
<1>11. BlockLen \in Nat /\ BlockLen \in 0..BlockLen /\ ~(BlockLen < BlockLen)
  BY CipherSizes
<1>12. Twice(BlockLen) /\ carry(BlockLen) = 0
  BY <1>10, <1>11
<1> HIDE DEF carry, c
<1>13. 2 * sum[BlockLen] = c * Place[BlockLen] + shifted[BlockLen]
  <2>1. sum[BlockLen] \in Nat
    BY <1>2, <1>11 DEF AddsUp
  <2>2. 2 * sum[BlockLen] + 0 = 2 * sum[BlockLen]
    BY <2>1
  <2> QED
    BY <1>12, <2>2
<1> QED
  BY <1>2, <1>3, <1>13 DEF c, u

\* Exclusive or of blocks is a block, and looks at their bytes alone.
LEMMA XorBlocksTyped ==
  ASSUME NEW a, NEW b,
         \A i \in 1..BlockLen : a[i] \in Bytes, \A i \in 1..BlockLen : b[i] \in Bytes
  PROVE  XorBlocks(a, b) \in Blocks
<1>1. \A i \in 1..BlockLen : Xor(a[i], b[i]) \in Bytes
  BY XorTypes
<1> QED
  BY <1>1 DEF XorBlocks, Blocks

\* The same, for blocks.
LEMMA XorOfBlocks ==
  ASSUME NEW a \in Blocks, NEW b \in Blocks
  PROVE  XorBlocks(a, b) \in Blocks
BY BytesOfBlock, XorBlocksTyped

\* A block of zeros but for its last byte.
LEMMA LastByteIs ==
  ASSUME NEW d \in Bytes
  PROVE  /\ LastByte(d) \in Blocks
         /\ LastByte(d) = [i \in 1..BlockLen |-> IF i = BlockLen THEN d ELSE 0]
<1>1. LastByte(d) = [i \in 1..BlockLen |-> IF i = BlockLen THEN d ELSE 0]
  BY DEF LastByte, ZeroBlock
<1>2. \A i \in 1..BlockLen : (IF i = BlockLen THEN d ELSE 0) \in Bytes
  BY SomeBytes
<1> QED
  BY <1>1, <1>2 DEF Blocks

\* It is the block of that byte.
LEMMA BlockOfByte ==
  ASSUME NEW d \in Bytes
  PROVE  Block(d) = LastByte(d)
<1>1. d \in 0..(ByteSize - 1) /\ ByteSize \in Nat \ {0}
  BY CipherSizes DEF Bytes
<1>2. ASSUME NEW i \in 1..BlockLen
      PROVE  (d \div Place[BlockLen - i]) % ByteSize = IF i = BlockLen THEN d ELSE 0
  <2>1. CASE i = BlockLen
    <3>1. BlockLen - i = 0
      BY <2>1, CipherSizes
    <3>2. Place[BlockLen - i] = 1
      BY <3>1, PlaceSteps
    <3>3. d \div 1 = d
      BY <1>1
    <3>4. d % ByteSize = d
      <4>1. d \in Nat /\ d < ByteSize
        BY <1>1
      <4> QED
        BY <1>1, <4>1, DivMod
    <3> QED
      BY <2>1, <3>2, <3>3, <3>4
  <2>2. CASE i # BlockLen
    <3> DEFINE k == BlockLen - i
               p == Place[k]
               q == Place[k - 1]
    <3>1. k \in 1..BlockLen /\ k - 1 \in 0..BlockLen /\ k \in 0..BlockLen
      BY <2>2, CipherSizes
    <3> HIDE DEF k
    <3>2. p = ByteSize * q /\ q \in Nat \ {0} /\ p \in Nat \ {0}
      BY <3>1, PlaceSteps
    <3> HIDE DEF p, q
    <3>3. d \in 0..(p - 1)
      <4> DEFINE e == q - 1
      <4>1. e \in Nat /\ q = e + 1
        BY <3>2
      <4> HIDE DEF e
      <4>2. p = ByteSize * e + ByteSize /\ ByteSize * e \in Nat
        BY <1>1, <3>2, <4>1
      <4> QED
        BY <1>1, <4>2
    <3>4. (p * 0 + d) \div p = 0
      BY <3>2, <3>3, Quotient
    <3>5. p * 0 + d = d
      BY <1>1, <3>2
    <3>6. d \div p = 0 /\ 0 % ByteSize = 0
      BY <1>1, <3>4, <3>5
    <3> QED
      BY <2>2, <3>6 DEF p, k
  <2> QED
    BY <2>1, <2>2
<1> QED
  BY <1>2, LastByteIs DEF Block

\* The block of zero is that of zeros.
LEMMA ZeroIs ==
  ZeroBlock \in Blocks /\ Block(0) = ZeroBlock
<1>1. 0 \in Bytes
  BY SomeBytes
<1>2. Block(0) = [i \in 1..BlockLen |-> IF i = BlockLen THEN 0 ELSE 0]
  BY <1>1, BlockOfByte, LastByteIs
<1>3. Block(0) = ZeroBlock
  BY <1>2 DEF ZeroBlock
<1> QED
  BY <1>1, <1>3, BlockOfByte, LastByteIs

\* A subkey is a block, and that of the standard.
LEMMA SubkeyDoubles ==
  ASSUME NEW b \in Blocks
  PROVE  Subkey(b) \in Blocks /\ Double(b) = Subkey(b)
<1> DEFINE u == ShiftLeft(b)
           c == b[1] \div Top
           p == Place[BlockLen]
           t == Number(u)
           n == 2 * Number(b)
<1>1. u \in Blocks /\ LastByte(Rb) \in Blocks /\ Block(Rb) = LastByte(Rb)
  BY ShiftTyped, SomeBytes, LastByteIs, BlockOfByte
<1>2. p \in Nat \ {0}
  <2>1. BlockLen \in 0..BlockLen
    BY CipherSizes
  <2> QED
    BY <2>1, PlaceSteps
<1>3. t \in 0..(p - 1) /\ Block(t) = u
  <2> HIDE DEF u
  <2> QED
    BY <1>1, BlockOfNumber
<1>4. c = IF b[1] >= Top THEN 1 ELSE 0
  <2>1. b[1] \in 0..(ByteSize - 1)
    BY BytesOfBlock, CipherSizes
  <2> QED
    BY <2>1, Carry
<1>5. n = c * p + t
  BY ShiftNumber
<1>6. Double(b) = IF n < p THEN Block(n % p) ELSE XorBlocks(Block(n % p), Block(Rb))
  BY DEF Double
<1>7. Subkey(b) = IF b[1] >= Top THEN XorBlocks(u, LastByte(Rb)) ELSE u
  BY DEF Subkey
<1> HIDE DEF u, p, t, n
<1>8. n % p = t /\ (n < p <=> ~(b[1] >= Top))
  <2>1. CASE b[1] >= Top
    <3>1. n = p * 1 + t /\ 1 \in Nat
      BY <1>2, <1>3, <1>4, <1>5, <2>1
    <3>2. (p * 1 + t) % p = t
      BY <1>2, <1>3, Quotient
    <3>3. ~(n < p)
      BY <1>2, <1>3, <3>1
    <3> QED
      BY <2>1, <3>1, <3>2, <3>3
  <2>2. CASE ~(b[1] >= Top)
    <3>1. n = t
      <4>1. n = 0 * p + t
        BY <1>4, <1>5, <2>2
      <4> HIDE DEF c
      <4> QED
        BY <1>2, <1>3, <4>1
    <3>2. t \in Nat /\ t < p
      BY <1>2, <1>3
    <3>3. t % p = t
      BY <1>2, <3>2, DivMod
    <3> QED
      BY <2>2, <3>1, <3>2, <3>3
  <2> QED
    BY <2>1, <2>2
<1>9. XorBlocks(u, LastByte(Rb)) \in Blocks
  BY <1>1, XorOfBlocks
<1>10. Double(b) = Subkey(b)
  BY <1>1, <1>3, <1>6, <1>7, <1>8
<1>11. Subkey(b) \in Blocks
  BY <1>1, <1>7, <1>9
<1> QED
  BY <1>10, <1>11

\* Blocks that are chained as CMAC does, each with the cipher text of those before.
IsChain(f, key, blocks, n) ==
  /\ f[0] = ZeroBlock
  /\ \A i \in 1..n : f[i] = AES(key, XorBlocks(f[i - 1], blocks[i]))

AreBlocks(blocks, n) == \A i \in 1..n : \A j \in 1..BlockLen : blocks[i][j] \in Bytes

\* What the cipher makes of a block.
LEMMA CipherTyped ==
  ASSUME NEW key \in Keys, NEW a \in Blocks
  PROVE  AES(key, a) \in Blocks
BY CipherAssumption DEF CipherAssumption

\* A chain grows by a block.
LEMMA LinkTyped ==
  ASSUME NEW key \in Keys, NEW n, NEW blocks, AreBlocks(blocks, n), NEW i \in 1..n,
         NEW y \in Blocks
  PROVE  AES(key, XorBlocks(y, blocks[i])) \in Blocks
<1>1. \A j \in 1..BlockLen : y[j] \in Bytes
  BY BytesOfBlock
<1>2. \A j \in 1..BlockLen : blocks[i][j] \in Bytes
  BY DEF AreBlocks
<1> DEFINE b == blocks[i]
<1> HIDE DEF b
<1>3. XorBlocks(y, b) \in Blocks
  BY <1>1, <1>2, XorBlocksTyped DEF b
<1> QED
  BY <1>3, CipherTyped DEF b

\* All that is in a chain is blocks.
LEMMA ChainTyped ==
  ASSUME NEW key \in Keys, NEW n \in Nat, NEW blocks, AreBlocks(blocks, n),
         NEW f, IsChain(f, key, blocks, n), NEW k \in 0..n
  PROVE  f[k] \in Blocks
<1> DEFINE T == {m \in Nat : m \in 0..n => f[m] \in Blocks}
<1>1. 0 \in T
  BY ZeroIs DEF IsChain
<1>2. ASSUME NEW m \in T PROVE m + 1 \in T
  <2>1. SUFFICES ASSUME m + 1 \in 0..n PROVE f[m + 1] \in Blocks
    OBVIOUS
  <2> DEFINE j == m + 1
  <2>2. m \in 0..n /\ j \in 1..n /\ j - 1 = m
    BY <2>1
  <2> HIDE DEF j
  <2>3. f[m] \in Blocks /\ f[j] = AES(key, XorBlocks(f[m], blocks[j]))
    BY <2>2 DEF IsChain
  <2>4. f[j] \in Blocks
    BY <2>2, <2>3, LinkTyped
  <2> QED
    BY <2>4 DEF j
<1>3. T = Nat
  <2>1. T \in SUBSET Nat
    OBVIOUS
  <2> HIDE DEF T
  <2> QED
    BY <1>1, <1>2, <2>1, SetInduction
<1> QED
  BY <1>3

\* Chains of the same blocks agree.
LEMMA ChainsAgree ==
  ASSUME NEW key, NEW n \in Nat, NEW blocks, NEW others,
         \A i \in 1..n : \A j \in 1..BlockLen : blocks[i][j] = others[i][j],
         NEW f, IsChain(f, key, blocks, n), NEW g, IsChain(g, key, others, n), NEW k \in 0..n
  PROVE  f[k] = g[k]
<1> DEFINE T == {m \in Nat : m \in 0..n => f[m] = g[m]}
<1>1. 0 \in T
  BY DEF IsChain
<1>2. ASSUME NEW m \in T PROVE m + 1 \in T
  <2>1. SUFFICES ASSUME m + 1 \in 0..n PROVE f[m + 1] = g[m + 1]
    OBVIOUS
  <2> DEFINE j == m + 1
  <2>2. m \in 0..n /\ j \in 1..n /\ j - 1 = m
    BY <2>1
  <2> HIDE DEF j
  <2>3. /\ f[m] = g[m]
        /\ f[j] = AES(key, XorBlocks(f[m], blocks[j]))
        /\ g[j] = AES(key, XorBlocks(g[m], others[j]))
    BY <2>2 DEF IsChain
  <2>4. XorBlocks(f[m], blocks[j]) = XorBlocks(g[m], others[j])
    BY <2>2, <2>3 DEF XorBlocks
  <2>5. f[j] = g[j]
    BY <2>3, <2>4
  <2> QED
    BY <2>5 DEF j
<1>3. T = Nat
  <2>1. T \in SUBSET Nat
    OBVIOUS
  <2> HIDE DEF T
  <2> QED
    BY <1>1, <1>2, <2>1, SetInduction
<1> QED
  BY <1>3

\* Blocks can be chained.
LEMMA ChainExists ==
  ASSUME NEW key \in Keys, NEW n \in Nat, NEW blocks, AreBlocks(blocks, n)
  PROVE  \E f \in [0..n -> Blocks] : IsChain(f, key, blocks, n)
<1> DEFINE step == [i \in 1..n |-> [y \in Blocks |-> AES(key, XorBlocks(y, blocks[i]))]]
<1>1. \A i \in 1..n : \A y \in Blocks : AES(key, XorBlocks(y, blocks[i])) \in Blocks
  BY LinkTyped
<1>2. Turns(step, n, Blocks)
  BY <1>1 DEF Turns
<1>3. PICK f : /\ f \in [0..n -> Blocks] /\ f[0] = ZeroBlock
               /\ \A i \in 1..n : f[i] = step[i][f[i - 1]]
  <2> HIDE DEF step
  <2>1. \E f : IsRun(f, n, Blocks, ZeroBlock, step)
    BY <1>2, ZeroIs, Iterated
  <2> QED
    BY <2>1 DEF IsRun
<1>4. ASSUME NEW i \in 1..n PROVE f[i] = AES(key, XorBlocks(f[i - 1], blocks[i]))
  <2>1. i - 1 \in 0..n
    OBVIOUS
  <2>2. f[i - 1] \in Blocks
    BY <1>3, <2>1
  <2> QED
    BY <1>3, <2>2
<1>5. IsChain(f, key, blocks, n)
  BY <1>3, <1>4 DEF IsChain
<1> QED
  BY <1>3, <1>5

-----------------------------------------------------------------------------
(* How data is cut *)

Whole(n) == n # 0 /\ n % BlockLen = 0
Regular(n) == IF Whole(n) THEN (n \div BlockLen) - 1 ELSE n \div BlockLen

\* Of n bytes cmac has one block less before the last than the standard has
\* blocks, and it finds the last one full when the standard does.
LEMMA Cutting ==
  ASSUME NEW n \in Nat
  PROVE  LET count == Max({1, (n + BlockLen - 1) \div BlockLen})
         IN  /\ Regular(n) \in Nat /\ count = Regular(n) + 1
             /\ count * BlockLen = n <=> Whole(n)
             /\ Whole(n) => n = BlockLen * Regular(n) + BlockLen
             /\ ~Whole(n) => n - BlockLen * Regular(n) \in 0..(BlockLen - 1)
<1> DEFINE z == BlockLen
           q == n \div z
           m == n % z
           c == (n + z - 1) \div z
           count == Max({1, c})
<1>1. z \in Nat \ {0}
  BY CipherSizes
<1>2. q \in Nat /\ m \in 0..(z - 1) /\ n = z * q + m
  BY <1>1, DivMod
<1>3. Whole(n) <=> n # 0 /\ m = 0
  BY DEF Whole
<1>4. Regular(n) = IF Whole(n) THEN q - 1 ELSE q
  BY DEF Regular
<1>5. ASSUME NEW k \in Nat \ {0} PROVE Max({1, k}) = k
  BY MaxIs
<1> HIDE DEF z, q, m
<1>6. CASE Whole(n)
  <2>1. q # 0
    <3>1. SUFFICES ASSUME q = 0 PROVE FALSE
      OBVIOUS
    <3>2. z * q = 0
      BY <1>1, <3>1
    <3> QED
      BY <1>2, <1>3, <1>6, <3>2
  <2>2. n = z * q /\ z * q \in Nat
    BY <1>1, <1>2, <1>3, <1>6
  <2>3. c = q
    <3> DEFINE w == n + z - 1
    <3>1. z - 1 \in 0..(z - 1)
      BY <1>1
    <3>2. (z * q + (z - 1)) \div z = q
      BY <1>1, <1>2, <3>1, Quotient
    <3>3. z * q + (z - 1) = w
      BY <1>1, <2>2
    <3> HIDE DEF w
    <3>4. w \div z = q
      BY <3>2, <3>3
    <3> QED
      BY <3>4 DEF w
  <2>4. count = q
    <3> HIDE DEF c
    <3> QED
      BY <1>2, <1>5, <2>1, <2>3
  <2> HIDE DEF c
  <2>5. Regular(n) = q - 1 /\ q - 1 \in Nat
    BY <1>2, <1>4, <1>6, <2>1
  <2>6. q * z = z * q /\ z * q = z * (q - 1) + z
    BY <1>1, <1>2
  <2>7. count * z = n /\ n = z * Regular(n) + z /\ count = Regular(n) + 1
    BY <1>2, <2>2, <2>4, <2>5, <2>6
  <2> QED
    BY <1>6, <2>5, <2>7 DEF z, c
<1>7. CASE ~Whole(n)
  <2>1. c \in 0..q + 1 /\ (c = q + 1 \/ (c = 0 /\ q = 0))
    <3>1. CASE n = 0
      <4> DEFINE w == n + z - 1
      <4>1. z - 1 \in 0..(z - 1) /\ z * 0 + (z - 1) = w /\ z * 0 + 0 = n /\ 0 \in 0..(z - 1)
        BY <1>1, <3>1
      <4>2. (z * 0 + (z - 1)) \div z = 0 /\ (z * 0 + 0) \div z = 0
        BY <1>1, <4>1, Quotient
      <4> HIDE DEF w
      <4>3. w \div z = 0 /\ n \div z = 0
        BY <4>1, <4>2
      <4> QED
        BY <4>3 DEF w, q
    <3>2. CASE n # 0
      <4> DEFINE w == n + z - 1
                 r == m - 1
                 k == q + 1
      <4>1. m # 0
        BY <1>3, <1>7, <3>2
      <4>2. r \in 0..(z - 1) /\ k \in Nat
        BY <1>1, <1>2, <4>1
      <4>3. z * k + r = w
        <5>1. z * k = z * q + z /\ z * q \in Nat
          BY <1>1, <1>2
        <5> QED
          BY <1>1, <1>2, <5>1
      <4> HIDE DEF r, k
      <4>4. (z * k + r) \div z = k
        BY <1>1, <4>2, Quotient
      <4> HIDE DEF w
      <4>5. w \div z = k
        BY <4>3, <4>4
      <4>6. c = q + 1
        BY <4>5 DEF w, k
      <4> HIDE DEF c
      <4> QED
        BY <1>2, <4>6
    <3> QED
      BY <3>1, <3>2
  <2> HIDE DEF c
  <2>2. count = q + 1
    <3>1. CASE c = q + 1
      BY <1>2, <1>5, <3>1
    <3>2. CASE c = 0 /\ q = 0
      <4>1. Max({1, 0}) = 1
        BY MaxIs
      <4> QED
        BY <3>2, <4>1
    <3> QED
      BY <2>1, <3>1, <3>2
  <2> HIDE DEF count
  <2>3. Regular(n) = q
    BY <1>4, <1>7
  <2>4. (q + 1) * z = z * q + z /\ z * q \in Nat
    BY <1>1, <1>2
  <2>5. count * z # n /\ n - z * q \in 0..(z - 1)
    BY <1>1, <1>2, <2>2, <2>4
  <2> QED
    BY <1>2, <1>7, <2>2, <2>3, <2>5 DEF z, count, c
<1> QED
  BY <1>6, <1>7

\* The blocks that cmac takes as they are, and the last one, completed.
RegularBlocks(data) ==
  [n \in 1..Regular(Len(data)) |-> [i \in 1..BlockLen |-> data[BlockLen * (n - 1) + i]]]
LastBlock(data) ==
  LET rem == Len(data) - BlockLen * Regular(Len(data))
  IN  [i \in 1..BlockLen |->
         IF i <= rem THEN data[BlockLen * Regular(Len(data)) + i]
         ELSE IF i = rem + 1 THEN Top ELSE 0]

\* The blocks before the last lie within the data.
LEMMA Inside ==
  ASSUME NEW n \in Nat
  PROVE  /\ BlockLen * Regular(n) \in 0..n /\ n <= BlockLen * Regular(n) + BlockLen
         /\ \A k \in 1..Regular(n) : \A i \in 1..BlockLen :
               BlockLen * (k - 1) + i \in 1..(BlockLen * Regular(n))
<1> DEFINE z == BlockLen
           r == Regular(n)
           zr == z * r
<1>1. z \in Nat \ {0} /\ r \in Nat
  <2>1. r \in Nat
    BY Cutting
  <2> QED
    BY <2>1, CipherSizes
<1>2. zr \in Nat
  BY <1>1
<1>3. (n = zr + z) \/ (n - zr \in 0..(z - 1))
  BY Cutting
<1>4. zr \in 0..n /\ n <= zr + z
  <2> HIDE DEF zr, z
  <2> QED
    BY <1>1, <1>2, <1>3
<1>5. ASSUME NEW k \in 1..r, NEW i \in 1..z
      PROVE  z * (k - 1) + i \in 1..zr
  <2> DEFINE e == r - k
             a == z * (k - 1)
             b == z * e
  <2>1. e \in Nat /\ k - 1 \in Nat /\ r = (k - 1) + 1 + e
    BY <1>1
  <2>2. a \in Nat /\ b \in Nat /\ zr = a + z + b
    <3> DEFINE j == k - 1
    <3>1. j \in Nat /\ r = j + 1 + e
      BY <2>1
    <3> HIDE DEF e, j, r, z
    <3>2. z * (j + 1 + e) = z * j + z + z * e /\ z * j \in Nat /\ z * e \in Nat
      BY <1>1, <2>1, <3>1
    <3> QED
      BY <3>1, <3>2 DEF j
  <2> HIDE DEF a, b, zr
  <2>3. a + i \in 1..zr
    BY <1>1, <2>2
  <2> QED
    BY <2>3 DEF a
<1> QED
  BY <1>4, <1>5

\* They are blocks, and so is the last.
LEMMA DataBlocks ==
  ASSUME NEW data \in Seq(Bytes)
  PROVE  /\ AreBlocks(RegularBlocks(data), Regular(Len(data)))
         /\ \A i \in 1..BlockLen : LastBlock(data)[i] \in Bytes
<1> DEFINE n == Len(data)
           r == Regular(n)
           zr == BlockLen * r
<1>1. n \in Nat /\ \A i \in 1..n : data[i] \in Bytes
  BY LenProperties, ElementOfSeq
<1>2. /\ zr \in 0..n
      /\ \A k \in 1..r : \A i \in 1..BlockLen : BlockLen * (k - 1) + i \in 1..zr
  BY <1>1, Inside
<1>3. ASSUME NEW k \in 1..r, NEW i \in 1..BlockLen
      PROVE  RegularBlocks(data)[k][i] \in Bytes
  <2> DEFINE j == BlockLen * (k - 1) + i
  <2>1. j \in 1..zr
    BY <1>2
  <2>2. RegularBlocks(data)[k][i] = data[j]
    BY DEF RegularBlocks
  <2> HIDE DEF j, zr, n
  <2>3. j \in 1..n
    BY <1>1, <1>2, <2>1
  <2> QED
    BY <1>1, <2>2, <2>3
<1>4. ASSUME NEW i \in 1..BlockLen PROVE LastBlock(data)[i] \in Bytes
  <2>1. LastBlock(data)[i] =
          IF i <= n - zr THEN data[zr + i] ELSE IF i = n - zr + 1 THEN Top ELSE 0
    BY DEF LastBlock
  <2> HIDE DEF zr, n
  <2>2. i <= n - zr => zr + i \in 1..n
    BY <1>1, <1>2
  <2> QED
    BY <1>1, <2>1, <2>2, SomeBytes
<1> QED
  BY <1>3, <1>4 DEF AreBlocks

\* What cmac computes: the chain of the regular blocks, and the last with a subkey.
LEMMA CMACSteps ==
  ASSUME NEW key \in Keys, NEW data \in Seq(Bytes)
  PROVE  LET r  == Regular(Len(data))
             K1 == Subkey(AES(key, ZeroBlock))
         IN  \E x : /\ IsChain(x, key, RegularBlocks(data), r)
                    /\ CMAC(key, data) =
                         AES(key, XorBlocks(x[r],
                           XorBlocks(LastBlock(data), IF Whole(Len(data)) THEN K1 ELSE Subkey(K1))))
<1> DEFINE full == data # <<>> /\ Len(data) % BlockLen = 0
           regular == IF full THEN (Len(data) \div BlockLen) - 1 ELSE Len(data) \div BlockLen
           rem == Len(data) - BlockLen * regular
           last == [i \in 1..BlockLen |->
                      IF i <= rem THEN data[BlockLen * regular + i]
                      ELSE IF i = rem + 1 THEN Top ELSE 0]
           Loop(f) == f = [n \in 0..regular |->
                             IF n = 0 THEN ZeroBlock
                             ELSE AES(key, XorBlocks(f[n - 1],
                                    [i \in 1..BlockLen |-> data[BlockLen * (n - 1) + i]]))]
           x == CHOOSE f : Loop(f)
           K1 == Subkey(AES(key, ZeroBlock))
           r == Regular(Len(data))
<1>1. CMAC(key, data) =
        AES(key, XorBlocks(x[regular], XorBlocks(last, IF full THEN K1 ELSE Subkey(K1))))
  BY DEF CMAC
<1>2. full <=> Whole(Len(data))
  <2>1. data # <<>> <=> Len(data) # 0
    BY EmptySeq
  <2> QED
    BY <2>1 DEF Whole
<1>3. regular = r
  BY <1>2 DEF Regular
<1>4. last = LastBlock(data)
  BY <1>3 DEF LastBlock
<1>5. r \in Nat
  <2>1. Len(data) \in Nat
    BY LenProperties
  <2> QED
    BY <2>1, Cutting
<1>6. AreBlocks(RegularBlocks(data), r)
  BY DataBlocks
<1>7. PICK f \in [0..r -> Blocks] : IsChain(f, key, RegularBlocks(data), r)
  <2> DEFINE blocks == RegularBlocks(data)
  <2> HIDE DEF r, blocks
  <2>1. AreBlocks(blocks, r)
    BY <1>6 DEF blocks
  <2>2. \E f \in [0..r -> Blocks] : IsChain(f, key, blocks, r)
    BY <1>5, <2>1, ChainExists
  <2> QED
    BY <2>2 DEF blocks
<1> DEFINE next(g, n) == AES(key, XorBlocks(g[n - 1],
                                 [i \in 1..BlockLen |-> data[BlockLen * (n - 1) + i]]))
<1>8. ASSUME NEW n \in 1..r
      PROVE  RegularBlocks(data)[n] = [i \in 1..BlockLen |-> data[BlockLen * (n - 1) + i]]
  BY DEF RegularBlocks
<1>9. Loop(f)
  <2> DEFINE h == [n \in 0..r |-> IF n = 0 THEN ZeroBlock ELSE next(f, n)]
  <2>1. ASSUME NEW n \in 0..r PROVE f[n] = h[n]
    <3>1. CASE n = 0
      BY <1>7, <3>1 DEF IsChain
    <3>2. CASE n # 0
      <4>1. n \in 1..r
        BY <1>5, <3>2
      <4>2. f[n] = next(f, n)
        BY <1>7, <1>8, <4>1 DEF IsChain
      <4> QED
        BY <3>2, <4>2
    <3> QED
      BY <3>1, <3>2
  <2>2. f = [n \in 0..r |-> f[n]] /\ h = [n \in 0..r |-> h[n]]
    OBVIOUS
  <2> HIDE DEF h
  <2>3. f = h
    BY <2>1, <2>2
  <2>4. h = [n \in 0..regular |-> IF n = 0 THEN ZeroBlock ELSE next(f, n)]
    BY <1>3 DEF h
  <2> QED
    BY <2>3, <2>4
<1>10. Loop(x)
  <2> HIDE DEF Loop
  <2> QED
    BY <1>9
<1> HIDE DEF x
<1>11. x = [n \in 0..r |-> IF n = 0 THEN ZeroBlock ELSE next(x, n)]
  BY <1>3, <1>10
<1>12. IsChain(x, key, RegularBlocks(data), r)
  <2>1. x[0] = ZeroBlock
    BY <1>5, <1>11
  <2>2. ASSUME NEW n \in 1..r PROVE x[n] = AES(key, XorBlocks(x[n - 1], RegularBlocks(data)[n]))
    <3>1. n \in 0..r /\ n # 0
      BY <1>5
    <3>2. x[n] = next(x, n)
      <4> HIDE DEF next
      <4> QED
        BY <1>11, <3>1
    <3> QED
      BY <1>8, <3>2
  <2> QED
    BY <2>1, <2>2 DEF IsChain
<1>13. CMAC(key, data) =
         AES(key, XorBlocks(x[r],
           XorBlocks(LastBlock(data), IF Whole(Len(data)) THEN K1 ELSE Subkey(K1))))
  <2> HIDE DEF full, regular, last, r, K1
  <2> QED
    BY <1>1, <1>2, <1>3, <1>4
<1> QED
  BY <1>12, <1>13

\* The data as the standard completes it, and a piece of it.
Completed(data) == IF Whole(Len(data)) THEN data ELSE data \o <<Top>> \o ZeroBlock
PieceOf(data, n) == SubSeq(Completed(data), (n - 1) * BlockLen + 1, n * BlockLen)

\* A block is a sequence.
LEMMA BlockIsSeq ==
  ASSUME NEW b \in Blocks
  PROVE  b \in Seq(Bytes) /\ Len(b) = BlockLen
<1>1. b \in [1..BlockLen -> Bytes] /\ BlockLen \in Nat
  BY CipherSizes DEF Blocks
<1>2. b \in Seq(Bytes)
  BY <1>1
<1> QED
  BY <1>1, <1>2

\* What completed data consists of.
LEMMA CompletedIs ==
  ASSUME NEW data \in Seq(Bytes)
  PROVE  LET n == Len(data)
             c == Completed(data)
         IN  /\ c \in Seq(Bytes)
             /\ Len(c) = IF Whole(n) THEN n ELSE n + 1 + BlockLen
             /\ \A i \in 1..n : c[i] = data[i]
             /\ ~Whole(n) => /\ c[n + 1] = Top
                             /\ \A i \in 1..BlockLen : c[n + 1 + i] = 0
<1> DEFINE n == Len(data)
           c == Completed(data)
           one == <<Top>>
           d == data \o one
           e == d \o ZeroBlock
<1>1. n \in Nat
  BY LenProperties
<1>2. one \in Seq(Bytes) /\ Len(one) = 1 /\ one[1] = Top
  BY SomeBytes
<1>3. ZeroBlock \in Seq(Bytes) /\ Len(ZeroBlock) = BlockLen
  BY ZeroIs, BlockIsSeq
<1>4. CASE Whole(n)
  <2>1. c = data
    BY <1>4 DEF Completed
  <2> HIDE DEF c
  <2> QED
    BY <1>4, <2>1 DEF c
<1>5. CASE ~Whole(n)
  <2>1. c = e
    BY <1>5 DEF Completed
  <2> HIDE DEF one, c
  <2>2. /\ d \in Seq(Bytes) /\ Len(d) = Len(data) + Len(one)
        /\ \A k \in 1..Len(data) : d[k] = data[k]
        /\ \A i \in 1..Len(one) : d[Len(data) + i] = one[i]
    <3>1. data \in Seq(Bytes) /\ one \in Seq(Bytes)
      BY <1>2
    <3> QED
      BY <3>1, PartsOfConcat
  <2>3. Len(d) = n + 1 /\ (\A i \in 1..n : d[i] = data[i]) /\ d[n + 1] = Top
    <3> HIDE DEF d
    <3> QED
      BY <1>2, <2>2
  <2>4. d \in Seq(Bytes)
    BY <2>2
  <2> HIDE DEF d
  <2>5. /\ e \in Seq(Bytes) /\ Len(e) = Len(d) + Len(ZeroBlock)
        /\ \A k \in 1..Len(d) : e[k] = d[k]
        /\ \A i \in 1..Len(ZeroBlock) : e[Len(d) + i] = ZeroBlock[i]
    BY <1>3, <2>4, PartsOfConcat
  <2> HIDE DEF e, n
  <2>6. /\ e \in Seq(Bytes) /\ Len(e) = n + 1 + BlockLen
        /\ \A k \in 1..(n + 1) : e[k] = d[k]
        /\ \A i \in 1..BlockLen : e[n + 1 + i] = ZeroBlock[i]
    BY <1>3, <2>3, <2>5
  <2>7. (\A i \in 1..n : i \in 1..(n + 1)) /\ n + 1 \in 1..(n + 1)
    BY <1>1
  <2>8. (\A i \in 1..n : e[i] = data[i]) /\ e[n + 1] = Top
    BY <2>3, <2>6, <2>7
  <2>9. \A i \in 1..BlockLen : ZeroBlock[i] = 0
    BY DEF ZeroBlock
  <2>10. \A i \in 1..BlockLen : e[n + 1 + i] = 0
    BY <2>6, <2>9
  <2> QED
    BY <1>5, <2>1, <2>6, <2>8, <2>10 DEF n, c
<1> QED
  BY <1>4, <1>5

\* The standard's pieces are the blocks that cmac takes.
LEMMA PieceIs ==
  ASSUME NEW data \in Seq(Bytes), NEW k \in 1..(Regular(Len(data)) + 1), NEW j \in 1..BlockLen
  PROVE  PieceOf(data, k)[j] =
           IF k <= Regular(Len(data)) THEN RegularBlocks(data)[k][j] ELSE LastBlock(data)[j]
<1> DEFINE n == Len(data)
           c == Completed(data)
           r == Regular(n)
           z == BlockLen
           zr == z * r
           l == Len(c)
<1>1. n \in Nat /\ z \in Nat \ {0}
  BY LenProperties, CipherSizes
<1>2. r \in Nat
  BY <1>1, Cutting
<1>3. zr \in 0..n
  BY <1>1, Inside
<1>4. /\ c \in Seq(Bytes) /\ l = IF Whole(n) THEN n ELSE n + 1 + z
      /\ \A i \in 1..n : c[i] = data[i]
      /\ ~Whole(n) => c[n + 1] = Top /\ \A i \in 1..z : c[n + 1 + i] = 0
  BY CompletedIs
<1>5. (Whole(n) /\ n = zr + z) \/ (~Whole(n) /\ n - zr \in 0..(z - 1))
  <2>1. /\ Whole(n) => n = z * r + z
        /\ ~Whole(n) => n - z * r \in 0..(z - 1)
    BY <1>1, Cutting
  <2> QED
    BY <2>1
<1> HIDE DEF c, n, l
<1>6. k \in 1..(r + 1)
  BY DEF n
<1> DEFINE a == z * (k - 1)
<1>7. a \in Nat /\ a + z <= zr + z /\ (k = r + 1 => a = zr) /\ (k - 1) * z = a /\ k * z = a + z
  <2> DEFINE h == k - 1
             g == r - h
  <2>1. h \in Nat /\ g \in Nat /\ r = h + g /\ k = h + 1
    BY <1>2, <1>6
  <2> HIDE DEF h, g, r, z
  <2>2. /\ z * h \in Nat /\ z * g \in Nat /\ z * (h + g) = z * h + z * g
        /\ h * z = z * h /\ (h + 1) * z = z * h + z
    BY <1>1, <2>1
  <2>3. k = r + 1 => h = r
    BY <1>2, <2>1
  <2>4. zr = z * h + z * g
    BY <2>1, <2>2
  <2>5. z * h \in Nat /\ z * h + z <= zr + z
    BY <1>1, <2>2, <2>4
  <2> QED
    BY <2>1, <2>2, <2>3, <2>5 DEF h
<1> HIDE DEF a, zr
<1>8. a + z <= l
  BY <1>1, <1>3, <1>4, <1>5, <1>7
<1>9. PieceOf(data, k)[j] = c[a + j]
  <2> DEFINE m == a + 1
             e == a + z
  <2>1. m \in 1..(l + 1) /\ e \in (m - 1)..l /\ e - m + 1 = z /\ m + j - 1 = a + j
    <3>1. l \in Nat
      BY <1>1, <1>4
    <3> QED
      BY <1>1, <1>7, <1>8, <3>1
  <2>2. PieceOf(data, k) = SubSeq(c, m, e)
    BY <1>7 DEF PieceOf, c
  <2> HIDE DEF m, e
  <2>3. m \in 1..(Len(c) + 1) /\ e \in (m - 1)..Len(c)
    BY <2>1 DEF l
  <2>4. \A i \in 1..(e - m + 1) : SubSeq(c, m, e)[i] = c[m + i - 1]
    BY <1>4, <2>3, Piece
  <2>5. SubSeq(c, m, e)[j] = c[m + j - 1]
    BY <2>1, <2>4
  <2> QED
    BY <2>1, <2>2, <2>5
<1>10. CASE k <= r
  <2>1. k \in 1..r
    BY <1>2, <1>6, <1>10
  <2>2. a + j \in 1..n
    <3>1. a + j \in 1..zr
      <4>1. z * (k - 1) + j \in 1..(z * r)
        BY <1>1, <2>1, Inside
      <4> QED
        BY <4>1 DEF a, zr
    <3> QED
      BY <1>1, <1>3, <3>1
  <2>3. RegularBlocks(data)[k][j] = data[a + j]
    BY <2>1 DEF RegularBlocks, n, a
  <2>4. c[a + j] = data[a + j]
    BY <1>4, <2>2
  <2> QED
    BY <1>9, <1>10, <2>3, <2>4 DEF n
<1>11. CASE ~(k <= r)
  <2>1. a = zr
    BY <1>2, <1>6, <1>7, <1>11
  <2>2. LastBlock(data)[j] =
          IF j <= n - zr THEN data[zr + j] ELSE IF j = n - zr + 1 THEN Top ELSE 0
    BY DEF LastBlock, n, zr
  <2>3. c[zr + j] = IF j <= n - zr THEN data[zr + j] ELSE IF j = n - zr + 1 THEN Top ELSE 0
    <3>1. CASE j <= n - zr
      <4>1. zr + j \in 1..n
        BY <1>1, <1>3, <3>1
      <4> QED
        BY <1>4, <3>1, <4>1
    <3>2. CASE j = n - zr + 1
      <4>1. ~Whole(n) /\ zr + j = n + 1 /\ ~(j <= n - zr)
        BY <1>1, <1>3, <1>5, <3>2
      <4> QED
        BY <1>4, <3>2, <4>1
    <3>3. CASE j > n - zr + 1
      <4> DEFINE i == zr + j - (n + 1)
      <4>1. ~Whole(n) /\ i \in 1..z /\ zr + j = n + 1 + i
        BY <1>1, <1>3, <1>5, <3>3
      <4>2. ~(j <= n - zr) /\ j # n - zr + 1
        BY <1>1, <1>3, <3>3
      <4> HIDE DEF i
      <4>3. c[n + 1 + i] = 0
        BY <1>4, <4>1
      <4> QED
        BY <4>1, <4>2, <4>3
    <3> QED
      BY <1>1, <1>3, <3>1, <3>2, <3>3
  <2> QED
    BY <1>9, <1>11, <2>1, <2>2, <2>3 DEF n
<1> QED
  BY <1>10, <1>11

\* The subkeys are blocks, and those of the standard.
LEMMA SubkeysAre ==
  ASSUME NEW key \in Keys
  PROVE  LET K1 == Subkey(AES(key, ZeroBlock))
         IN  /\ K1 \in Blocks /\ Subkey(K1) \in Blocks
             /\ Double(AES(key, Block(0))) = K1 /\ Double(K1) = Subkey(K1)
<1> DEFINE a == AES(key, ZeroBlock)
           b == Subkey(a)
<1>1. a \in Blocks /\ AES(key, Block(0)) = a
  BY ZeroIs, CipherTyped
<1> HIDE DEF a
<1>2. b \in Blocks /\ Double(a) = b
  BY <1>1, SubkeyDoubles
<1> HIDE DEF b
<1>3. Subkey(b) \in Blocks /\ Double(b) = Subkey(b)
  BY <1>2, SubkeyDoubles
<1> QED
  BY <1>1, <1>2, <1>3 DEF b, a

\* cmac returns a block.
LEMMA CMACTyped ==
  ASSUME NEW key \in Keys, NEW data \in Seq(Bytes)
  PROVE  CMAC(key, data) \in Blocks
<1> DEFINE r == Regular(Len(data))
           K1 == Subkey(AES(key, ZeroBlock))
           mask == IF Whole(Len(data)) THEN K1 ELSE Subkey(K1)
           blocks == RegularBlocks(data)
           last == LastBlock(data)
<1>1. r \in Nat
  <2>1. Len(data) \in Nat
    BY LenProperties
  <2> QED
    BY <2>1, Cutting
<1>2. PICK x : IsChain(x, key, blocks, r)
               /\ CMAC(key, data) = AES(key, XorBlocks(x[r], XorBlocks(last, mask)))
  BY CMACSteps
<1>3. AreBlocks(blocks, r) /\ \A i \in 1..BlockLen : last[i] \in Bytes
  BY DataBlocks
<1>4. mask \in Blocks
  BY SubkeysAre
<1> HIDE DEF r, mask, blocks, last
<1>5. x[r] \in Blocks
  <2>1. r \in 0..r
    BY <1>1
  <2> QED
    BY <1>1, <1>2, <1>3, <2>1, ChainTyped
<1>6. XorBlocks(last, mask) \in Blocks
  BY <1>3, <1>4, BytesOfBlock, XorBlocksTyped
<1>7. XorBlocks(x[r], XorBlocks(last, mask)) \in Blocks
  BY <1>5, <1>6, XorOfBlocks
<1> QED
  BY <1>2, <1>7, CipherTyped

\* The standard's CMAC by its recursion: a chain of pieces, the last one masked.
LEMMA ReferenceSteps ==
  ASSUME NEW key \in Keys, NEW data \in Seq(Bytes)
  PROVE  LET r  == Regular(Len(data))
             K1 == Subkey(AES(key, ZeroBlock))
         IN  \E c : /\ IsChain(c, key, RegularBlocks(data), r)
                    /\ ReferenceCMAC(key, data) =
                         AES(key, XorBlocks(c[r],
                           XorBlocks(LastBlock(data), IF Whole(Len(data)) THEN K1 ELSE Subkey(K1))))
<1> DEFINE K1 == Double(AES(key, Block(0)))
           count == Max({1, (Len(data) + BlockLen - 1) \div BlockLen})
           whole == count * BlockLen = Len(data)
           bits == IF whole THEN data ELSE data \o <<Top>> \o ZeroBlock
           piece(n) == SubSeq(bits, (n - 1) * BlockLen + 1, n * BlockLen)
           masked(n) == IF n < count THEN piece(n)
                        ELSE XorBlocks(piece(n), IF whole THEN K1 ELSE Double(K1))
           next(g, n) == AES(key, XorBlocks(g[n - 1], masked(n)))
           Loop(f) == f = [n \in 0..count |-> IF n = 0 THEN Block(0) ELSE next(f, n)]
           c == CHOOSE f : Loop(f)
           r == Regular(Len(data))
           k1 == Subkey(AES(key, ZeroBlock))
           mask == IF Whole(Len(data)) THEN k1 ELSE Subkey(k1)
           blocks == [n \in 1..count |-> masked(n)]
<1>1. ReferenceCMAC(key, data) = c[count]
  BY DEF ReferenceCMAC
<1>2. r \in Nat /\ count = r + 1 /\ (whole <=> Whole(Len(data)))
  <2>1. Len(data) \in Nat
    BY LenProperties
  <2> QED
    BY <2>1, Cutting
<1>3. bits = Completed(data)
  BY <1>2 DEF Completed
<1>4. \A n : piece(n) = PieceOf(data, n)
  BY <1>3 DEF PieceOf
<1>5. mask \in Blocks /\ (IF whole THEN K1 ELSE Double(K1)) = mask
  BY <1>2, SubkeysAre
<1> HIDE DEF piece, mask
<1>6. \A n : masked(n) = IF n < count THEN PieceOf(data, n) ELSE XorBlocks(PieceOf(data, n), mask)
  BY <1>4, <1>5
<1> HIDE DEF whole, bits, K1, count, masked, r
<1>7. ASSUME NEW n \in 1..count, NEW j \in 1..BlockLen
      PROVE  PieceOf(data, n)[j] = IF n <= r THEN RegularBlocks(data)[n][j] ELSE LastBlock(data)[j]
  BY <1>2, PieceIs DEF r
<1>8. /\ AreBlocks(RegularBlocks(data), r)
      /\ \A i \in 1..BlockLen : LastBlock(data)[i] \in Bytes
  BY DataBlocks DEF r
<1>9. ASSUME NEW i \in 1..r, NEW j \in 1..BlockLen PROVE masked(i)[j] = RegularBlocks(data)[i][j]
  <2>1. i \in 1..count /\ i < count /\ i <= r
    BY <1>2
  <2> QED
    BY <1>6, <1>7, <2>1
<1>10. masked(count) = XorBlocks(LastBlock(data), mask)
  <2>1. count \in 1..count /\ ~(count <= r) /\ ~(count < count)
    BY <1>2
  <2>2. \A j \in 1..BlockLen : PieceOf(data, count)[j] = LastBlock(data)[j]
    BY <1>7, <2>1
  <2> QED
    BY <1>6, <2>1, <2>2 DEF XorBlocks
<1>11. XorBlocks(LastBlock(data), mask) \in Blocks
  BY <1>5, <1>8, BytesOfBlock, XorBlocksTyped
<1>12. AreBlocks(blocks, count)
  <2>1. ASSUME NEW i \in 1..count, NEW j \in 1..BlockLen PROVE masked(i)[j] \in Bytes
    <3>1. CASE i \in 1..r
      <4>1. RegularBlocks(data)[i][j] \in Bytes
        BY <1>8, <3>1 DEF AreBlocks
      <4> QED
        BY <1>9, <3>1, <4>1
    <3>2. CASE i \notin 1..r
      <4>1. i = count
        BY <1>2, <3>2
      <4> QED
        BY <1>10, <1>11, <4>1, BytesOfBlock
    <3> QED
      BY <3>1, <3>2
  <2> QED
    BY <2>1 DEF AreBlocks
<1>13. PICK f \in [0..count -> Blocks] : IsChain(f, key, blocks, count)
  <2>1. count \in Nat
    BY <1>2
  <2> HIDE DEF blocks
  <2> QED
    BY <1>12, <2>1, ChainExists
<1>14. Loop(f)
  <2> DEFINE h == [n \in 0..count |-> IF n = 0 THEN Block(0) ELSE next(f, n)]
  <2>1. ASSUME NEW n \in 0..count PROVE f[n] = h[n]
    <3>1. CASE n = 0
      BY <1>13, <3>1, ZeroIs DEF IsChain
    <3>2. CASE n # 0
      <4>1. n \in 1..count
        BY <1>2, <3>2
      <4>2. f[n] = next(f, n)
        BY <1>13, <4>1 DEF IsChain
      <4> QED
        BY <3>2, <4>2
    <3> QED
      BY <3>1, <3>2
  <2>2. f = [n \in 0..count |-> f[n]] /\ h = [n \in 0..count |-> h[n]]
    OBVIOUS
  <2> HIDE DEF h
  <2>3. f = h
    BY <2>1, <2>2
  <2> QED
    BY <2>3 DEF h
<1>15. Loop(c)
  <2> HIDE DEF Loop
  <2> QED
    BY <1>14
<1> HIDE DEF c
<1>16. c[0] = ZeroBlock
  <2>1. 0 \in 0..count
    BY <1>2
  <2> QED
    BY <1>15, <2>1, ZeroIs
<1>17. ASSUME NEW n \in 1..count PROVE c[n] = AES(key, XorBlocks(c[n - 1], masked(n)))
  <2>1. n \in 0..count /\ n # 0
    BY <1>2
  <2>2. c[n] = next(c, n)
    <3> HIDE DEF next
    <3> QED
      BY <1>15, <2>1
  <2> QED
    BY <2>2
<1>18. IsChain(c, key, RegularBlocks(data), r)
  <2>1. ASSUME NEW n \in 1..r
        PROVE  c[n] = AES(key, XorBlocks(c[n - 1], RegularBlocks(data)[n]))
    <3>1. n \in 1..count
      BY <1>2
    <3>2. XorBlocks(c[n - 1], masked(n)) = XorBlocks(c[n - 1], RegularBlocks(data)[n])
      BY <1>9 DEF XorBlocks
    <3> QED
      BY <1>17, <3>1, <3>2
  <2> QED
    BY <1>16, <2>1 DEF IsChain
<1>19. c[count] = AES(key, XorBlocks(c[r], XorBlocks(LastBlock(data), mask)))
  <2>1. count \in 1..count /\ count - 1 = r
    BY <1>2
  <2> QED
    BY <1>10, <1>17, <2>1
<1>20. ReferenceCMAC(key, data) = AES(key, XorBlocks(c[r], XorBlocks(LastBlock(data), mask)))
  BY <1>1, <1>19
<1> QED
  BY <1>18, <1>20 DEF r, mask

\* cmac is the standard's CMAC, for every key and all data.
LEMMA CMACIsExact ==
  ASSUME NEW key \in Keys, NEW data \in Seq(Bytes)
  PROVE  CMACExact(key, data)
<1> DEFINE r == Regular(Len(data))
           K1 == Subkey(AES(key, ZeroBlock))
           mask == IF Whole(Len(data)) THEN K1 ELSE Subkey(K1)
           blocks == RegularBlocks(data)
           final(y) == AES(key, XorBlocks(y, XorBlocks(LastBlock(data), mask)))
<1>1. r \in Nat
  <2>1. Len(data) \in Nat
    BY LenProperties
  <2> QED
    BY <2>1, Cutting
<1>2. PICK x : IsChain(x, key, blocks, r) /\ CMAC(key, data) = final(x[r])
  BY CMACSteps
<1>3. PICK c : IsChain(c, key, blocks, r) /\ ReferenceCMAC(key, data) = final(c[r])
  BY ReferenceSteps
<1> HIDE DEF r, blocks, final
<1>4. r \in 0..r
  BY <1>1
<1>5. x[r] = c[r]
  BY <1>1, <1>2, <1>3, <1>4, ChainsAgree
<1> QED
  BY <1>2, <1>3, <1>5 DEF CMACExact

-----------------------------------------------------------------------------
(* EAX *)

\* The MAC of EAX is a block.
LEMMA OMACTyped ==
  ASSUME NEW key \in Keys, NEW flag \in {0, 1, 2}, NEW data \in Seq(Bytes)
  PROVE  EaxOMAC(key, flag, data) \in Blocks
<1> DEFINE first == LastByte(flag)
           all == first \o data
<1>1. first \in Seq(Bytes)
  <2>1. flag \in Bytes
    BY SomeBytes
  <2> QED
    BY <2>1, LastByteIs, BlockIsSeq
<1> HIDE DEF first
<1>2. all \in Seq(Bytes)
  BY <1>1, PartsOfConcat
<1> HIDE DEF all
<1>3. CMAC(key, all) \in Blocks
  BY <1>2, CMACTyped
<1> QED
  BY <1>3 DEF EaxOMAC, all, first

\* The key stream of counter mode: what is combined with byte i.
Stream(key, iv, i) == AES(key, Counter(iv, (i - 1) \div BlockLen))[((i - 1) % BlockLen) + 1]

\* It is a byte.
LEMMA StreamTyped ==
  ASSUME NEW key \in Keys, NEW iv \in Blocks, NEW i \in Nat \ {0}
  PROVE  Stream(key, iv, i) \in Bytes
<1> DEFINE h == i - 1
           q == h \div BlockLen
           m == h % BlockLen
           n == Number(iv)
           b == Counter(iv, q)
<1>1. h \in Nat /\ BlockLen \in Nat \ {0}
  BY CipherSizes
<1> HIDE DEF h
<1>2. q \in Nat /\ m \in 0..(BlockLen - 1)
  BY <1>1, DivMod
<1>3. n \in Nat
  BY BlockOfNumber
<1> HIDE DEF q, m, n
<1>4. n + q \in Nat
  BY <1>2, <1>3
<1>5. b \in Blocks
  BY <1>4, BlockTyped DEF Counter, n
<1> HIDE DEF b
<1>6. AES(key, b) \in Blocks
  BY <1>5, CipherTyped
<1>7. m + 1 \in 1..BlockLen
  BY <1>1, <1>2
<1>8. AES(key, b)[m + 1] \in Bytes
  BY <1>6, <1>7, BytesOfBlock
<1> QED
  BY <1>8 DEF Stream, b, m, q, h

\* Counter mode keeps the length, and undoes itself.
LEMMA CTRInverts ==
  ASSUME NEW key \in Keys, NEW iv \in Blocks, NEW s \in Seq(Bytes)
  PROVE  /\ CTR(key, iv, s) \in Seq(Bytes) /\ Len(CTR(key, iv, s)) = Len(s)
         /\ CTR(key, iv, CTR(key, iv, s)) = s
<1> DEFINE n == Len(s)
           st(i) == Stream(key, iv, i)
           c == CTR(key, iv, s)
           d == CTR(key, iv, c)
<1>1. n \in Nat /\ \A i \in 1..n : s[i] \in Bytes
  BY LenProperties, ElementOfSeq
<1>2. \A t : CTR(key, iv, t) = [i \in 1..Len(t) |-> Xor(t[i], st(i))]
  BY DEF CTR, Stream
<1>3. ASSUME NEW i \in 1..n PROVE st(i) \in Bytes
  <2>1. i \in Nat \ {0}
    OBVIOUS
  <2> QED
    BY <2>1, StreamTyped
<1> HIDE DEF st
<1>4. c = [i \in 1..n |-> Xor(s[i], st(i))]
  BY <1>2
<1>5. d = [i \in 1..Len(c) |-> Xor(c[i], st(i))]
  BY <1>2
<1> HIDE DEF n, c, d
<1>6. ASSUME NEW i \in 1..n PROVE Xor(s[i], st(i)) \in Bytes /\ Xor(Xor(s[i], st(i)), st(i)) = s[i]
  BY <1>1, <1>3, XorTypes
<1>7. c \in Seq(Bytes) /\ Len(c) = n
  BY <1>1, <1>4, <1>6
<1>8. d = [i \in 1..n |-> s[i]]
  <2>1. d = [i \in 1..n |-> Xor(c[i], st(i))]
    BY <1>5, <1>7
  <2>2. \A i \in 1..n : Xor(c[i], st(i)) = s[i]
    BY <1>4, <1>6
  <2> QED
    BY <2>1, <2>2
<1>9. d \in Seq(Bytes) /\ Len(d) = n /\ \A i \in 1..n : d[i] = s[i]
  BY <1>1, <1>8
<1>10. d = s
  <2>1. s \in Seq(Bytes) /\ Len(s) = Len(d)
    BY <1>9 DEF n
  <2> QED
    BY <1>9, <2>1, SeqEqual
<1> QED
  BY <1>7, <1>10 DEF d, c, n

\* The tag is a block.
LEMMA TagTyped ==
  ASSUME NEW key \in Keys, NEW nonce \in Seq(Bytes), NEW header \in Seq(Bytes),
         NEW ciphertext \in Seq(Bytes)
  PROVE  EaxTag(key, nonce, header, ciphertext) \in Blocks
<1> DEFINE a == EaxOMAC(key, 0, nonce)
           b == EaxOMAC(key, 1, header)
           c == EaxOMAC(key, 2, ciphertext)
           d == XorBlocks(a, b)
<1>1. a \in Blocks /\ b \in Blocks /\ c \in Blocks
  <2>1. 0 \in {0, 1, 2} /\ 1 \in {0, 1, 2} /\ 2 \in {0, 1, 2}
    OBVIOUS
  <2> QED
    BY <2>1, OMACTyped
<1> HIDE DEF a, b, c
<1>2. d \in Blocks
  BY <1>1, XorOfBlocks
<1> HIDE DEF d
<1>3. XorBlocks(d, c) \in Blocks
  BY <1>1, <1>2, XorOfBlocks
<1> QED
  BY <1>3 DEF EaxTag, a, b, c, d

\* What DecryptEAX makes of a ciphertext with a tag behind it.
LEMMA DecryptOf ==
  ASSUME NEW key \in Keys, NEW nonce, NEW header, NEW c \in Seq(Bytes), NEW tag \in Seq(Bytes),
         Len(tag) = BlockLen
  PROVE  DecryptEAX(key, nonce, header, c \o tag) =
           IF EaxTag(key, nonce, header, c) # tag THEN Refused("tag")
           ELSE Ok(CTR(key, EaxOMAC(key, 0, nonce), c))
<1> DEFINE both == c \o tag
           n == Len(both) - BlockLen
<1>1. /\ both \in Seq(Bytes) /\ Len(both) = Len(c) + Len(tag)
      /\ \A k \in 1..Len(c) : both[k] = c[k]
      /\ \A i \in 1..Len(tag) : both[Len(c) + i] = tag[i]
  <2>1. Joins(both, c, tag, Bytes)
    BY JoinIs
  <2> HIDE DEF both
  <2> QED
    BY <2>1 DEF Joins
<1>2. Len(c) \in Nat /\ BlockLen \in Nat
  BY LenProperties, CipherSizes
<1>3. SubSeq(both, 1, Len(c)) = c
  <2>1. Len(c) \in 0..Len(c)
    BY <1>2
  <2>2. SubSeq(both, 1, Len(c)) = SubSeq(c, 1, Len(c))
    BY <2>1, CutInFirst
  <2>3. SubSeq(c, 1, Len(c)) \in Seq(Bytes) /\ Len(SubSeq(c, 1, Len(c))) = Len(c)
        /\ \A i \in 1..Len(c) : SubSeq(c, 1, Len(c))[i] = c[i]
    BY <2>1, Start
  <2>4. SubSeq(c, 1, Len(c)) = c
    <3> DEFINE f == SubSeq(c, 1, Len(c))
    <3> HIDE DEF f
    <3> QED
      BY <2>3, SeqEqual DEF f
  <2> QED
    BY <2>2, <2>4
<1>4. SubSeq(both, Len(c) + 1, Len(both)) = tag
  BY AfterFirst DEF From
<1> HIDE DEF both
<1>5. n = Len(c) /\ ~(n < 0)
  BY <1>1, <1>2
<1> HIDE DEF n
<1>6. DecryptEAX(key, nonce, header, both) =
        IF n < 0 THEN Refused("short")
        ELSE IF key \notin Keys THEN Refused("key")
        ELSE IF EaxTag(key, nonce, header, SubSeq(both, 1, n)) # SubSeq(both, n + 1, Len(both))
               THEN Refused("tag")
        ELSE Ok(CTR(key, EaxOMAC(key, 0, nonce), SubSeq(both, 1, n)))
  BY DEF DecryptEAX, n
<1>7. SubSeq(both, 1, n) = c /\ SubSeq(both, n + 1, Len(both)) = tag
  BY <1>3, <1>4, <1>5
<1> QED
  BY <1>5, <1>6, <1>7 DEF both

\* EAX inverts, and takes no other tag and nothing short, for every key, nonce,
\* header and plaintext.
LEMMA EaxAlwaysInverts ==
  ASSUME NEW key \in Keys, NEW nonce \in Seq(Bytes), NEW header \in Seq(Bytes),
         NEW plaintext \in Seq(Bytes)
  PROVE  EaxInverts(key, nonce, header, plaintext)
<1> DEFINE iv == EaxOMAC(key, 0, nonce)
           c == CTR(key, iv, plaintext)
           tag == EaxTag(key, nonce, header, c)
           both == c \o tag
           l == Len(plaintext)
<1>1. l \in Nat /\ BlockLen \in Nat /\ BlockLen > 0
  BY LenProperties, CipherSizes
<1>2. iv \in Blocks
  <2>1. 0 \in {0, 1, 2}
    OBVIOUS
  <2> QED
    BY <2>1, OMACTyped
<1>3. EncryptEAX(key, nonce, header, plaintext) = Ok(both)
  BY DEF EncryptEAX
<1> HIDE DEF iv
<1>4. c \in Seq(Bytes) /\ Len(c) = l /\ CTR(key, iv, c) = plaintext
  BY <1>2, CTRInverts
<1> HIDE DEF c, l
<1>5. tag \in Blocks
  BY <1>4, TagTyped
<1>6. EaxTag(key, nonce, header, c) = tag
  OBVIOUS
<1> HIDE DEF tag
<1>7. tag \in Seq(Bytes) /\ Len(tag) = BlockLen
  BY <1>5, BlockIsSeq
<1>8. DecryptEAX(key, nonce, header, both) = Ok(plaintext)
  <2>1. DecryptEAX(key, nonce, header, both) =
          IF EaxTag(key, nonce, header, c) # tag THEN Refused("tag")
          ELSE Ok(CTR(key, EaxOMAC(key, 0, nonce), c))
    BY <1>4, <1>7, DecryptOf
  <2> QED
    BY <1>4, <1>6, <2>1 DEF iv
<1>9. /\ both \in Seq(Bytes) /\ Len(both) = l + BlockLen
      /\ \A k \in 1..l : both[k] = c[k]
      /\ \A i \in 1..BlockLen : both[l + i] = tag[i]
  <2>1. /\ both \in Seq(Bytes) /\ Len(both) = Len(c) + Len(tag)
        /\ \A k \in 1..Len(c) : both[k] = c[k]
        /\ \A i \in 1..Len(tag) : both[Len(c) + i] = tag[i]
    <3>1. c \in Seq(Bytes) /\ tag \in Seq(Bytes)
      BY <1>4, <1>7
    <3>2. Joins(both, c, tag, Bytes)
      BY <3>1, JoinIs
    <3> HIDE DEF both
    <3> QED
      BY <3>2 DEF Joins
  <2> HIDE DEF both
  <2> QED
    BY <1>4, <1>7, <2>1
<1>10. ASSUME NEW i \in (l + 1)..Len(both), NEW b \in Bytes \ {both[i]}
       PROVE  DecryptEAX(key, nonce, header, [both EXCEPT ![i] = b]).err = "tag"
  <2> DEFINE j == i - l
             other == [tag EXCEPT ![j] = b]
             forged == [both EXCEPT ![i] = b]
             joined == c \o other
  <2>1. j \in 1..BlockLen /\ i = l + j /\ i \in 1..(l + BlockLen)
    BY <1>1, <1>9
  <2> HIDE DEF j
  <2>2. other \in Blocks
    BY <1>5 DEF Blocks
  <2>3. other # tag
    <3>1. other[j] = b /\ tag[j] = both[i]
      BY <1>5, <1>9, <2>1 DEF Blocks
    <3> QED
      BY <3>1
  <2>4. \A k \in 1..BlockLen : other[k] = IF k = j THEN b ELSE tag[k]
    BY <1>5 DEF Blocks
  <2> HIDE DEF other
  <2>5. other \in Seq(Bytes) /\ Len(other) = BlockLen
    BY <2>2, BlockIsSeq
  <2>6. /\ joined \in Seq(Bytes) /\ Len(joined) = l + BlockLen
        /\ \A k \in 1..l : joined[k] = c[k]
        /\ \A k \in 1..BlockLen : joined[l + k] = other[k]
    <3>1. /\ joined \in Seq(Bytes) /\ Len(joined) = Len(c) + Len(other)
          /\ \A k \in 1..Len(c) : joined[k] = c[k]
          /\ \A k \in 1..Len(other) : joined[Len(c) + k] = other[k]
      <4>1. c \in Seq(Bytes) /\ other \in Seq(Bytes)
        BY <1>4, <2>5
      <4>2. Joins(joined, c, other, Bytes)
        BY <4>1, JoinIs
      <4> HIDE DEF joined
      <4> QED
        BY <4>2 DEF Joins
    <3> HIDE DEF joined
    <3> QED
      BY <1>4, <2>5, <3>1
  <2> HIDE DEF both, joined
  <2>7. /\ forged \in Seq(Bytes) /\ Len(forged) = l + BlockLen
        /\ \A k \in 1..(l + BlockLen) : forged[k] = IF k = i THEN b ELSE both[k]
    <3>1. i \in 1..Len(both) /\ b \in Bytes
      BY <1>9, <2>1
    <3>2. forged \in Seq(Bytes) /\ Len(forged) = Len(both)
          /\ \A k \in 1..Len(both) : forged[k] = IF k = i THEN b ELSE both[k]
      BY <1>9, <3>1, ExceptSeq
    <3> QED
      BY <1>9, <3>2
  <2> HIDE DEF forged
  <2>8. ASSUME NEW k \in 1..(l + BlockLen) PROVE forged[k] = joined[k]
    <3>1. CASE k \in 1..l
      <4>1. k # i
        BY <1>1, <2>1, <3>1
      <4> QED
        BY <1>9, <2>6, <2>7, <3>1, <4>1
    <3>2. CASE k \notin 1..l
      <4> DEFINE m == k - l
      <4>1. m \in 1..BlockLen /\ k = l + m /\ (k = i <=> m = j)
        BY <1>1, <2>1, <3>2
      <4> HIDE DEF m
      <4>2. joined[k] = IF m = j THEN b ELSE tag[m]
        BY <2>4, <2>6, <4>1
      <4>3. both[k] = tag[m]
        BY <1>9, <4>1
      <4> QED
        BY <2>7, <4>1, <4>2, <4>3
    <3> QED
      BY <3>1, <3>2
  <2>9. forged = joined
    BY <2>6, <2>7, <2>8, SeqEqual
  <2>10. DecryptEAX(key, nonce, header, joined) = Refused("tag")
    <3>1. DecryptEAX(key, nonce, header, c \o other) =
            IF EaxTag(key, nonce, header, c) # other THEN Refused("tag")
            ELSE Ok(CTR(key, EaxOMAC(key, 0, nonce), c))
      BY <1>4, <2>5, DecryptOf
    <3> QED
      BY <1>6, <2>3, <3>1 DEF joined
  <2>11. Refused("tag").err = "tag"
    BY DEF Refused
  <2> QED
    BY <2>9, <2>10, <2>11 DEF forged
<1>11. ASSUME NEW n \in 0..(BlockLen - 1)
       PROVE  DecryptEAX(key, nonce, header, SubSeq(both, 1, n)).err = "short"
  <2> HIDE DEF both
  <2>1. n \in 0..Len(both)
    BY <1>1, <1>9
  <2> DEFINE cut == SubSeq(both, 1, n)
  <2>2. Len(cut) = n
    BY <1>9, <2>1, Start
  <2> HIDE DEF cut
  <2>3. Len(cut) - BlockLen < 0
    BY <1>1, <2>2
  <2>4. DecryptEAX(key, nonce, header, cut) = Refused("short")
    BY <2>3 DEF DecryptEAX
  <2>5. Refused("short").err = "short"
    BY DEF Refused
  <2> QED
    BY <2>4, <2>5 DEF cut
<1>12. EncryptEAX(key, nonce, header, plaintext).value = both
  BY <1>3 DEF Ok
<1> HIDE DEF both
<1> QED
  BY <1>8, <1>10, <1>11, <1>12 DEF EaxInverts, l

\* EaxExact, for every block cipher, block length, key and input: cmac is the
\* standard's CMAC at every length, DecryptEAX opens what EncryptEAX returns to
\* the plaintext, and it refuses it with another tag or cut short of a tag.
THEOREM CiphersAlwaysExact == CiphersSpec => []EaxExact
<1>1. NothingPicked => EaxExact
  BY DEF NothingPicked, EaxExact
<1>2. EaxExact /\ [PickCipher]_<<subject, input>> => EaxExact'
  <2> SUFFICES ASSUME EaxExact, [PickCipher]_<<subject, input>> PROVE EaxExact'
    OBVIOUS
  <2>1. CASE PickData
    <3>1. subject' = "cmac" /\ input' \in [key : Keys, data : Seq(Bytes)]
      BY <2>1, CiphersAssumption DEF CiphersAssumption, PickData, Picks
    <3>2. input'.key \in Keys /\ input'.data \in Seq(Bytes)
      BY <3>1
    <3>3. CMACExact(input'.key, input'.data)
      BY <3>2, CMACIsExact
    <3> QED
      BY <3>1, <3>3 DEF EaxExact
  <2>2. CASE PickPlaintext
    <3>1. /\ subject' = "eax"
          /\ input' \in [key : Keys, nonce : Seq(Bytes), header : Seq(Bytes),
                         plaintext : Seq(Bytes)]
      BY <2>2, CiphersAssumption DEF CiphersAssumption, PickPlaintext, Picks
    <3>2. /\ input'.key \in Keys /\ input'.nonce \in Seq(Bytes)
          /\ input'.header \in Seq(Bytes) /\ input'.plaintext \in Seq(Bytes)
      BY <3>1
    <3>3. EaxInverts(input'.key, input'.nonce, input'.header, input'.plaintext)
      BY <3>2, EaxAlwaysInverts
    <3> QED
      BY <3>1, <3>3 DEF EaxExact
  <2>3. CASE UNCHANGED <<subject, input>>
    BY <2>3 DEF EaxExact
  <2> QED
    BY <2>1, <2>2, <2>3 DEF PickCipher
<1> QED
  BY <1>1, <1>2, PTL DEF CiphersSpec

=============================================================================
