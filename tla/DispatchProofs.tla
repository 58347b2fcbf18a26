--------------------------- MODULE DispatchProofs ---------------------------
(***************************************************************************)
(* Proofs about Dispatch for every set of callers and addresses and every *)
(* bound on calls.  CallsUseTheirAddrsConn, checked by TLC, is not         *)
(* inductive by itself: a caller that hits in the map takes conns[a], so  *)
(* the proof needs that every connection in the map was dialed to its key *)
(* (MapHoldsOwnAddr), and that a caller between its dial and its Store    *)
(* already holds a connection to its own address.                         *)
(***************************************************************************)
EXTENDS Dispatch, FiniteSetTheorems, SequenceTheorems, TLAPS

\* A connection k was dialed to address a.
DialedTo(k, a) == k \in 1..Len(dialed) /\ dialed[k] = a

MapHoldsOwnAddr == \A a \in DOMAIN conns : DialedTo(conns[a], a)

HeldConnsOwnAddr ==
    \A c \in Callers : pc[c] \in {"store", "rpc"} => DialedTo(loc[c].cc, loc[c].addr)

\* conns is a function (TypeOK speaks only of its domain and values).
ConnsIsFunction == conns = [a \in DOMAIN conns |-> conns[a]]

IInv == TypeOK /\ ConnsIsFunction /\ MapHoldsOwnAddr /\ HeldConnsOwnAddr

(***************************************************************************)
(* The initial state satisfies the inductive invariant: the map is empty  *)
(* and every caller is idle.                                               *)
(***************************************************************************)
LEMMA InitIInv == Init => IInv
<1> SUFFICES ASSUME Init PROVE IInv
  OBVIOUS
<1>1. (CHOOSE a \in Addrs : TRUE) \in Addrs
  BY DispatchAssumption
<1>2. TypeOK
  BY <1>1, DispatchAssumption DEF Init, TypeOK, NilConn, Results
<1>3. ConnsIsFunction /\ MapHoldsOwnAddr /\ HeldConnsOwnAddr
  BY DEF Init, ConnsIsFunction, MapHoldsOwnAddr, HeldConnsOwnAddr
<1>4. QED
  BY <1>2, <1>3 DEF IInv

(***************************************************************************)
(* A Call starts a caller at "load": it holds nothing yet.               *)
(***************************************************************************)
LEMMA CallPreservesIInv ==
  ASSUME IInv, NEW c \in Callers, NEW a \in Addrs, Call(c, a)
  PROVE  IInv'
<1> USE DEF IInv, Call
<1>1. TypeOK'
  BY DispatchAssumption DEF TypeOK, NilConn
<1>2. ConnsIsFunction' /\ MapHoldsOwnAddr'
  BY DEF ConnsIsFunction, MapHoldsOwnAddr, DialedTo
<1>3. HeldConnsOwnAddr'
  BY DEF TypeOK, HeldConnsOwnAddr, DialedTo
<1>4. QED
  BY <1>1, <1>2, <1>3

(***************************************************************************)
(* A Load that hits takes conns[a], which was dialed to a.                *)
(***************************************************************************)
LEMMA LoadConnPreservesIInv ==
  ASSUME IInv, NEW c \in Callers, LoadConn(c)
  PROVE  IInv'
<1> USE DEF IInv, LoadConn
<1>1. TypeOK'
  BY DEF TypeOK
<1>2. ConnsIsFunction' /\ MapHoldsOwnAddr'
  BY DEF ConnsIsFunction, MapHoldsOwnAddr, DialedTo
<1>3. HeldConnsOwnAddr'
  BY DEF TypeOK, HeldConnsOwnAddr, MapHoldsOwnAddr, DialedTo
<1>4. QED
  BY <1>1, <1>2, <1>3

(***************************************************************************)
(* A dial appends its own address, so the new connection is dialed to it *)
(* and every earlier one keeps its address.                               *)
(***************************************************************************)
LEMMA DialPreservesIInv ==
  ASSUME IInv, NEW c \in Callers, Dial(c)
  PROVE  IInv'
<1> USE DEF IInv
<1>1. pc[c] = "dial" /\ UNCHANGED <<conns, calls>>
  BY DEF Dial
<1>2. CASE /\ dialed' = Append(dialed, loc[c].addr)
           /\ loc' = [loc EXCEPT ![c].cc = Len(dialed) + 1]
           /\ pc' = [pc EXCEPT ![c] = "store"]
           /\ UNCHANGED result
  <2>1. loc[c].addr \in Addrs /\ dialed \in Seq(Addrs)
    BY DEF TypeOK
  <2>2. dialed' \in Seq(Addrs) /\ Len(dialed') = Len(dialed) + 1
    BY <1>2, <2>1
  <2>3. \A k \in 1..Len(dialed) : dialed'[k] = dialed[k]
    BY <1>2, <2>1
  <2>4. dialed'[Len(dialed) + 1] = loc[c].addr
    BY <1>2, <2>1
  <2>5. ASSUME NEW k, NEW x, DialedTo(k, x) PROVE DialedTo(k, x)'
    BY <2>5, <2>2, <2>3 DEF DialedTo
  <2>6. TypeOK'
    <3>1. loc[c] \in [addr : Addrs, cc : 0..Len(dialed)]
      BY DEF TypeOK
    <3>2. loc'[c].cc = Len(dialed) + 1 /\ loc'[c].addr = loc[c].addr
      BY <1>2, <3>1 DEF TypeOK
    <3>3. loc'[c] \in [addr : Addrs, cc : 0..Len(dialed')]
      BY <1>2, <2>2, <3>1 DEF TypeOK
    <3>6. \A q \in Callers \ {c} : loc'[q] = loc[q]
      BY <1>2 DEF TypeOK
    <3>7. loc' \in [Callers -> [addr : Addrs, cc : 0..Len(dialed')]]
      BY <1>2, <2>2, <3>3, <3>6 DEF TypeOK
    <3>4. \A a \in DOMAIN conns' : conns'[a] \in 0..Len(dialed')
      BY <1>1, <2>2 DEF TypeOK
    <3>5. QED
      BY <1>1, <1>2, <2>2, <3>7, <3>4 DEF TypeOK, Results
  <2>7. ConnsIsFunction' /\ MapHoldsOwnAddr'
    BY <1>1, <2>5 DEF ConnsIsFunction, MapHoldsOwnAddr
  <2>8. HeldConnsOwnAddr'
    <3>0. loc'[c].cc = Len(dialed) + 1 /\ loc'[c].addr = loc[c].addr
      BY <1>2 DEF TypeOK
    <3>1. DialedTo(loc[c].cc, loc[c].addr)'
      BY <3>0, <2>2, <2>4 DEF DialedTo
    <3>2. \A q \in Callers \ {c} : pc'[q] = pc[q] /\ loc'[q] = loc[q]
      BY <1>2 DEF TypeOK
    <3>3. QED
      BY <2>5, <3>1, <3>2 DEF HeldConnsOwnAddr
  <2>9. QED
    BY <2>6, <2>7, <2>8
<1>3. CASE /\ pc' = [pc EXCEPT ![c] = "idle"]
           /\ result' = [result EXCEPT ![c] = "dialErr"]
           /\ UNCHANGED <<dialed, loc>>
  <2>1. TypeOK'
    BY <1>1, <1>3 DEF TypeOK, Results
  <2>2. ConnsIsFunction' /\ MapHoldsOwnAddr'
    BY <1>1, <1>3 DEF ConnsIsFunction, MapHoldsOwnAddr, DialedTo
  <2>3. HeldConnsOwnAddr'
    BY <1>3 DEF TypeOK, HeldConnsOwnAddr, DialedTo
  <2>4. QED
    BY <2>1, <2>2, <2>3
<1>4. QED
  BY <1>2, <1>3 DEF Dial

(***************************************************************************)
(* A Store puts the caller's own connection under its own address.        *)
(***************************************************************************)
LEMMA StorePreservesIInv ==
  ASSUME IInv, NEW c \in Callers, Store(c)
  PROVE  IInv'
<1> USE DEF IInv, Store
<1>1. DialedTo(loc[c].cc, loc[c].addr)
  BY DEF TypeOK, HeldConnsOwnAddr
<1>2. TypeOK'
  BY <1>1 DEF TypeOK, DialedTo
<1>3. ConnsIsFunction'
  BY DEF ConnsIsFunction
<1>4. MapHoldsOwnAddr'
  BY <1>1 DEF MapHoldsOwnAddr, DialedTo
<1>5. HeldConnsOwnAddr'
  BY DEF TypeOK, HeldConnsOwnAddr, DialedTo
<1>6. QED
  BY <1>2, <1>3, <1>4, <1>5

(***************************************************************************)
(* An Rpc returns the caller to idle.                                     *)
(***************************************************************************)
LEMMA RpcPreservesIInv ==
  ASSUME IInv, NEW c \in Callers, Rpc(c)
  PROVE  IInv'
<1> USE DEF IInv, Rpc
<1>1. TypeOK'
  BY DEF TypeOK, Results
<1>2. ConnsIsFunction' /\ MapHoldsOwnAddr'
  BY DEF ConnsIsFunction, MapHoldsOwnAddr, DialedTo
<1>3. HeldConnsOwnAddr'
  BY DEF TypeOK, HeldConnsOwnAddr, DialedTo
<1>4. QED
  BY <1>1, <1>2, <1>3

(***************************************************************************)
(* The inductive invariant holds in every state of every behaviour.       *)
(***************************************************************************)
THEOREM IInvInvariant == Spec => []IInv
<1>1. Init => IInv
  BY InitIInv
<1>2. IInv /\ [Next]_vars => IInv'
  <2> SUFFICES ASSUME IInv, [Next]_vars PROVE IInv'
    OBVIOUS
  <2>1. ASSUME NEW c \in Callers, NEW a \in Addrs, Call(c, a) PROVE IInv'
    BY <2>1, CallPreservesIInv
  <2>2. ASSUME NEW c \in Callers, LoadConn(c) PROVE IInv'
    BY <2>2, LoadConnPreservesIInv
  <2>3. ASSUME NEW c \in Callers, Dial(c) PROVE IInv'
    BY <2>3, DialPreservesIInv
  <2>4. ASSUME NEW c \in Callers, Store(c) PROVE IInv'
    BY <2>4, StorePreservesIInv
  <2>5. ASSUME NEW c \in Callers, Rpc(c) PROVE IInv'
    BY <2>5, RpcPreservesIInv
  <2>6. CASE UNCHANGED vars
    BY <2>6 DEF vars, IInv, TypeOK, ConnsIsFunction, MapHoldsOwnAddr, HeldConnsOwnAddr, DialedTo
  <2>7. QED
    BY <2>1, <2>2, <2>3, <2>4, <2>5, <2>6 DEF Next
<1>3. QED
  BY <1>1, <1>2, PTL DEF Spec

(***************************************************************************)
(* For every set of callers and addresses, a dispatch call goes out only  *)
(* on a connection dialed to the address it was made for, however the    *)
(* callers' Load, dial and Store steps interleave (getGrpcClient, lines   *)
(* 623-634).                                                               *)
(***************************************************************************)
THEOREM CallsUseTheirAddrsConnHolds == Spec => []CallsUseTheirAddrsConn
<1>1. IInv => CallsUseTheirAddrsConn
  BY DEF IInv, HeldConnsOwnAddr, DialedTo, CallsUseTheirAddrsConn
<1>2. QED
  BY <1>1, IInvInvariant, PTL

-----------------------------------------------------------------------------
(***************************************************************************)
(* DialsBoundedByCallers.  The dials to one address are counted against   *)
(* the callers that made them.  While the address is not in the map, its *)
(* dials are exactly those of the callers between their dial and their   *)
(* Store (Waiting).  From the first Store on, no caller misses on it any  *)
(* more, so only the callers already past their miss (Dialing) can dial  *)
(* it again, and the dials plus those callers never outnumber the        *)
(* callers: at the first Store they are the Waiting and the Dialing      *)
(* callers, two disjoint sets of callers.                                 *)
(***************************************************************************)
Hits(d, a) == {k \in 1..Len(d) : d[k] = a}

Dialing(a) == {c \in Callers : pc[c] = "dial" /\ loc[c].addr = a}

Waiting(a) == {c \in Callers : pc[c] = "store" /\ loc[c].addr = a}

DialsAccounted ==
    /\ \A a \in Addrs \ DOMAIN conns : Cardinality(Hits(dialed, a)) = Cardinality(Waiting(a))
    /\ \A a \in DOMAIN conns :
          Cardinality(Hits(dialed, a)) + Cardinality(Dialing(a)) <= Cardinality(Callers)

\* The dials to an address are a finite set of positions.
LEMMA HitsFinite ==
  ASSUME NEW d \in Seq(Addrs), NEW a
  PROVE  IsFiniteSet(Hits(d, a)) /\ Cardinality(Hits(d, a)) \in Nat
<1>1. IsFiniteSet(1..Len(d))
  BY FS_Interval, LenProperties
<1>2. IsFiniteSet(Hits(d, a))
  BY <1>1, FS_Subset DEF Hits
<1>3. QED
  BY <1>2, FS_CardinalityType

\* A dial adds one to the count of its own address and to no other.
LEMMA HitsAppend ==
  ASSUME NEW d \in Seq(Addrs), NEW b \in Addrs, NEW a
  PROVE  Cardinality(Hits(Append(d, b), a))
           = IF a = b THEN Cardinality(Hits(d, a)) + 1 ELSE Cardinality(Hits(d, a))
<1>1. /\ Len(Append(d, b)) = Len(d) + 1
      /\ \A k \in 1..Len(d) : Append(d, b)[k] = d[k]
      /\ Append(d, b)[Len(d) + 1] = b
  BY AppendProperties
<1>2. Len(d) \in Nat
  BY LenProperties
<1>3. Hits(Append(d, b), a) = IF a = b THEN Hits(d, a) \cup {Len(d) + 1} ELSE Hits(d, a)
  BY <1>1, <1>2 DEF Hits
<1>4. Len(d) + 1 \notin Hits(d, a)
  BY <1>2 DEF Hits
<1>5. QED
  BY <1>3, <1>4, HitsFinite, FS_AddElement

\* Sets of callers are finite.
LEMMA CallersFinite ==
  ASSUME NEW S \in SUBSET Callers
  PROVE  IsFiniteSet(S) /\ Cardinality(S) \in Nat /\ Cardinality(S) <= Cardinality(Callers)
BY DispatchAssumption, FS_Subset, FS_CardinalityType

\* Two disjoint finite sets have as many elements as their union.
LEMMA DisjointCard ==
  ASSUME NEW S, NEW T, IsFiniteSet(S), IsFiniteSet(T), S \cap T = {}
  PROVE  Cardinality(S \cup T) = Cardinality(S) + Cardinality(T)
<1>1. Cardinality(S \cup T) = Cardinality(S) + Cardinality(T) - Cardinality(S \cap T)
  BY FS_Union
<1>2. Cardinality(S \cap T) = 0
  BY FS_EmptySet
<1>3. Cardinality(S) \in Nat /\ Cardinality(T) \in Nat
  BY FS_CardinalityType
<1>4. QED
  BY <1>1, <1>2, <1>3

\* The three counts of an address are numbers, the sets of callers finite.
LEMMA CountsNat ==
  ASSUME TypeOK, NEW a
  PROVE  /\ Cardinality(Hits(dialed, a)) \in Nat
         /\ IsFiniteSet(Dialing(a)) /\ Cardinality(Dialing(a)) \in Nat
         /\ IsFiniteSet(Waiting(a)) /\ Cardinality(Waiting(a)) \in Nat
         /\ Cardinality(Waiting(a)) <= Cardinality(Callers)
<1>1. Dialing(a) \in SUBSET Callers /\ Waiting(a) \in SUBSET Callers
  BY DEF Dialing, Waiting
<1>2. dialed \in Seq(Addrs)
  BY DEF TypeOK
<1>3. QED
  BY <1>1, <1>2, CallersFinite, HitsFinite

(***************************************************************************)
(* A step of caller c that keeps it out of the dial and store labels and *)
(* changes no other caller leaves Dialing and Waiting as they are.       *)
(***************************************************************************)
LEMMA SetsFrame ==
  ASSUME TypeOK, NEW c \in Callers, NEW l,
         pc' = [pc EXCEPT ![c] = l],
         pc[c] \notin {"dial", "store"}, l \notin {"dial", "store"},
         \A u \in Callers \ {c} : loc'[u] = loc[u]
  PROVE  \A a \in Addrs : Dialing(a)' = Dialing(a) /\ Waiting(a)' = Waiting(a)
BY DEF TypeOK, Dialing, Waiting

\* A step that dials nothing, stores nothing and leaves both sets alone.
LEMMA QuietAccounted ==
  ASSUME TypeOK, DialsAccounted, UNCHANGED <<conns, dialed>>,
         \A a \in Addrs : Dialing(a)' = Dialing(a) /\ Waiting(a)' = Waiting(a)
  PROVE  DialsAccounted'
<1>1. \A a : Hits(dialed, a)' = Hits(dialed, a)
  BY DEF Hits
<1>2. DOMAIN conns' = DOMAIN conns /\ DOMAIN conns \subseteq Addrs
  BY DEF TypeOK
<1>3. QED
  BY <1>1, <1>2 DEF DialsAccounted

(***************************************************************************)
(* A dial counts against the caller that made it: the caller moves from   *)
(* Dialing to Waiting as its address's count grows by one.  A failed dial *)
(* only takes the caller out of Dialing.                                   *)
(***************************************************************************)
LEMMA DialAccounted ==
  ASSUME IInv, DialsAccounted, NEW c \in Callers, Dial(c)
  PROVE  DialsAccounted'
<1>a. PICK b \in Addrs : b = loc[c].addr
  BY DEF IInv, TypeOK
<1>0. /\ dialed \in Seq(Addrs) /\ pc[c] = "dial"
      /\ DOMAIN conns \subseteq Addrs /\ TypeOK
  BY DEF Dial, IInv, TypeOK
<1>1. UNCHANGED conns
  BY DEF Dial
<1>2. CASE /\ dialed' = Append(dialed, loc[c].addr)
           /\ loc' = [loc EXCEPT ![c].cc = Len(dialed) + 1]
           /\ pc' = [pc EXCEPT ![c] = "store"]
  <2>1. \A u \in Callers : loc'[u].addr = loc[u].addr
    <3>1. loc[c] \in [addr : Addrs, cc : 0..Len(dialed)]
      BY DEF IInv, TypeOK
    <3>2. loc'[c].addr = loc[c].addr
      BY <1>2, <3>1 DEF IInv, TypeOK
    <3>3. \A u \in Callers \ {c} : loc'[u] = loc[u]
      BY <1>2 DEF IInv, TypeOK
    <3>4. QED
      BY <3>2, <3>3
  <2>2. pc'[c] = "store" /\ \A u \in Callers \ {c} : pc'[u] = pc[u]
    BY <1>2 DEF IInv, TypeOK
  <2>3. \A a : Hits(dialed, a)' = Hits(Append(dialed, b), a)
    BY <1>a, <1>2 DEF Hits
  <2>4. \A a \in Addrs : Cardinality(Hits(dialed, a)') =
            IF a = b THEN Cardinality(Hits(dialed, a)) + 1 ELSE Cardinality(Hits(dialed, a))
    BY <1>a, <1>0, <2>3, HitsAppend
  <2>5. /\ Dialing(b)' = Dialing(b) \ {c} /\ c \in Dialing(b)
        /\ Waiting(b)' = Waiting(b) \cup {c} /\ c \notin Waiting(b)
        /\ \A a \in Addrs \ {b} : Dialing(a)' = Dialing(a) /\ Waiting(a)' = Waiting(a)
    BY <1>a, <1>0, <2>1, <2>2 DEF Dialing, Waiting
  <2>6. /\ Cardinality(Dialing(b)') = Cardinality(Dialing(b)) - 1
        /\ Cardinality(Waiting(b)') = Cardinality(Waiting(b)) + 1
    <3>1. IsFiniteSet(Dialing(b)) /\ IsFiniteSet(Waiting(b))
      BY <1>a, <1>0, CountsNat
    <3>2. Cardinality(Dialing(b) \ {c}) = Cardinality(Dialing(b)) - 1
      BY <2>5, <3>1, FS_RemoveElement
    <3>3. Cardinality(Waiting(b) \cup {c}) = Cardinality(Waiting(b)) + 1
      BY <2>5, <3>1, FS_AddElement
    <3>4. QED
      BY <2>5, <3>2, <3>3
  <2>7. \A a \in Addrs : /\ Cardinality(Hits(dialed, a)) \in Nat
                         /\ Cardinality(Dialing(a)) \in Nat
                         /\ Cardinality(Waiting(a)) \in Nat
    BY <1>a, <1>0, CountsNat
  <2>8. ASSUME NEW a \in Addrs \ DOMAIN conns'
        PROVE  Cardinality(Hits(dialed, a)') = Cardinality(Waiting(a)')
    <3>1. a \notin DOMAIN conns
      BY <1>1
    <3>2. CASE a = b
      BY <3>1, <3>2, <2>4, <2>6, <2>7 DEF DialsAccounted
    <3>3. CASE a # b
      BY <3>1, <3>3, <2>4, <2>5 DEF DialsAccounted
    <3>4. QED
      BY <3>2, <3>3
  <2>9. ASSUME NEW a \in DOMAIN conns'
        PROVE  Cardinality(Hits(dialed, a)') + Cardinality(Dialing(a)') <= Cardinality(Callers)
    <3>1. a \in DOMAIN conns /\ a \in Addrs
      BY <1>0, <1>1
    <3>2. CASE a = b
      BY <3>1, <3>2, <2>4, <2>6, <2>7 DEF DialsAccounted
    <3>3. CASE a # b
      BY <3>1, <3>3, <2>4, <2>5 DEF DialsAccounted
    <3>4. QED
      BY <3>2, <3>3
  <2>10. QED
    BY <2>8, <2>9 DEF DialsAccounted
<1>3. CASE /\ pc' = [pc EXCEPT ![c] = "idle"]
           /\ UNCHANGED <<dialed, loc>>
  <2>1. pc'[c] = "idle" /\ \A u \in Callers \ {c} : pc'[u] = pc[u]
    BY <1>3 DEF IInv, TypeOK
  <2>2. /\ Dialing(b)' = Dialing(b) \ {c} /\ c \in Dialing(b)
        /\ \A a \in Addrs : Waiting(a)' = Waiting(a)
        /\ \A a \in Addrs \ {b} : Dialing(a)' = Dialing(a)
    BY <1>a, <1>0, <1>3, <2>1 DEF Dialing, Waiting
  <2>3. Cardinality(Dialing(b)') = Cardinality(Dialing(b)) - 1
    <3>1. IsFiniteSet(Dialing(b))
      BY <1>a, <1>0, CountsNat
    <3>2. QED
      BY <2>2, <3>1, FS_RemoveElement
  <2>4. \A a : Hits(dialed, a)' = Hits(dialed, a)
    BY <1>3 DEF Hits
  <2>5. \A a \in Addrs : /\ Cardinality(Hits(dialed, a)) \in Nat
                         /\ Cardinality(Dialing(a)) \in Nat
    BY <1>a, <1>0, CountsNat
  <2>6. ASSUME NEW a \in Addrs \ DOMAIN conns'
        PROVE  Cardinality(Hits(dialed, a)') = Cardinality(Waiting(a)')
    BY <1>1, <2>2, <2>4 DEF DialsAccounted
  <2>7. ASSUME NEW a \in DOMAIN conns'
        PROVE  Cardinality(Hits(dialed, a)') + Cardinality(Dialing(a)') <= Cardinality(Callers)
    <3>1. a \in DOMAIN conns /\ a \in Addrs
      BY <1>0, <1>1
    <3>2. CASE a = b
      <4>1. Cardinality(Callers) \in Nat
        BY CallersFinite
      <4>2. QED
        BY <3>1, <3>2, <4>1, <2>2, <2>3, <2>4, <2>5 DEF DialsAccounted
    <3>3. CASE a # b
      BY <3>1, <3>3, <2>2, <2>4 DEF DialsAccounted
    <3>4. QED
      BY <3>2, <3>3
  <2>8. QED
    BY <2>6, <2>7 DEF DialsAccounted
<1>4. QED
  BY <1>2, <1>3 DEF Dial

(***************************************************************************)
(* The first Store of an address: its dials were those of the Waiting    *)
(* callers, and the callers still Dialing it are others.  A later Store  *)
(* only takes the caller out of Waiting.                                  *)
(***************************************************************************)
LEMMA StoreAccounted ==
  ASSUME IInv, DialsAccounted, NEW c \in Callers, Store(c)
  PROVE  DialsAccounted'
<1>a. PICK b \in Addrs : b = loc[c].addr
  BY DEF IInv, TypeOK
<1>0. /\ pc[c] = "store" /\ UNCHANGED <<dialed, loc>>
      /\ DOMAIN conns' = DOMAIN conns \cup {b}
      /\ pc' = [pc EXCEPT ![c] = "rpc"]
      /\ DOMAIN conns \subseteq Addrs /\ TypeOK
  BY <1>a DEF Store, IInv, TypeOK
<1>1. /\ \A a \in Addrs : Dialing(a)' = Dialing(a)
      /\ Waiting(b)' = Waiting(b) \ {c}
      /\ \A a \in Addrs \ {b} : Waiting(a)' = Waiting(a)
  BY <1>a, <1>0 DEF TypeOK, Dialing, Waiting
<1>2. \A a : Hits(dialed, a)' = Hits(dialed, a)
  BY <1>0 DEF Hits
<1>3. ASSUME NEW a \in Addrs \ DOMAIN conns'
      PROVE  Cardinality(Hits(dialed, a)') = Cardinality(Waiting(a)')
  BY <1>0, <1>1, <1>2 DEF DialsAccounted
<1>4. ASSUME NEW a \in DOMAIN conns'
      PROVE  Cardinality(Hits(dialed, a)') + Cardinality(Dialing(a)') <= Cardinality(Callers)
  <2>1. CASE a \in DOMAIN conns
    BY <1>0, <1>1, <1>2, <2>1 DEF DialsAccounted
  <2>2. CASE a \notin DOMAIN conns
    <3>1. a = b
      BY <1>0, <2>2
    <3>2. Cardinality(Hits(dialed, b)) = Cardinality(Waiting(b))
      BY <1>0, <2>2, <3>1 DEF DialsAccounted
    <3>3. Waiting(b) \cap Dialing(b) = {}
      BY DEF Waiting, Dialing
    <3>4. /\ IsFiniteSet(Waiting(b)) /\ IsFiniteSet(Dialing(b))
          /\ Cardinality(Waiting(b) \cup Dialing(b)) <= Cardinality(Callers)
      <4>1. Waiting(b) \cup Dialing(b) \in SUBSET Callers
        BY DEF Waiting, Dialing
      <4>2. QED
        BY <1>0, <4>1, CountsNat, CallersFinite
    <3>5. Cardinality(Waiting(b) \cup Dialing(b))
            = Cardinality(Waiting(b)) + Cardinality(Dialing(b))
      BY <3>3, <3>4, DisjointCard
    <3>6. Cardinality(Dialing(b)) \in Nat
      BY <1>0, CountsNat
    <3>7. QED
      BY <1>1, <1>2, <3>1, <3>2, <3>4, <3>5, <3>6
  <2>3. QED
    BY <2>1, <2>2
<1>5. QED
  BY <1>3, <1>4 DEF DialsAccounted

\* A Call starts a caller at "load", out of both sets.
LEMMA CallAccounted ==
  ASSUME IInv, DialsAccounted, NEW c \in Callers, NEW a \in Addrs, Call(c, a)
  PROVE  DialsAccounted'
<1>1. \A u \in Callers \ {c} : loc'[u] = loc[u]
  BY DEF Call, IInv, TypeOK
<1>2. \A x \in Addrs : Dialing(x)' = Dialing(x) /\ Waiting(x)' = Waiting(x)
  BY <1>1, SetsFrame DEF Call, IInv
<1>3. QED
  BY <1>2, QuietAccounted DEF Call, IInv

(***************************************************************************)
(* A Load that misses joins Dialing of an address that is not in the map, *)
(* where Dialing is not counted; a hit goes straight to the RPC.          *)
(***************************************************************************)
LEMMA LoadConnAccounted ==
  ASSUME IInv, DialsAccounted, NEW c \in Callers, LoadConn(c)
  PROVE  DialsAccounted'
<1>a. PICK b \in Addrs : b = loc[c].addr
  BY DEF IInv, TypeOK
<1>0. pc[c] = "load" /\ UNCHANGED <<conns, dialed>> /\ TypeOK
  BY DEF LoadConn, IInv
<1>1. CASE b \in DOMAIN conns
  <2>1. pc' = [pc EXCEPT ![c] = "rpc"] /\ loc' = [loc EXCEPT ![c].cc = conns[b]]
    BY <1>a, <1>1 DEF LoadConn
  <2>2. \A u \in Callers \ {c} : loc'[u] = loc[u]
    BY <2>1 DEF IInv, TypeOK
  <2>3. \A x \in Addrs : Dialing(x)' = Dialing(x) /\ Waiting(x)' = Waiting(x)
    BY <1>0, <2>1, <2>2, SetsFrame
  <2>4. QED
    BY <1>0, <2>3, QuietAccounted
<1>2. CASE b \notin DOMAIN conns
  <2>1. pc' = [pc EXCEPT ![c] = "dial"] /\ UNCHANGED loc
    BY <1>a, <1>2 DEF LoadConn
  <2>2. /\ \A x \in Addrs : Waiting(x)' = Waiting(x)
        /\ \A x \in Addrs \ {b} : Dialing(x)' = Dialing(x)
    BY <1>a, <1>0, <2>1 DEF TypeOK, Dialing, Waiting
  <2>3. \A x : Hits(dialed, x)' = Hits(dialed, x)
    BY <1>0 DEF Hits
  <2>4. DOMAIN conns' = DOMAIN conns /\ DOMAIN conns \subseteq Addrs
    BY <1>0 DEF TypeOK
  <2>5. QED
    BY <1>2, <2>2, <2>3, <2>4 DEF DialsAccounted
<1>3. QED
  BY <1>1, <1>2

\* An Rpc returns the caller to idle, out of both sets.
LEMMA RpcAccounted ==
  ASSUME IInv, DialsAccounted, NEW c \in Callers, Rpc(c)
  PROVE  DialsAccounted'
<1>0. /\ TypeOK /\ pc[c] = "rpc" /\ pc' = [pc EXCEPT ![c] = "idle"]
      /\ \A u \in Callers \ {c} : loc'[u] = loc[u]
  BY DEF Rpc, IInv
<1>1. \A x \in Addrs : Dialing(x)' = Dialing(x) /\ Waiting(x)' = Waiting(x)
  BY <1>0, SetsFrame
<1>2. QED
  BY <1>1, QuietAccounted DEF Rpc, IInv

\* Initially nothing is dialed and no caller is waiting to store.
LEMMA InitAccounted == Init => DialsAccounted
<1> SUFFICES ASSUME Init PROVE DialsAccounted
  OBVIOUS
<1>1. (1..0) = {}
  OBVIOUS
<1>2. \A a : Hits(dialed, a) = {}
  BY <1>1, EmptySeq DEF Init, Hits
<1>3. \A a : Waiting(a) = {}
  BY DEF Init, Waiting
<1>4. DOMAIN conns = {}
  BY DEF Init
<1>5. QED
  BY <1>2, <1>3, <1>4, FS_EmptySet DEF DialsAccounted

(***************************************************************************)
(* For every set of callers and addresses, the client never dials an      *)
(* address more times than there are goroutines, however their Load, dial *)
(* and Store steps interleave: getGrpcClient dials again only after a miss *)
(* that came before the first Store (lines 623-634).                      *)
(***************************************************************************)
THEOREM DialsBoundedByCallersHolds == Spec => []DialsBoundedByCallers
<1>1. Init => DialsAccounted
  BY InitAccounted
<1>2. IInv /\ DialsAccounted /\ [Next]_vars => DialsAccounted'
  <2> SUFFICES ASSUME IInv, DialsAccounted, [Next]_vars PROVE DialsAccounted'
    OBVIOUS
  <2>1. ASSUME NEW c \in Callers, NEW a \in Addrs, Call(c, a) PROVE DialsAccounted'
    BY <2>1, CallAccounted
  <2>2. ASSUME NEW c \in Callers, LoadConn(c) PROVE DialsAccounted'
    BY <2>2, LoadConnAccounted
  <2>3. ASSUME NEW c \in Callers, Dial(c) PROVE DialsAccounted'
    BY <2>3, DialAccounted
  <2>4. ASSUME NEW c \in Callers, Store(c) PROVE DialsAccounted'
    BY <2>4, StoreAccounted
  <2>5. ASSUME NEW c \in Callers, Rpc(c) PROVE DialsAccounted'
    BY <2>5, RpcAccounted
  <2>6. CASE UNCHANGED vars
    <3>1. \A x \in Addrs : Dialing(x)' = Dialing(x) /\ Waiting(x)' = Waiting(x)
      BY <2>6 DEF vars, Dialing, Waiting
    <3>2. QED
      BY <2>6, <3>1, QuietAccounted DEF vars, IInv
  <2>7. QED
    BY <2>1, <2>2, <2>3, <2>4, <2>5, <2>6 DEF Next
<1>3. IInv /\ DialsAccounted => DialsBoundedByCallers
  <2> SUFFICES ASSUME IInv, DialsAccounted, NEW a \in Addrs
               PROVE  Cardinality(Hits(dialed, a)) <= Cardinality(Callers)
    BY DEF DialsBoundedByCallers, Hits
  <2>1. /\ Cardinality(Hits(dialed, a)) \in Nat /\ Cardinality(Dialing(a)) \in Nat
        /\ Cardinality(Waiting(a)) <= Cardinality(Callers)
    BY CountsNat DEF IInv
  <2>2. Cardinality(Callers) \in Nat
    BY CallersFinite
  <2>3. QED
    BY <2>1, <2>2 DEF DialsAccounted
<1>4. QED
  BY <1>1, <1>2, <1>3, IInvInvariant, PTL DEF Spec
=============================================================================
