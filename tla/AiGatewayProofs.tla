--------------------------- MODULE AiGatewayProofs ---------------------------
(***************************************************************************)
(* Proofs about AiGateway for any number of requests, slots, connections   *)
(* and rounds: first that slots, running generations and connections are   *)
(* always accounted for, then that exchanges are written whole.            *)
(***************************************************************************)
EXTENDS AiGateway, FiniteSetTheorems, TLAPS

-----------------------------------------------------------------------------
(* Counting the actors that hold something.                                *)

Holds(pc, S) == IF pc \in S THEN 1 ELSE 0
Holders(f, S) == {a \in Actor : f[a].pc \in S}

LEMMA CountIsNat ==
  ASSUME NEW f, NEW S
  PROVE  IsFiniteSet(Holders(f, S)) /\ Cardinality(Holders(f, S)) \in Nat
BY GatewayConstants, FS_Subset, FS_CardinalityType DEF Holders

(* When one actor moves, a count changes by what that actor takes or gives.*)
LEMMA CountMoves ==
  ASSUME NEW f, NEW g, NEW S, NEW r \in Actor,
         \A a \in Actor \ {r} : g[a].pc = f[a].pc
  PROVE  Cardinality(Holders(g, S))
           = Cardinality(Holders(f, S)) + Holds(g[r].pc, S) - Holds(f[r].pc, S)
<1> DEFINE F == Holders(f, S)
           G == Holders(g, S)
<1>1. IsFiniteSet(F) /\ Cardinality(F) \in Nat /\ IsFiniteSet(G) /\ Cardinality(G) \in Nat
  BY CountIsNat
<1>2. CASE f[r].pc \in S /\ g[r].pc \in S
  <2>1. F = G
    BY <1>2 DEF Holders
  <2> QED BY <2>1, <1>1, <1>2 DEF Holds
<1>3. CASE f[r].pc \notin S /\ g[r].pc \notin S
  <2>1. F = G
    BY <1>3 DEF Holders
  <2> QED BY <2>1, <1>1, <1>3 DEF Holds
<1>4. CASE f[r].pc \notin S /\ g[r].pc \in S
  <2>1. G = F \cup {r} /\ r \notin F
    BY <1>4 DEF Holders
  <2>2. Cardinality(G) = Cardinality(F) + 1
    BY <2>1, <1>1, FS_AddElement
  <2> QED BY <2>2, <1>1, <1>4 DEF Holds
<1>5. CASE f[r].pc \in S /\ g[r].pc \notin S
  <2>1. G = F \ {r} /\ r \in F
    BY <1>5 DEF Holders
  <2>2. Cardinality(G) = Cardinality(F) - 1
    BY <2>1, <1>1, FS_RemoveElement
  <2> QED BY <2>2, <1>1, <1>5 DEF Holds
<1> QED BY <1>2, <1>3, <1>4, <1>5

(* A count of at least one, where somebody holds.                          *)
LEMMA CountPositive ==
  ASSUME NEW f, NEW S, NEW r \in Actor, f[r].pc \in S
  PROVE  Cardinality(Holders(f, S)) \in Nat /\ Cardinality(Holders(f, S)) >= 1
<1>1. r \in Holders(f, S)
  BY DEF Holders
<1>2. Cardinality(Holders(f, S)) # 0
  BY <1>1, CountIsNat, FS_EmptySet
<1> QED BY <1>2, CountIsNat

LEMMA LeaksCount ==
  NothingLeaks <=> /\ slots + Cardinality(Holders(req, InSlot)) = Slots
                   /\ active = Cardinality(Holders(req, {"generating"}))
                   /\ pool + Cardinality(Holders(req, Working)) = Connections
<1>1. {r \in Actor : At(r, "generating")} = Holders(req, {"generating"})
  BY DEF At, Holders
<1> QED BY <1>1 DEF NothingLeaks, Holders

LEMMA LeaksCountNext ==
  NothingLeaks' <=> /\ slots' + Cardinality(Holders(req', InSlot)) = Slots
                    /\ active' = Cardinality(Holders(req', {"generating"}))
                    /\ pool' + Cardinality(Holders(req', Working)) = Connections
<1>1. {r \in Actor : At(r, "generating")'} = Holders(req', {"generating"})
  BY DEF At, Holders
<1> QED BY <1>1 DEF NothingLeaks, Holders

(* The counts bound the counters: what is given back was taken.            *)
LEMMA LeaksBound ==
  ASSUME NothingLeaks', slots' \in Int, pool' \in Int
  PROVE  slots' <= Slots /\ active' \in Nat /\ active' + slots' <= Slots /\ pool' <= Connections
<1>1. /\ Cardinality(Holders(req', InSlot)) \in Nat
      /\ Cardinality(Holders(req', {"generating"})) \in Nat
      /\ Cardinality(Holders(req', Working)) \in Nat
  BY CountIsNat
<1>2. Holders(req', {"generating"}) \subseteq Holders(req', InSlot)
  BY DEF Holders, InSlot
<1>3. Cardinality(Holders(req', {"generating"})) <= Cardinality(Holders(req', InSlot))
  BY <1>2, CountIsNat, FS_Subset
<1> QED BY <1>1, <1>3, LeaksCountNext, GatewayConstants

Accounted == GatewayTypeOK /\ NothingLeaks

(* A step of one actor that takes and gives what its place says.           *)
LEMMA Balance ==
  ASSUME Accounted, NEW r \in Actor,
         \A a \in Actor \ {r} : req'[a].pc = req[a].pc,
         slots' = slots + Holds(req[r].pc, InSlot) - Holds(req'[r].pc, InSlot),
         active' = active + Holds(req'[r].pc, {"generating"}) - Holds(req[r].pc, {"generating"}),
         pool' = pool + Holds(req[r].pc, Working) - Holds(req'[r].pc, Working),
         slots' \in Nat, pool' \in Nat
  PROVE  NothingLeaks' /\ slots' \in 0 .. Slots /\ active' \in 0 .. Slots
                       /\ pool' \in 0 .. Connections
<1>1. \A S : /\ Cardinality(Holders(req', S))
                  = Cardinality(Holders(req, S)) + Holds(req'[r].pc, S) - Holds(req[r].pc, S)
             /\ Cardinality(Holders(req', S)) \in Nat
             /\ Cardinality(Holders(req, S)) \in Nat
  BY CountMoves, CountIsNat
<1>2. \A x, S : Holds(x, S) \in 0 .. 1
  BY DEF Holds
<1>3. slots \in Int /\ active \in Int /\ pool \in Int
  BY GatewayConstants DEF Accounted, GatewayTypeOK
<1>4. NothingLeaks'
  BY <1>1, <1>2, <1>3, LeaksCount, LeaksCountNext, GatewayConstants DEF Accounted
<1> QED BY <1>4, LeaksBound, GatewayConstants

(* Whoever holds something leaves the counters room to take it back.       *)
LEMMA Room ==
  ASSUME Accounted, NEW r \in Actor
  PROVE  /\ slots \in Nat /\ active \in Nat /\ pool \in Nat
         /\ At(r, "generating") => active >= 1
<1>1. slots \in Nat /\ active \in Nat /\ pool \in Nat
  BY GatewayConstants DEF Accounted, GatewayTypeOK
<1>2. At(r, "generating") => active >= 1
  BY CountPositive, LeaksCount DEF Accounted, At
<1> QED BY <1>1, <1>2

RequestState ==
  [pc : {"idle"} \cup Working \cup Ended, thread : Request \cup {Old},
   rounds : 0 .. Budget, forced : BOOLEAN, tools : 0 .. Budget, said : Said]

LEMMA MinTypes ==
  ASSUME NEW n \in 0 .. Budget
  PROVE  Min({n + 1, Budget}) \in 0 .. Budget
<1>1. Budget \in Nat /\ n + 1 \in Int
  BY GatewayConstants
<1>2. \E x \in {n + 1, Budget} : \A y \in {n + 1, Budget} : x <= y
  BY <1>1
<1>3. /\ Min({n + 1, Budget}) \in {n + 1, Budget}
      /\ \A y \in {n + 1, Budget} : Min({n + 1, Budget}) <= y
  BY <1>2 DEF Min
<1> QED BY <1>1, <1>3

(* A request that ends gives everything back.                              *)
LEMMA GivesBack ==
  ASSUME Accounted, NEW r \in Actor, NEW how \in Ended,
         req[r].pc \in Working, Gives(r, how)
  PROVE  /\ NothingLeaks' /\ slots' \in 0 .. Slots /\ active' \in 0 .. Slots
         /\ pool' \in 0 .. Connections
         /\ req' \in [Actor -> RequestState]
<1>1. req' \in [Actor -> RequestState] /\ req'[r].pc = how
      /\ \A a \in Actor \ {r} : req'[a].pc = req[a].pc
  <2>1. req \in [Actor -> RequestState] /\ how \in Ended /\ 0 \in 0 .. Budget
    BY GatewayConstants DEF Accounted, GatewayTypeOK, RequestState
  <2>2. req' = [req EXCEPT ![r].pc = how, ![r].rounds = 0, ![r].forced = FALSE]
    BY DEF Gives
  <2>3. req' = [req EXCEPT ![r] = [@ EXCEPT !.pc = how, !.rounds = 0, !.forced = FALSE]]
    BY <2>2
  <2>4. [req[r] EXCEPT !.pc = how, !.rounds = 0, !.forced = FALSE] \in RequestState
    BY <2>1 DEF RequestState
  <2> QED BY <2>1, <2>3, <2>4 DEF RequestState
<1>2. how \notin Working /\ how \notin InSlot /\ how # "generating"
  BY DEF Ended, Working, InSlot
<1>3. /\ slots' = slots + Holds(req[r].pc, InSlot) - Holds(req'[r].pc, InSlot)
      /\ active' = active + Holds(req'[r].pc, {"generating"})
                          - Holds(req[r].pc, {"generating"})
      /\ pool' = pool + Holds(req[r].pc, Working) - Holds(req'[r].pc, Working)
      /\ slots' \in Nat /\ pool' \in Nat
  BY <1>1, <1>2, Room DEF Gives, Released, StillActive, At, Holds
<1> QED BY <1>1, <1>3, Balance

(* A request that goes on: its record changes, the counters follow.        *)
LEMMA Moves ==
  ASSUME Accounted, NEW r \in Actor, NEW s \in RequestState,
         req' = [req EXCEPT ![r] = s],
         slots' = slots + Holds(req[r].pc, InSlot) - Holds(s.pc, InSlot),
         active' = active + Holds(s.pc, {"generating"}) - Holds(req[r].pc, {"generating"}),
         pool' = pool + Holds(req[r].pc, Working) - Holds(s.pc, Working),
         slots' \in Nat, pool' \in Nat
  PROVE  /\ NothingLeaks' /\ slots' \in 0 .. Slots /\ active' \in 0 .. Slots
         /\ pool' \in 0 .. Connections
         /\ req' \in [Actor -> RequestState]
<1>1. req \in [Actor -> RequestState]
  BY DEF Accounted, GatewayTypeOK, RequestState
<1>2. req' \in [Actor -> RequestState] /\ req'[r] = s
      /\ \A a \in Actor \ {r} : req'[a].pc = req[a].pc
  BY <1>1
<1> QED BY <1>2, Balance

DbTypes ==
  /\ ready \in BOOLEAN /\ threads \subseteq Request \cup {Old}
  /\ messages \subseteq Request \X (Request \cup {Old})
  /\ audited \in [Request -> 0 .. Budget]

LEMMA TypeParts ==
  GatewayTypeOK <=> /\ req \in [Actor -> RequestState]
                    /\ slots \in 0 .. Slots /\ active \in 0 .. Slots
                    /\ pool \in 0 .. Connections /\ DbTypes
BY DEF GatewayTypeOK, RequestState, DbTypes

LEMMA TypePartsNext ==
  ASSUME NothingLeaks', slots' \in 0 .. Slots, active' \in 0 .. Slots,
         pool' \in 0 .. Connections, req' \in [Actor -> RequestState], DbTypes'
  PROVE  Accounted'
BY DEF Accounted, GatewayTypeOK, RequestState, DbTypes

LEMMA DbStays == ASSUME Accounted, NoDb, ready' \in BOOLEAN PROVE DbTypes'
BY TypeParts DEF NoDb, DbTypes, Accounted

(* Places and what they hold, spelled out once.                            *)
LEMMA Places ==
  /\ \A S : Holds("idle", S) = IF "idle" \in S THEN 1 ELSE 0
  /\ \A pc \in {"probe", "limit", "wait", "persist", "reply"} :
       Holds(pc, Working) = 1 /\ Holds(pc, InSlot) = 0 /\ Holds(pc, {"generating"}) = 0
  /\ \A pc \in {"call", "judge", "tool"} :
       Holds(pc, Working) = 1 /\ Holds(pc, InSlot) = 1 /\ Holds(pc, {"generating"}) = 0
  /\ Holds("generating", Working) = 1 /\ Holds("generating", InSlot) = 1
  /\ Holds("generating", {"generating"}) = 1
  /\ \A pc \in {"idle"} \cup Ended :
       Holds(pc, Working) = 0 /\ Holds(pc, InSlot) = 0 /\ Holds(pc, {"generating"}) = 0
BY DEF Holds, Working, InSlot, Ended

(* Steps that move a request without touching a counter.                   *)
LEMMA LocalMoves ==
  ASSUME Accounted, NEW r \in Actor, NEW s \in RequestState,
         req' = [req EXCEPT ![r] = s], Local(r),
         Holds(req[r].pc, InSlot) = Holds(s.pc, InSlot),
         Holds(req[r].pc, {"generating"}) = Holds(s.pc, {"generating"}),
         Holds(req[r].pc, Working) = Holds(s.pc, Working)
  PROVE  Accounted'
<1>1. /\ slots \in Nat /\ active \in Nat /\ pool \in Nat /\ ready \in BOOLEAN
      /\ req[r].pc \in {"idle"} \cup Working \cup Ended
  BY Room, TypeParts DEF Accounted, DbTypes, RequestState
<1>2. \A S : Holds(req[r].pc, S) \in Int
  BY DEF Holds
<1>3. DbTypes'
  BY <1>1, DbStays DEF Local
<1>4. /\ slots' = slots + Holds(req[r].pc, InSlot) - Holds(s.pc, InSlot)
      /\ active' = active + Holds(s.pc, {"generating"}) - Holds(req[r].pc, {"generating"})
      /\ pool' = pool + Holds(req[r].pc, Working) - Holds(s.pc, Working)
      /\ slots' \in Nat /\ pool' \in Nat
  BY <1>1, <1>2 DEF Local
<1>5. /\ NothingLeaks' /\ slots' \in 0 .. Slots /\ active' \in 0 .. Slots
      /\ pool' \in 0 .. Connections /\ req' \in [Actor -> RequestState]
  BY <1>4, Moves
<1> QED BY <1>3, <1>5, TypePartsNext

LEMMA GoesIs ==
  ASSUME Accounted, NEW r \in Actor, NEW pc \in {"idle"} \cup Working \cup Ended, Goes(r, pc)
  PROVE  /\ [req[r] EXCEPT !.pc = pc] \in RequestState
         /\ [req[r] EXCEPT !.pc = pc].pc = pc
         /\ req' = [req EXCEPT ![r] = [req[r] EXCEPT !.pc = pc]]
<1>1. req[r] \in RequestState
  BY TypeParts DEF Accounted
<1> QED BY <1>1 DEF RequestState, Goes

-----------------------------------------------------------------------------
(* One lemma per group of actions: types and counters survive.             *)

LEMMA OpenAccounted ==
  ASSUME Accounted, NEW r \in Request, NEW t \in {Old, r}, Open(r, t)
  PROVE  Accounted'
<1> DEFINE s == [req[r] EXCEPT !.pc = "probe", !.thread = t]
<1>1. s \in RequestState /\ s.pc = "probe" /\ req' = [req EXCEPT ![r] = s] /\ r \in Actor
  BY TypeParts DEF Accounted, RequestState, Open, Actor, Working
<1>2. slots \in Nat /\ active \in Nat /\ pool \in Nat /\ pool > 0 /\ ready \in BOOLEAN
  BY <1>1, Room, TypeParts DEF Accounted, DbTypes, Open
<1>3. req[r].pc = "idle"
  BY DEF Open, At
<1>4. /\ slots' = slots + Holds(req[r].pc, InSlot) - Holds(s.pc, InSlot)
      /\ active' = active + Holds(s.pc, {"generating"}) - Holds(req[r].pc, {"generating"})
      /\ pool' = pool + Holds(req[r].pc, Working) - Holds(s.pc, Working)
      /\ slots' \in Nat /\ pool' \in Nat
  BY <1>1, <1>2, <1>3, Places DEF Open
<1>5. DbTypes'
  BY <1>2, DbStays DEF Open
<1> HIDE DEF s
<1> QED BY <1>1, <1>4, <1>5, Moves, TypePartsNext

LEMMA BackgroundOpenAccounted ==
  ASSUME Accounted, NEW b \in Background, BackgroundOpen(b)
  PROVE  Accounted'
<1> DEFINE s == [req[b] EXCEPT !.pc = "probe"]
<1>1. s \in RequestState /\ s.pc = "probe" /\ req' = [req EXCEPT ![b] = s] /\ b \in Actor
  BY GoesIs DEF BackgroundOpen, Actor, Working
<1>2. slots \in Nat /\ active \in Nat /\ pool \in Nat /\ pool > 0 /\ ready \in BOOLEAN
  BY <1>1, Room, TypeParts DEF Accounted, DbTypes, BackgroundOpen
<1>3. req[b].pc = "idle"
  BY DEF BackgroundOpen, At
<1>4. /\ slots' = slots + Holds(req[b].pc, InSlot) - Holds(s.pc, InSlot)
      /\ active' = active + Holds(s.pc, {"generating"}) - Holds(req[b].pc, {"generating"})
      /\ pool' = pool + Holds(req[b].pc, Working) - Holds(s.pc, Working)
      /\ slots' \in Nat /\ pool' \in Nat
  BY <1>1, <1>2, <1>3, Places DEF BackgroundOpen
<1>5. DbTypes'
  BY <1>2, DbStays DEF BackgroundOpen
<1> HIDE DEF s
<1> QED BY <1>1, <1>4, <1>5, Moves, TypePartsNext

(* Steps that only change where a request stands.                          *)
LEMMA StandsAccounted ==
  ASSUME Accounted, NEW r \in Actor,
         \/ NotFound(r) \/ PoolTimeout(r) \/ check_rate_limit(r)
         \/ RunTool(r) \/ _persist(r)
  PROVE  Accounted'
<1>1. PICK pc \in {"refused", "crashed", "wait", "tool", "reply"} :
        /\ Goes(r, pc) /\ Local(r)
        /\ \/ req[r].pc = "idle" /\ pc \in {"refused", "crashed"}
           \/ req[r].pc = "limit" /\ pc = "wait"
           \/ req[r].pc = "judge" /\ pc = "tool"
           \/ req[r].pc = "persist" /\ pc = "reply"
  BY DEF NotFound, PoolTimeout, check_rate_limit, RunTool, _persist, At
<1>2. pc \in {"idle"} \cup Working \cup Ended
  BY DEF Working, Ended, InSlot
<1> DEFINE s == [req[r] EXCEPT !.pc = pc]
<1>3. s \in RequestState /\ s.pc = pc /\ req' = [req EXCEPT ![r] = s]
  BY <1>1, <1>2, GoesIs
<1>4. /\ Holds(req[r].pc, InSlot) = Holds(pc, InSlot)
      /\ Holds(req[r].pc, {"generating"}) = Holds(pc, {"generating"})
      /\ Holds(req[r].pc, Working) = Holds(pc, Working)
  BY <1>1, Places DEF Ended
<1> HIDE DEF s
<1> QED BY <1>1, <1>3, <1>4, LocalMoves

LEMMA ReadyAccounted ==
  ASSUME Accounted, NEW r \in Actor, ensure_ready(r)
  PROVE  Accounted'
<1> DEFINE pc == IF r \in Background THEN "wait" ELSE "limit"
           s == [req[r] EXCEPT !.pc = pc]
<1>1. pc \in {"wait", "limit"} /\ pc \in {"idle"} \cup Working \cup Ended /\ Goes(r, pc)
  BY DEF ensure_ready, Working
<1>2. s \in RequestState /\ s.pc = pc /\ req' = [req EXCEPT ![r] = s]
  BY <1>1, GoesIs
<1>3. slots \in Nat /\ active \in Nat /\ pool \in Nat
  BY Room
<1>4. req[r].pc = "probe"
  BY DEF ensure_ready, At
<1>5. s.pc \in {"wait", "limit"}
  BY <1>1, <1>2
<1> HIDE DEF s, pc
<1>6. /\ slots' = slots + Holds(req[r].pc, InSlot) - Holds(s.pc, InSlot)
      /\ active' = active + Holds(s.pc, {"generating"}) - Holds(req[r].pc, {"generating"})
      /\ pool' = pool + Holds(req[r].pc, Working) - Holds(s.pc, Working)
      /\ slots' \in Nat /\ pool' \in Nat
  BY <1>3, <1>4, <1>5, Places DEF ensure_ready
<1>7. DbTypes'
  BY DbStays DEF ensure_ready
<1> QED BY <1>2, <1>6, <1>7, Moves, TypePartsNext

(* Taking a slot, starting and ending a generation, leaving the slot.      *)
LEMMA SlotAccounted ==
  ASSUME Accounted, NEW r \in Actor,
         TakeSlot(r) \/ CallModel(r) \/ FinalAnswer(r)
  PROVE  Accounted'
<1>1. slots \in Nat /\ active \in Nat /\ pool \in Nat /\ ready \in BOOLEAN
  BY Room, TypeParts DEF Accounted, DbTypes
<1>2. PICK pc \in {"call", "generating", "persist"} :
        /\ Goes(r, pc)
        /\ \/ /\ req[r].pc = "wait" /\ pc = "call"
              /\ slots > 0 /\ slots' = slots - 1 /\ active' = active
           \/ /\ req[r].pc = "call" /\ pc = "generating"
              /\ slots' = slots /\ active' = active + 1
           \/ /\ req[r].pc = "judge" /\ pc = "persist"
              /\ slots' = slots + 1 /\ active' = active
  BY DEF TakeSlot, CallModel, FinalAnswer, At
<1>3. pool' = pool /\ ready' = ready /\ NoDb
  BY DEF TakeSlot, CallModel, FinalAnswer
<1> DEFINE s == [req[r] EXCEPT !.pc = pc]
<1>4. s \in RequestState /\ s.pc = pc /\ req' = [req EXCEPT ![r] = s]
  BY <1>2, GoesIs DEF Working, InSlot
<1> HIDE DEF s
<1>5. /\ slots' = slots + Holds(req[r].pc, InSlot) - Holds(s.pc, InSlot)
      /\ active' = active + Holds(s.pc, {"generating"}) - Holds(req[r].pc, {"generating"})
      /\ pool' = pool + Holds(req[r].pc, Working) - Holds(s.pc, Working)
      /\ slots' \in Nat /\ pool' \in Nat
  BY <1>1, <1>2, <1>3, <1>4, Places
<1>6. DbTypes'
  BY <1>1, <1>3, DbStays
<1> QED BY <1>4, <1>5, <1>6, Moves, TypePartsNext

LEMMA SaysAccounted ==
  ASSUME Accounted, NEW r \in Actor, NEW what \in Said \ {"nothing"}, ModelSays(r, what)
  PROVE  Accounted'
<1> DEFINE s == [req[r] EXCEPT !.pc = "judge", !.said = what,
                               !.rounds = Min({@ + 1, Budget})]
<1>1. req \in [Actor -> RequestState] /\ req[r].rounds \in 0 .. Budget
  BY TypeParts DEF Accounted, RequestState
<1>2. Min({req[r].rounds + 1, Budget}) \in 0 .. Budget
  BY <1>1, MinTypes
<1>3. s \in RequestState /\ s.pc = "judge"
  BY <1>1, <1>2 DEF RequestState, Working, InSlot
<1>4. req' = [req EXCEPT ![r] = s]
  BY <1>1 DEF ModelSays, RequestState
<1> HIDE DEF s
<1>5. /\ slots \in Nat /\ active \in Nat /\ pool \in Nat /\ ready \in BOOLEAN
      /\ active >= 1 /\ req[r].pc = "generating"
  BY Room, TypeParts DEF Accounted, DbTypes, ModelSays, At
<1>6. /\ slots' = slots + Holds(req[r].pc, InSlot) - Holds(s.pc, InSlot)
      /\ active' = active + Holds(s.pc, {"generating"}) - Holds(req[r].pc, {"generating"})
      /\ pool' = pool + Holds(req[r].pc, Working) - Holds(s.pc, Working)
      /\ slots' \in Nat /\ pool' \in Nat
  BY <1>3, <1>5, Places DEF ModelSays
<1>7. DbTypes'
  BY <1>5, DbStays DEF ModelSays
<1> QED BY <1>3, <1>4, <1>6, <1>7, Moves, TypePartsNext

(* A call of a tool that does not exist, and one that is carried out.      *)
LEMMA ToolAccounted ==
  ASSUME Accounted, NEW r \in Actor, UnknownTool(r) \/ execute_tool(r)
  PROVE  Accounted'
<1>1. req[r] \in RequestState /\ req[r].tools \in 0 .. Budget
  BY TypeParts DEF Accounted, RequestState
<1>2. Exhausted(r) \in BOOLEAN
  BY DEF Exhausted
<1>3. PICK n \in 0 .. Budget :
        req' = [req EXCEPT ![r] = [req[r] EXCEPT !.pc = "call", !.tools = n,
                                                 !.forced = @ \/ Exhausted(r)]]
  <2>1. CASE UnknownTool(r)
    <3>1. req' = [req EXCEPT ![r] = [req[r] EXCEPT !.pc = "call", !.tools = req[r].tools,
                                                   !.forced = @ \/ Exhausted(r)]]
      BY <2>1, <1>1 DEF UnknownTool, RequestState
    <3> QED BY <3>1, <1>1
  <2>2. CASE execute_tool(r)
    <3>1. req' = [req EXCEPT ![r] = [req[r] EXCEPT !.pc = "call",
                                                   !.tools = Min({req[r].tools + 1, Budget}),
                                                   !.forced = @ \/ Exhausted(r)]]
      BY <2>2, <1>1 DEF execute_tool, RequestState
    <3> QED BY <3>1, <1>1, MinTypes
  <2> QED BY <2>1, <2>2
<1> DEFINE s == [req[r] EXCEPT !.pc = "call", !.tools = n, !.forced = @ \/ Exhausted(r)]
<1>4. s \in RequestState /\ s.pc = "call"
  BY <1>1, <1>2 DEF RequestState, Working, InSlot
<1>5. req[r].pc \in {"judge", "tool"} /\ Local(r) /\ req' = [req EXCEPT ![r] = s]
  BY <1>3 DEF UnknownTool, execute_tool, At
<1> HIDE DEF s
<1>6. /\ Holds(req[r].pc, InSlot) = Holds(s.pc, InSlot)
      /\ Holds(req[r].pc, {"generating"}) = Holds(s.pc, {"generating"})
      /\ Holds(req[r].pc, Working) = Holds(s.pc, Working)
  BY <1>4, <1>5, Places
<1> QED BY <1>4, <1>5, <1>6, LocalMoves

LEMMA DbTyped ==
  ASSUME Accounted PROVE /\ DbTypes
                         /\ \A r \in Actor : /\ req[r].tools \in 0 .. Budget
                                             /\ req[r].thread \in Request \cup {Old}
BY TypeParts DEF Accounted, RequestState

LEMMA EndsAccounted ==
  ASSUME Accounted, NEW r \in Actor, req[r].pc \in Working, NEW how \in Ended,
         Gives(r, how), DbTypes'
  PROVE  Accounted'
BY GivesBack, TypePartsNext

LEMMA RefuseAccounted ==
  ASSUME Accounted, NEW r \in Actor, req[r].pc \in Working, Refuse(r)
  PROVE  Accounted'
<1>1. DbTypes'
  BY DbTyped DEF Refuse, RollBack, DbTypes
<1> QED BY <1>1, EndsAccounted DEF Refuse, Ended

LEMMA CrashAccounted ==
  ASSUME Accounted, NEW r \in Actor, req[r].pc \in Working, Crash(r)
  PROVE  Accounted'
<1>1. DbTypes'
  BY DbTyped DEF Crash, RollBack, DbTypes
<1> QED BY <1>1, EndsAccounted DEF Crash, Ended

LEMMA ErrorAccounted ==
  ASSUME Accounted, NEW r \in Actor,
         \/ NotReady(r) \/ Limited(r) \/ CallRefused(r) \/ ModelFails(r)
         \/ ForcedRoundFails(r) \/ ToolRaises(r) \/ PersistFails(r)
  PROVE  Accounted'
<1>1. CASE NotReady(r)
  <2>1. DbTypes'
    BY <1>1, DbTyped DEF NotReady, NoDb, DbTypes
  <2> QED BY <1>1, <2>1, EndsAccounted DEF NotReady, At, Working, Ended
<1>2. CASE Limited(r) \/ CallRefused(r) \/ ModelFails(r) \/ ForcedRoundFails(r)
  <2>1. req[r].pc \in Working /\ Refuse(r)
    BY <1>2 DEF Limited, CallRefused, ModelFails, ForcedRoundFails, At, Working, InSlot
  <2> QED BY <2>1, RefuseAccounted
<1>3. CASE PersistFails(r)
  BY <1>3, CrashAccounted DEF PersistFails, At, Working
<1>4. CASE ToolRaises(r)
  <2>1. req[r].pc \in Working
    BY <1>4 DEF ToolRaises, At, Working, InSlot
  <2>2. CASE Crash(r)
    BY <2>1, <2>2, CrashAccounted
  <2>3. CASE /\ r \in Stream /\ Gives(r, "crashed") /\ UNCHANGED ready
             /\ audited' = [audited EXCEPT ![r] = req[r].tools]
             /\ UNCHANGED <<threads, messages>>
    <3>1. DbTypes'
      BY <2>3, DbTyped DEF DbTypes, Request
    <3> QED BY <2>1, <2>3, <3>1, EndsAccounted DEF Ended
  <2> QED BY <1>4, <2>2, <2>3 DEF ToolRaises
<1> QED BY <1>1, <1>2, <1>3, <1>4

LEMMA AnswerAccounted ==
  ASSUME Accounted, NEW r \in Actor,
         \/ r \in Request /\ (Commit(r) \/ Disconnect(r))
         \/ BackgroundEnds(r)
  PROVE  Accounted'
<1>1. req[r].pc \in Working
  BY DEF Commit, Disconnect, BackgroundEnds, At, Working, InSlot
<1>2. DbTypes'
  BY DbTyped DEF Commit, Disconnect, BackgroundEnds, RollBack, NoDb, DbTypes
<1> QED BY <1>1, <1>2, EndsAccounted DEF Commit, Disconnect, BackgroundEnds, Ended

LEMMA DeleteAccounted ==
  ASSUME Accounted, NEW t \in threads, delete_conversation(t)
  PROVE  Accounted'
<1>1. NothingLeaks'
  BY DEF delete_conversation, NothingLeaks, Accounted, At
<1> QED BY <1>1 DEF delete_conversation, Accounted, GatewayTypeOK

LEMMA AccountedInit == GatewayInit => Accounted
<1> SUFFICES ASSUME GatewayInit PROVE Accounted
  OBVIOUS
<1>1. GatewayTypeOK
  BY GatewayConstants DEF GatewayInit, GatewayTypeOK, Fresh, Said, Working, InSlot, Ended
<1>2. \A S : "idle" \notin S => Holders(req, S) = {}
  BY DEF GatewayInit, Holders, Fresh
<1>3. "idle" \notin InSlot /\ "idle" \notin Working /\ "idle" \notin {"generating"}
  BY DEF InSlot, Working
<1>4. /\ Cardinality(Holders(req, InSlot)) = 0
      /\ Cardinality(Holders(req, {"generating"})) = 0
      /\ Cardinality(Holders(req, Working)) = 0
  BY <1>2, <1>3, FS_EmptySet
<1>5. NothingLeaks
  BY <1>4, LeaksCount, GatewayConstants DEF GatewayInit
<1> QED BY <1>1, <1>5 DEF Accounted

LEMMA LoopAccounted ==
  ASSUME Accounted, NEW r \in Actor, Loop(r)
  PROVE  Accounted'
<1>1. ASSUME NEW what \in Said \ {"nothing"}, ModelSays(r, what) PROVE Accounted'
  BY <1>1, SaysAccounted
<1>2. CASE TakeSlot(r) \/ CallModel(r) \/ FinalAnswer(r)
  BY <1>2, SlotAccounted
<1>3. CASE CallRefused(r) \/ ModelFails(r) \/ ForcedRoundFails(r) \/ ToolRaises(r)
  BY <1>3, ErrorAccounted
<1>4. CASE UnknownTool(r) \/ execute_tool(r)
  BY <1>4, ToolAccounted
<1>5. CASE RunTool(r)
  BY <1>5, StandsAccounted
<1> QED BY <1>1, <1>2, <1>3, <1>4, <1>5 DEF Loop

LEMMA AccountedStep ==
  ASSUME Accounted, [GatewayNext]_gatewayVars
  PROVE  Accounted'
<1>1. CASE UNCHANGED gatewayVars
  BY <1>1 DEF gatewayVars, Accounted, GatewayTypeOK, NothingLeaks, At
<1>2. ASSUME NEW r \in Request,
             \/ \E t \in {Old, r} : Open(r, t)
             \/ NotFound(r) \/ PoolTimeout(r) \/ Steps(r) \/ Disconnect(r)
      PROVE  Accounted'
  <2>1. r \in Actor
    BY DEF Actor
  <2>2. CASE \E t \in {Old, r} : Open(r, t)
    BY <2>2, OpenAccounted
  <2>3. CASE NotFound(r) \/ PoolTimeout(r)
    BY <2>1, <2>3, StandsAccounted
  <2>4. CASE Disconnect(r)
    BY <2>1, <2>4, AnswerAccounted
  <2>5. CASE Steps(r)
    BY <2>1, <2>5, ReadyAccounted, ErrorAccounted, StandsAccounted, LoopAccounted,
       AnswerAccounted DEF Steps
  <2> QED BY <1>2, <2>2, <2>3, <2>4, <2>5
<1>3. ASSUME NEW b \in Background, BackgroundOpen(b) \/ BackgroundSteps(b)
      PROVE  Accounted'
  <2>1. b \in Actor
    BY DEF Actor
  <2> QED BY <1>3, <2>1, BackgroundOpenAccounted, ReadyAccounted, ErrorAccounted,
             SlotAccounted, AnswerAccounted DEF BackgroundSteps
<1>4. ASSUME NEW t \in threads, delete_conversation(t) PROVE Accounted'
  BY <1>4, DeleteAccounted
<1> QED BY <1>1, <1>2, <1>3, <1>4 DEF GatewayNext

(* Slots, running generations and connections are accounted for after any  *)
(* number of requests, refusals, crashes and disconnections                *)
(* (service.py:884, client.py:130 and 216).                                *)
THEOREM NoLeak == Spec => []NothingLeaks
<1>1. Accounted => NothingLeaks
  BY DEF Accounted
<1> QED BY <1>1, AccountedInit, AccountedStep, PTL DEF Spec

-----------------------------------------------------------------------------
(* Exchanges.  A conversation made by a request bears its name, a request  *)
(* that is about to write was not given a tool call, and the conversation  *)
(* it has flushed to stays until it commits.                               *)

OwnThread == \A r \in Request : req[r].thread \in {Old, r}
NoCallWritten == \A r \in Request : req[r].pc \in {"persist", "reply"} => ~IsToolCall(r)
FlushedStays == \A r \in Request : At(r, "reply") => req[r].thread \in threads \cup {r}

Written == Accounted /\ OwnThread /\ NoCallWritten /\ FlushedStays /\ ExchangesAreWhole

(* What the rows say of one request.                                       *)
Whole(r) ==
  IF At(r, "answered")
  THEN /\ req[r].thread \in threads => <<r, req[r].thread>> \in messages
       /\ audited[r] = req[r].tools
       /\ ~IsToolCall(r)
  ELSE r \notin threads /\ \A m \in messages : m[1] # r

One(r) == /\ req[r].thread \in {Old, r}
          /\ req[r].pc \in {"persist", "reply"} => ~IsToolCall(r)
          /\ At(r, "reply") => req[r].thread \in threads \cup {r}
          /\ Whole(r)

LEMMA WrittenIsOnes == Written <=> Accounted /\ \A r \in Request : One(r)
BY DEF Written, OwnThread, NoCallWritten, FlushedStays, ExchangesAreWhole, Whole, One

LEMMA WrittenIsOnesNext ==
  ASSUME Accounted', \A r \in Request : One(r)'
  PROVE  Written'
BY DEF Written, OwnThread, NoCallWritten, FlushedStays, ExchangesAreWhole, Whole, One

(* The others do not notice a step that leaves conversations and messages  *)
(* alone.                                                                  *)
LEMMA OthersStay ==
  ASSUME Written, NEW r \in Actor, NEW s, req' = [req EXCEPT ![r] = s],
         UNCHANGED <<threads, messages>>,
         \A q \in Request \ {r} : audited'[q] = audited[q]
  PROVE  \A q \in Request \ {r} : One(q)'
<1>1. \A q \in Request \ {r} : q \in Actor /\ req'[q] = req[q] /\ One(q)
  BY WrittenIsOnes, TypeParts DEF Accounted, Actor
<1> QED BY <1>1 DEF One, Whole, At, IsToolCall

(* Nor does the request that takes it, unless it is answered by it.         *)
LEMMA RowsStay ==
  ASSUME Written, Accounted', NEW r \in Actor, NEW s \in RequestState,
         req' = [req EXCEPT ![r] = s],
         UNCHANGED <<threads, messages>>,
         \A q \in Request \ {r} : audited'[q] = audited[q],
         r \in Request => /\ ~At(r, "answered") /\ s.pc # "answered" /\ s.thread \in {Old, r}
                          /\ s.pc \in {"persist", "reply"} => s.said \notin {"tool", "unknown"}
                          /\ s.pc = "reply" => s.thread \in threads \cup {r}
  PROVE  Written'
<1>1. \A q \in Request \ {r} : One(q)'
  BY OthersStay
<1>2. ASSUME r \in Request PROVE One(r)'
  <2>1. r \in Actor /\ req'[r] = s /\ One(r)
    BY <1>2, WrittenIsOnes, TypeParts DEF Accounted
  <2> QED BY <1>2, <2>1 DEF One, Whole, At, IsToolCall
<1> QED BY <1>1, <1>2, WrittenIsOnesNext

(* What the record of a request is, before a step.                         *)
LEMMA WasOne ==
  ASSUME Written, NEW r \in Actor
  PROVE  /\ Accounted /\ req[r] \in RequestState
         /\ r \in Request => One(r)
BY WrittenIsOnes, TypeParts DEF Accounted

LEMMA EndsWritten ==
  ASSUME Written, Accounted', NEW r \in Actor, NEW how \in Ended,
         req[r].pc \in Working, Gives(r, how),
         r \in Request => how # "answered",
         UNCHANGED <<threads, messages>>,
         \A q \in Request \ {r} : audited'[q] = audited[q]
  PROVE  Written'
<1> DEFINE s == [req[r] EXCEPT !.pc = how, !.rounds = 0, !.forced = FALSE]
<1>1. req[r] \in RequestState /\ (r \in Request => One(r)) /\ 0 \in 0 .. Budget
  BY WasOne, GatewayConstants
<1>2. s \in RequestState /\ s.pc = how /\ s.thread = req[r].thread
  BY <1>1 DEF RequestState
<1>3. req' = [req EXCEPT ![r] = s]
  BY DEF Gives
<1>4. req[r].pc # "answered" /\ how \notin {"persist", "reply"}
  BY DEF Working, InSlot, Ended
<1>5. r \in Request => /\ ~At(r, "answered") /\ s.pc # "answered" /\ s.thread \in {Old, r}
                       /\ s.pc \notin {"persist", "reply"}
  BY <1>1, <1>2, <1>4 DEF One, At
<1> HIDE DEF s
<1> QED BY <1>2, <1>3, <1>5, RowsStay

LEMMA GoesWritten ==
  ASSUME Written, Accounted', NEW r \in Actor, NEW pc \in {"idle"} \cup Working \cup Ended,
         Goes(r, pc), NoDb,
         ~At(r, "answered"), pc # "answered",
         pc \in {"persist", "reply"} => ~IsToolCall(r),
         r \in Request /\ pc = "reply" => req[r].thread \in threads \cup {r}
  PROVE  Written'
<1> DEFINE s == [req[r] EXCEPT !.pc = pc]
<1>1. req[r] \in RequestState /\ (r \in Request => One(r)) /\ Accounted
  BY WasOne
<1>2. s \in RequestState /\ s.pc = pc /\ req' = [req EXCEPT ![r] = s]
  BY <1>1, GoesIs
<1>3. s.thread = req[r].thread /\ s.said = req[r].said
  BY <1>1 DEF RequestState
<1>4. r \in Request => /\ ~At(r, "answered") /\ s.pc # "answered" /\ s.thread \in {Old, r}
                       /\ s.pc \in {"persist", "reply"} => s.said \notin {"tool", "unknown"}
                       /\ s.pc = "reply" => s.thread \in threads \cup {r}
  BY <1>1, <1>2, <1>3 DEF One, IsToolCall
<1> HIDE DEF s
<1> QED BY <1>2, <1>4, RowsStay DEF NoDb

LEMMA OpenWritten ==
  ASSUME Written, Accounted', NEW r \in Request, NEW t \in {Old, r}, Open(r, t)
  PROVE  Written'
<1> DEFINE s == [req[r] EXCEPT !.pc = "probe", !.thread = t]
<1>1. r \in Actor /\ req[r] \in RequestState
  BY WasOne DEF Actor
<1>2. s \in RequestState /\ s.pc = "probe" /\ s.thread = t
  BY <1>1 DEF RequestState, Working
<1>3. req' = [req EXCEPT ![r] = s] /\ ~At(r, "answered")
  BY <1>1 DEF Open, At, RequestState
<1> HIDE DEF s
<1> QED BY <1>1, <1>2, <1>3, RowsStay DEF Open, NoDb

LEMMA SaysWritten ==
  ASSUME Written, Accounted', NEW r \in Actor, NEW what \in Said \ {"nothing"},
         ModelSays(r, what)
  PROVE  Written'
<1> DEFINE s == [req[r] EXCEPT !.pc = "judge", !.said = what,
                               !.rounds = Min({@ + 1, Budget})]
<1>1. req[r] \in RequestState /\ req[r].rounds \in 0 .. Budget /\ (r \in Request => One(r))
  BY WasOne DEF RequestState
<1>2. Min({req[r].rounds + 1, Budget}) \in 0 .. Budget
  BY <1>1, MinTypes
<1>3. s \in RequestState /\ s.pc = "judge" /\ s.thread = req[r].thread
  BY <1>1, <1>2 DEF RequestState, Working, InSlot
<1>4. req' = [req EXCEPT ![r] = s] /\ ~At(r, "answered")
  BY <1>1 DEF ModelSays, RequestState, At
<1>5. r \in Request => s.thread \in {Old, r}
  BY <1>1, <1>3 DEF One
<1> HIDE DEF s
<1> QED BY <1>3, <1>4, <1>5, RowsStay DEF ModelSays, NoDb

LEMMA ToolWritten ==
  ASSUME Written, Accounted', NEW r \in Actor, UnknownTool(r) \/ execute_tool(r)
  PROVE  Written'
<1>1. req[r] \in RequestState /\ (r \in Request => One(r)) /\ req[r].tools \in 0 .. Budget
  BY WasOne DEF RequestState
<1>2. PICK n \in 0 .. Budget :
        req' = [req EXCEPT ![r] = [req[r] EXCEPT !.pc = "call", !.tools = n,
                                                 !.forced = @ \/ Exhausted(r)]]
  <2>1. CASE UnknownTool(r)
    <3>1. req' = [req EXCEPT ![r] = [req[r] EXCEPT !.pc = "call", !.tools = req[r].tools,
                                                   !.forced = @ \/ Exhausted(r)]]
      BY <2>1, <1>1 DEF UnknownTool, RequestState
    <3> QED BY <3>1, <1>1
  <2>2. CASE execute_tool(r)
    <3>1. req' = [req EXCEPT ![r] = [req[r] EXCEPT !.pc = "call",
                                                   !.tools = Min({req[r].tools + 1, Budget}),
                                                   !.forced = @ \/ Exhausted(r)]]
      BY <2>2, <1>1 DEF execute_tool, RequestState
    <3> QED BY <3>1, <1>1, MinTypes
  <2> QED BY <2>1, <2>2
<1> DEFINE s == [req[r] EXCEPT !.pc = "call", !.tools = n, !.forced = @ \/ Exhausted(r)]
<1>3. Exhausted(r) \in BOOLEAN
  BY DEF Exhausted
<1>4. s \in RequestState /\ s.pc = "call" /\ s.thread = req[r].thread
  BY <1>1, <1>3 DEF RequestState, Working, InSlot
<1>5. r \in Request => s.thread \in {Old, r}
  BY <1>1, <1>4 DEF One
<1>6. ~At(r, "answered") /\ NoDb
  BY DEF UnknownTool, execute_tool, At, Local
<1>7. req' = [req EXCEPT ![r] = s]
  BY <1>2
<1> HIDE DEF s
<1> QED BY <1>4, <1>5, <1>6, <1>7, RowsStay DEF NoDb

(* Going on without writing: a final answer is not a tool call, and the    *)
(* flush finds its conversation.                                           *)
LEMMA StandsWritten ==
  ASSUME Written, Accounted', NEW r \in Actor,
         \/ NotFound(r) \/ PoolTimeout(r) \/ ensure_ready(r) \/ check_rate_limit(r)
         \/ TakeSlot(r) \/ CallModel(r) \/ RunTool(r) \/ FinalAnswer(r) \/ _persist(r)
         \/ BackgroundOpen(r)
  PROVE  Written'
<1>1. PICK pc \in {"refused", "crashed", "wait", "limit", "call", "generating", "tool",
                   "persist", "reply", "probe"} :
        /\ Goes(r, pc) /\ ~At(r, "answered")
        /\ pc = "persist" => ~IsToolCall(r)
        /\ pc = "reply" => req[r].thread \in threads \cup {r} /\ At(r, "persist")
  BY DEF NotFound, PoolTimeout, ensure_ready, check_rate_limit, TakeSlot, CallModel, RunTool,
         FinalAnswer, _persist, BackgroundOpen, At
<1>2. NoDb
  BY DEF NotFound, PoolTimeout, ensure_ready, check_rate_limit, TakeSlot, CallModel, RunTool,
         FinalAnswer, _persist, BackgroundOpen, Local
<1>3. pc \in {"idle"} \cup Working \cup Ended /\ pc # "answered"
  BY DEF Working, Ended, InSlot
<1>4. CASE r \in Request
  <2>1. pc \in {"persist", "reply"} => ~IsToolCall(r)
    BY <1>1, <1>4, WasOne DEF One, At
  <2> QED BY <1>1, <1>2, <1>3, <2>1, GoesWritten
<1>5. CASE r \notin Request
  <2>1. req[r] \in RequestState /\ Accounted
    BY WasOne
  <2>2. /\ [req[r] EXCEPT !.pc = pc] \in RequestState
        /\ req' = [req EXCEPT ![r] = [req[r] EXCEPT !.pc = pc]]
    BY <1>1, <1>3, <2>1, GoesIs
  <2> QED BY <1>2, <1>5, <2>2, RowsStay DEF NoDb
<1> QED BY <1>4, <1>5

(* A request ends without an answer, and without writing but perhaps its   *)
(* own audit rows.                                                         *)
EndsQuietly(r) ==
  \E how \in Ended :
    /\ Gives(r, how) /\ (r \in Request => how # "answered")
    /\ UNCHANGED <<threads, messages>>
    /\ \A q \in Request \ {r} : audited'[q] = audited[q]

LEMMA ErrorWritten ==
  ASSUME Written, Accounted', NEW r \in Actor,
         \/ NotReady(r) \/ Limited(r) \/ CallRefused(r) \/ ModelFails(r)
         \/ ForcedRoundFails(r) \/ ToolRaises(r) \/ PersistFails(r)
         \/ r \in Request /\ Disconnect(r)
         \/ r \notin Request /\ BackgroundEnds(r)
  PROVE  Written'
<1>1. req[r].pc \in Working
  BY DEF NotReady, Limited, CallRefused, ModelFails, ForcedRoundFails, ToolRaises,
         PersistFails, Disconnect, BackgroundEnds, At, Working, InSlot
<1>2. audited \in [Request -> 0 .. Budget]
  BY WasOne, DbTyped DEF DbTypes
<1>3. EndsQuietly(r)
  <2>1. CASE NotReady(r)
    BY <2>1 DEF NotReady, NoDb, Ended, EndsQuietly
  <2>2. ASSUME Refuse(r) PROVE EndsQuietly(r)
    BY <2>2, <1>2 DEF Refuse, RollBack, Ended, EndsQuietly
  <2>3. ASSUME Crash(r) PROVE EndsQuietly(r)
    BY <2>3 DEF Crash, RollBack, Ended, EndsQuietly
  <2>4. CASE ToolRaises(r)
    <3>1. CASE /\ r \in Stream /\ Gives(r, "crashed") /\ UNCHANGED ready
               /\ audited' = [audited EXCEPT ![r] = req[r].tools]
               /\ UNCHANGED <<threads, messages>>
      BY <3>1, <1>2 DEF Ended, EndsQuietly
    <3> QED BY <2>4, <2>3, <3>1 DEF ToolRaises
  <2>5. CASE r \in Request /\ Disconnect(r)
    BY <2>5 DEF Disconnect, RollBack, Ended, EndsQuietly
  <2>6. CASE r \notin Request /\ BackgroundEnds(r)
    BY <2>6 DEF BackgroundEnds, NoDb, Ended, EndsQuietly
  <2> QED BY <2>1, <2>2, <2>3, <2>4, <2>5, <2>6
         DEF Limited, CallRefused, ModelFails, ForcedRoundFails, PersistFails
<1> QED BY <1>1, <1>3, EndsWritten DEF EndsQuietly

(* The answer: conversation, messages and audit rows in one transaction.   *)
LEMMA CommitWritten ==
  ASSUME Written, Accounted', NEW r \in Request, Commit(r)
  PROVE  Written'
<1>1. r \in Actor /\ req[r] \in RequestState /\ One(r) /\ At(r, "reply")
      /\ req \in [Actor -> RequestState] /\ audited \in [Request -> 0 .. Budget]
  BY WasOne, DbTyped, TypeParts DEF Actor, Commit, Accounted, DbTypes
<1>2. /\ req'[r].pc = "answered" /\ req'[r].thread = req[r].thread
      /\ req'[r].tools = req[r].tools /\ req'[r].said = req[r].said
      /\ \A q \in Actor \ {r} : req'[q] = req[q]
  BY <1>1 DEF Commit, Gives, RequestState
<1>3. /\ threads' = threads \cup {req[r].thread}
      /\ messages' = messages \cup {<<r, req[r].thread>>}
      /\ audited'[r] = req[r].tools
      /\ \A q \in Request \ {r} : audited'[q] = audited[q]
  BY <1>1 DEF Commit
<1>4. One(r)'
  BY <1>1, <1>2, <1>3 DEF One, Whole, At, IsToolCall
<1>5. ASSUME NEW q \in Request \ {r} PROVE One(q)'
  <2>1. One(q) /\ q \in Actor /\ q # Old /\ r # Old /\ q # r
    BY WrittenIsOnes, GatewayConstants DEF Actor
  <2>2. req'[q] = req[q] /\ audited'[q] = audited[q]
    BY <1>2, <1>3, <2>1
  <2>3. req[r].thread \in threads \/ req[r].thread = r
    BY <1>1 DEF One
  <2>4. req[q].thread \in threads' => req[q].thread \in threads
    BY <1>3, <2>1, <2>3 DEF One
  <2>5. q \notin threads => q \notin threads'
    BY <1>3, <2>1, <2>3
  <2>6. (\A m \in messages : m[1] # q) => \A m \in messages' : m[1] # q
    BY <1>3, <2>1
  <2> QED BY <1>3, <2>1, <2>2, <2>4, <2>5, <2>6 DEF One, Whole, At, IsToolCall
<1> QED BY <1>4, <1>5, WrittenIsOnesNext

(* A deletion takes the messages with the conversation and waits for who   *)
(* has flushed to it.                                                      *)
LEMMA DeleteWritten ==
  ASSUME Written, Accounted', NEW t \in threads, delete_conversation(t)
  PROVE  Written'
<1>1. ASSUME NEW q \in Request PROVE One(q)'
  <2>1. One(q)
    BY WrittenIsOnes
  <2>2. req' = req /\ audited' = audited /\ threads' = threads \ {t}
        /\ messages' = {m \in messages : m[2] # t}
        /\ ~(At(q, "reply") /\ req[q].thread = t)
    BY DEF delete_conversation
  <2>3. \A x : <<q, x>> \in messages /\ x # t => <<q, x>> \in messages'
    BY <2>2
  <2> QED BY <2>1, <2>2, <2>3 DEF One, Whole, At, IsToolCall
<1> QED BY <1>1, WrittenIsOnesNext

LEMMA WrittenInit == GatewayInit => Written
<1> SUFFICES ASSUME GatewayInit PROVE Written
  OBVIOUS
<1>1. Accounted
  BY AccountedInit
<1>2. \A r \in Request : One(r)
  BY GatewayConstants DEF GatewayInit, Fresh, One, Whole, At, Actor
<1> QED BY <1>1, <1>2, WrittenIsOnes

LEMMA WrittenStep ==
  ASSUME Written, [GatewayNext]_gatewayVars
  PROVE  Written'
<1>1. Accounted'
  BY AccountedStep DEF Written
<1>2. CASE UNCHANGED gatewayVars
  <2>1. \A r \in Request : One(r)'
    BY <1>2, WrittenIsOnes DEF gatewayVars, One, Whole, At, IsToolCall
  <2> QED BY <1>1, <2>1, WrittenIsOnesNext
<1>3. ASSUME NEW r \in Request,
             \/ \E t \in {Old, r} : Open(r, t)
             \/ NotFound(r) \/ PoolTimeout(r) \/ Steps(r) \/ Disconnect(r)
      PROVE  Written'
  <2>1. r \in Actor
    BY DEF Actor
  <2>2. CASE \E t \in {Old, r} : Open(r, t)
    BY <1>1, <2>2, OpenWritten
  <2>3. CASE NotFound(r) \/ PoolTimeout(r) \/ Disconnect(r)
    BY <1>1, <2>1, <2>3, StandsWritten, ErrorWritten
  <2>4. CASE Loop(r)
    BY <1>1, <2>1, <2>4, StandsWritten, ErrorWritten, SaysWritten, ToolWritten DEF Loop
  <2>5. CASE Steps(r) /\ ~Loop(r)
    BY <1>1, <2>1, <2>5, StandsWritten, ErrorWritten, CommitWritten DEF Steps
  <2> QED BY <1>3, <2>2, <2>3, <2>4, <2>5
<1>4. ASSUME NEW b \in Background, BackgroundOpen(b) \/ BackgroundSteps(b)
      PROVE  Written'
  <2>1. b \in Actor /\ b \notin Request
    BY GatewayConstants DEF Actor
  <2> QED BY <1>1, <1>4, <2>1, StandsWritten, ErrorWritten DEF BackgroundSteps
<1>5. ASSUME NEW t \in threads, delete_conversation(t) PROVE Written'
  BY <1>1, <1>5, DeleteWritten
<1> QED BY <1>2, <1>3, <1>4, <1>5 DEF GatewayNext

(* An answered request left its conversation, its messages and its audit   *)
(* rows, an unanswered one left none, and no tool call was the answer      *)
(* (service.py:_persist, routes/ai.py).                                    *)
THEOREM WholeExchanges == Spec => []ExchangesAreWhole
<1>1. Written => ExchangesAreWhole
  BY DEF Written
<1> QED BY <1>1, WrittenInit, WrittenStep, PTL DEF Spec

=============================================================================
