-------------------------- MODULE FrameDeltaProofs --------------------------
(***************************************************************************)
(* Proofs about the entity frames (FrameDelta), for rings of any size, any *)
(* number of clients and frames, and any course of the game.               *)
(***************************************************************************)
EXTENDS FrameDelta, ListsProofs

-----------------------------------------------------------------------------
(* A ring has the states in order of number, from its place first on.       *)
Holds(ring, size, first, states) ==
  \A n \in DOMAIN states :
    ring[(first + Rank(DOMAIN states, n)) % size] =
      [number |-> n, state |-> states[n]]

(* The entities a difference is about. *)
Sent(entities) == entities.removed \cup DOMAIN entities.updated

(* Both ends' frames point into what their rings have had, and what the     *)
(* client is sent comes to an end.                                          *)
FramesOK ==
  /\ \A s \in 0 .. PacketBackup - 1 : frames[s].first \in Nat
  /\ \A s \in 0 .. PacketBackup - 1 :
       /\ cl_frames[s].first \in Nat
       /\ cl_frames[s].first + cl_frames[s].num <= cl_entity_state

NumbersOK == \A m \in downlink : IsFiniteSet(Sent(m.entities))

TypeInv == TypeOK /\ FramesOK /\ NumbersOK

(* How many entries of the server's ring a frame of all clients takes at    *)
(* most, when the ring suffices.                                            *)
Share == NumEntityStates \div (PacketBackup - 3)

(* The server has frame n as it was, and the ring has since gone on by      *)
(* no more than the share of each frame.                                    *)
ServerHas(n) ==
  LET f == frames[Slot(n)]
  IN  /\ f.num = Cardinality(DOMAIN world.seen[n])
      /\ f.first + f.num <= next_entity_state
      /\ next_entity_state <= f.first + (frame_num - n + 1) * Share
      /\ ServerStates(n) = world.seen[n]

(* The client has frame n, and as it was if no base frame is overwritten    *)
(* while it is read, unless its ring has gone around, which takes a crowd.  *)
ClientHas(n) ==
  LET f == cl_frames[Slot(n)]
  IN  /\ f.valid /\ f.frame_num = n
      /\ n = cl_frame => cl_entity_state = f.first + f.num
      /\ ReadIntact =>
           /\ f.num = Cardinality(DOMAIN world.seen[n])
           /\ cl_entity_state - f.first <= EntityStateBackup =>
                Holds(cl_entity_states, EntityStateBackup, f.first, world.seen[n])
      /\ ~Crowded => cl_entity_state <= f.first + (cl_frame - n + 1) * PacketEntities

(* The server still has every frame that it may be told the client has.     *)
SentOK ==
  \A n \in uplink \cup {m.frame_num : m \in downlink} \cup {last_frame, cl_frame} :
    n # -1 => /\ n \in 1 .. frame_num
              /\ frame_num - n < PacketBackup - 3 => ServerHas(n)

(* The client still has every frame that it has said it has.                *)
ReceivedOK ==
  \A n \in uplink \cup {m.delta : m \in downlink} \cup {last_frame, cl_frame} :
    n # -1 => /\ n \in 1 .. cl_frame
              /\ cl_frame - n < PacketBackup => ClientHas(n)

(* The entities the difference in a datagram is to.                         *)
Base(m) == IF m.delta = -1 THEN <<>> ELSE world.seen[m.delta]

DownlinkOK ==
  \A m \in downlink :
    /\ m.delta # -1 => m.delta < m.frame_num /\ m.frame_num - m.delta < PacketBackup - 3
    /\ m.entities = Emitted(Base(m), world.seen[m.frame_num])

SafetyInv == SentOK /\ ReceivedOK /\ DownlinkOK /\ DroppedOnlyWhenCrowded

FrameInv == TypeInv /\ (RingSuffices => SafetyInv)

-----------------------------------------------------------------------------
(* The numbers of the constants.                                            *)
LEMMA Sizes ==
  /\ PacketBackup \in Nat /\ PacketBackup > 3
  /\ PacketEntities \in Nat /\ PacketEntities > 0
  /\ MaxEdicts \in Nat
  /\ MaxClients \in Nat /\ MaxClients > 0
  /\ MaxFrames \in Nat
BY FrameDeltaAssumption

LEMMA RingSizes ==
  /\ EntityStateBackup \in Nat /\ EntityStateBackup > 0
  /\ NumEntityStates \in Nat /\ NumEntityStates > 0
  /\ MaxEdicts <= EntityStateBackup
<1> DEFINE e == PacketBackup * PacketEntities
<1>1. e \in Nat /\ e > 0
  BY Sizes
<1>2. NumEntityStates = MaxClients * e
  BY Sizes DEF NumEntityStates
<1>3. EntityStateBackup = e
  BY DEF EntityStateBackup
<1> HIDE DEF e
<1>4. MaxClients * e \in Nat /\ MaxClients * e > 0
  BY <1>1, Sizes
<1> QED
  BY <1>1, <1>2, <1>3, <1>4, FrameDeltaAssumption

(* What a client can see in a frame: entities with numbers, not too many.   *)
LEMMA Seen ==
  ASSUME world \in Worlds, NEW n \in 1 .. MaxFrames
  PROVE  /\ world.others[n] \in Nat
         /\ n \in DOMAIN world.seen
         /\ DOMAIN world.seen[n] \in SUBSET Nat
         /\ DOMAIN world.seen[n] \subseteq Numbers
         /\ IsFiniteSet(DOMAIN world.seen[n])
         /\ Cardinality(DOMAIN world.seen[n]) \in 0 .. EntityStateBackup
         /\ world.seen[n] = [e \in DOMAIN world.seen[n] |-> world.seen[n][e]]
<1>1. /\ world.others[n] \in Nat
      /\ n \in DOMAIN world.seen
      /\ DOMAIN world.seen[n] \subseteq 1 .. MaxEdicts - 1
      /\ world.seen[n] = [e \in DOMAIN world.seen[n] |-> world.seen[n][e]]
  BY WorldsAssumption
<1>2. /\ IsFiniteSet(1 .. MaxEdicts - 1)
      /\ Cardinality(1 .. MaxEdicts - 1) <= EntityStateBackup
  <2>1. /\ IsFiniteSet(1 .. MaxEdicts - 1)
        /\ Cardinality(1 .. MaxEdicts - 1) =
             IF 1 > MaxEdicts - 1 THEN 0 ELSE MaxEdicts - 1 - 1 + 1
    BY Sizes, FS_Interval
  <2> QED
    BY <2>1, Sizes, RingSizes
<1> DEFINE S == DOMAIN world.seen[n]
           T == 1 .. MaxEdicts - 1
<1>3. S \in SUBSET T
  BY <1>1
<1>4. T \subseteq Nat
  BY Sizes
<1>5. S \subseteq Numbers
  BY <1>1 DEF Numbers
<1> HIDE DEF S, T
<1>6. IsFiniteSet(T) /\ Cardinality(T) <= EntityStateBackup /\ Cardinality(T) \in Nat
  BY <1>2, FS_CardinalityType DEF T
<1>7. IsFiniteSet(S) /\ Cardinality(S) <= Cardinality(T) /\ Cardinality(S) \in Nat
  BY <1>3, <1>6, FS_Subset, FS_CardinalityType
<1>8. Cardinality(S) \in 0 .. EntityStateBackup
  BY <1>6, <1>7, RingSizes
<1>9. S \in SUBSET Nat
  BY <1>3, <1>4
<1> QED
  BY <1>1, <1>5, <1>7, <1>8, <1>9 DEF S

LEMMA NumbersFinite ==
  ASSUME world \in Worlds
  PROVE  IsFiniteSet(Numbers) /\ Cardinality(Numbers) \in Nat /\ Numbers \subseteq Nat
<1> DEFINE T == 1 .. MaxEdicts - 1
<1>1. IsFiniteSet(T) /\ T \subseteq Nat
  BY Sizes, FS_Interval
<1>2. Numbers \in SUBSET T
  BY WorldsAssumption DEF Numbers
<1> HIDE DEF T
<1>3. IsFiniteSet(Numbers)
  BY <1>1, <1>2, FS_Subset
<1> QED
  BY <1>1, <1>2, <1>3, FS_CardinalityType

LEMMA SlotIs ==
  ASSUME NEW n \in Nat
  PROVE  Slot(n) \in 0 .. PacketBackup - 1
BY Sizes DEF Slot

LEMMA SlotDistinct ==
  ASSUME NEW m \in Nat, NEW n \in Nat, m < n, n - m < PacketBackup
  PROVE  Slot(m) # Slot(n)
BY Sizes, RemaindersDiffer DEF Slot

-----------------------------------------------------------------------------
(* The ranks of the entities of a frame are the numbers below their count.  *)
LEMMA Ranks ==
  ASSUME NEW S \in SUBSET Nat, IsFiniteSet(S)
  PROVE  /\ Cardinality(S) \in Nat
         /\ \A n \in S : Rank(S, n) \in 0 .. Cardinality(S) - 1
         /\ \A m, n \in S : m < n => Rank(S, m) < Rank(S, n)
         /\ \A i \in 0 .. Cardinality(S) - 1 : \E n \in S : Rank(S, n) = i
<1> DEFINE c == Cardinality(S)
           B(n) == {m \in S : m < n}
<1>1. \A n \in S : Rank(S, n) = Cardinality(B(n))
  BY DEF Rank
<1>2. \A n \in S : IsFiniteSet(B(n)) /\ Cardinality(B(n)) \in Nat
  <2> TAKE n \in S
  <2>1. B(n) \in SUBSET S
    OBVIOUS
  <2> HIDE DEF B
  <2> QED
    BY <2>1, FS_Subset, FS_CardinalityType
<1>3. \A m, n \in S : m < n => Cardinality(B(m)) + 1 <= Cardinality(B(n))
  <2> SUFFICES ASSUME NEW m \in S, NEW n \in S, m < n
               PROVE  Cardinality(B(m)) + 1 <= Cardinality(B(n))
    OBVIOUS
  <2>1. B(m) \cup {m} \in SUBSET B(n) /\ m \notin B(m)
    <3>1. \A k \in S : k < m => k < n
      OBVIOUS
    <3>2. ~(m < m)
      OBVIOUS
    <3> QED
      BY <3>1, <3>2
  <2> HIDE DEF B
  <2>2. Cardinality(B(m) \cup {m}) = Cardinality(B(m)) + 1
    BY <2>1, <1>2, FS_AddElement
  <2>3. Cardinality(B(m) \cup {m}) <= Cardinality(B(n))
    BY <2>1, <1>2, FS_Subset
  <2> QED
    BY <2>2, <2>3
<1>4. c \in Nat
  BY FS_CardinalityType
<1>5. \A n \in S : Cardinality(B(n)) \in 0 .. c - 1
  <2> TAKE n \in S
  <2>1. B(n) \cup {n} \in SUBSET S /\ n \notin B(n)
    OBVIOUS
  <2> HIDE DEF B
  <2>2. Cardinality(B(n) \cup {n}) = Cardinality(B(n)) + 1
    BY <2>1, <1>2, FS_AddElement
  <2>3. Cardinality(B(n) \cup {n}) <= c
    BY <2>1, FS_Subset
  <2> QED
    BY <2>2, <2>3, <1>2, <1>4
<1> DEFINE f == [n \in S |-> Rank(S, n)]
           T == 0 .. c - 1
<1> HIDE DEF B
<1>6. f \in Injection(S, T)
  <2>1. f \in [S -> T]
    BY <1>1, <1>5
  <2>2. \A m, n \in S : f[m] = f[n] => m = n
    <3> SUFFICES ASSUME NEW m \in S, NEW n \in S, m # n
                 PROVE  f[m] # f[n]
      OBVIOUS
    <3>1. f[m] = Cardinality(B(m)) /\ f[n] = Cardinality(B(n))
      BY <1>1
    <3>2. m < n \/ n < m
      OBVIOUS
    <3> QED
      BY <3>1, <3>2, <1>2, <1>3
  <2> HIDE DEF f
  <2> QED
    BY <2>1, <2>2 DEF Injection, IsInjective
<1>7. IsFiniteSet(T) /\ Cardinality(T) = c
  <2>1. c - 1 \in Int /\ (IF 0 > c - 1 THEN 0 ELSE c - 1 - 0 + 1) = c
    BY <1>4
  <2> HIDE DEF c
  <2> QED
    BY <2>1, FS_Interval
<1>8. f \in Surjection(S, T)
  <2> HIDE DEF f, T
  <2> QED
    BY <1>6, <1>7, FS_Injection
<1>9. \A i \in T : \E n \in S : f[n] = i
  BY <1>8 DEF Surjection
<1> QED
  BY <1>1, <1>2, <1>3, <1>4, <1>5, <1>9

(* Any of the entities of a frame have a greatest: the one of the greatest  *)
(* rank.                                                                    *)
LEMMA Greatest ==
  ASSUME NEW S \in SUBSET Nat, IsFiniteSet(S), NEW T \in SUBSET S, T # {}
  PROVE  \E x \in T : \A y \in T : x >= y
<1> DEFINE R == {Rank(S, n) : n \in T}
           c == Cardinality(S)
<1>1. R \in SUBSET Nat /\ R # {} /\ c \in Nat /\ \A r \in R : r <= c
  <2>1. c \in Nat /\ \A n \in S : Rank(S, n) \in 0 .. c - 1
    BY Ranks
  <2> HIDE DEF c
  <2>2. \A n \in T : Rank(S, n) \in Nat /\ Rank(S, n) <= c
    BY <2>1
  <2>3. R # {}
    OBVIOUS
  <2>4. \A r \in R : r \in Nat /\ r <= c
    BY <2>2
  <2> QED
    BY <2>1, <2>3, <2>4
<1> HIDE DEF c
<1>2. PICK r \in R : \A q \in R : r >= q
  <2> HIDE DEF R
  <2> QED
    BY <1>1, MaxExists
<1>3. PICK x \in T : r = Rank(S, x)
  BY <1>2
<1>4. \A y \in T : x >= y
  <2> TAKE y \in T
  <2>1. Rank(S, x) >= Rank(S, y) /\ Rank(S, x) \in Nat /\ Rank(S, y) \in Nat
    BY <1>1, <1>2, <1>3
  <2>2. x < y => Rank(S, x) < Rank(S, y)
    BY Ranks
  <2> QED
    BY <2>1, <2>2
<1> QED
  BY <1>4

(* A place of the ring is among count places from next on. *)
Taken(size, next, count, k) == \E i \in 0 .. count - 1 : (next + i) % size = k

(* An entry of a ring is one of the states. *)
HasState(states, entry) ==
  \E n \in DOMAIN states : entry = [number |-> n, state |-> states[n]]

(* An entry of a ring that states are stored in is one of the states if its *)
(* place is taken, and else what it was.                                    *)
LEMMA StoredEntry ==
  ASSUME NEW ring, NEW size \in Nat, size > 0, NEW next \in Nat, NEW states,
         DOMAIN states \in SUBSET Nat, IsFiniteSet(DOMAIN states),
         NEW k \in DOMAIN ring
  PROVE  /\ DOMAIN Stored(ring, size, next, states) = DOMAIN ring
         /\ Taken(size, next, Cardinality(DOMAIN states), k) =>
              HasState(states, Stored(ring, size, next, states)[k])
         /\ ~Taken(size, next, Cardinality(DOMAIN states), k) =>
              Stored(ring, size, next, states)[k] = ring[k]
<1> DEFINE S == DOMAIN states
           At(j) == {n \in S : (next + Rank(S, n)) % size = j}
           c == Cardinality(S)
           new == Stored(ring, size, next, states)
<1>1. new = [j \in DOMAIN ring |->
               IF At(j) = {} THEN ring[j]
               ELSE [number |-> Max(At(j)), state |-> states[Max(At(j))]]]
  BY DEF Stored
<1>2. /\ DOMAIN new = DOMAIN ring
      /\ new[k] = IF At(k) = {} THEN ring[k]
                  ELSE [number |-> Max(At(k)), state |-> states[Max(At(k))]]
  <2> HIDE DEF At
  <2> QED
    BY <1>1
<1>3. At(k) # {} => Max(At(k)) \in S
  <2> SUFFICES ASSUME At(k) # {} PROVE Max(At(k)) \in S
    OBVIOUS
  <2>1. At(k) \in SUBSET S /\ At(k) \in SUBSET Nat
    OBVIOUS
  <2> HIDE DEF At
  <2>2. PICK x \in At(k) : \A y \in At(k) : x >= y
    BY <2>1, Greatest
  <2>3. Max(At(k)) = x
    BY <2>1, <2>2, MaxIs
  <2> QED
    BY <2>1, <2>2, <2>3
<1>4. ~Taken(size, next, c, k) => At(k) = {}
  BY Ranks DEF Taken
<1>5. Taken(size, next, c, k) => At(k) # {}
  <2> SUFFICES ASSUME NEW i \in 0 .. c - 1, (next + i) % size = k
               PROVE  At(k) # {}
    BY DEF Taken
  <2>1. PICK n \in S : Rank(S, n) = i
    BY Ranks
  <2> QED
    BY <2>1
<1> HIDE DEF At, new
<1>6. At(k) = {} => new[k] = ring[k]
  BY <1>2
<1>7. At(k) # {} => HasState(states, new[k])
  BY <1>2, <1>3 DEF HasState
<1> QED
  BY <1>2, <1>4, <1>5, <1>6, <1>7 DEF new

(* Entities of a frame that fits into a ring have places of their own in it. *)
LEMMA PlacesDiffer ==
  ASSUME NEW size \in Nat, size > 0, NEW next \in Nat,
         NEW S \in SUBSET Nat, IsFiniteSet(S), Cardinality(S) <= size,
         NEW m \in S, NEW n \in S, m # n
  PROVE  (next + Rank(S, m)) % size # (next + Rank(S, n)) % size
<1> DEFINE i == next + Rank(S, n)
           j == next + Rank(S, m)
           c == Cardinality(S)
<1>1. Rank(S, n) \in 0 .. c - 1 /\ Rank(S, m) \in 0 .. c - 1 /\ c \in Nat
  BY Ranks
<1>2. m < n \/ n < m
  OBVIOUS
<1>3. /\ m < n => Rank(S, m) < Rank(S, n)
      /\ n < m => Rank(S, n) < Rank(S, m)
  BY Ranks
<1>4. i \in Nat /\ j \in Nat /\ ((j < i /\ i - j < size) \/ (i < j /\ j - i < size))
  <2>1. c <= size
    OBVIOUS
  <2> HIDE DEF c
  <2> QED
    BY <1>1, <1>2, <1>3, <2>1
<1> HIDE DEF i, j
<1>5. i % size # j % size
  BY <1>4, RemaindersDiffer
<1> QED
  BY <1>5 DEF i, j

(* What a ring has is what is read from it.                                 *)
LEMMA HoldsRead ==
  ASSUME NEW ring, NEW size, NEW first, NEW states,
         DOMAIN states \in SUBSET Nat, IsFiniteSet(DOMAIN states),
         states = [n \in DOMAIN states |-> states[n]],
         Holds(ring, size, first, states)
  PROVE  StatesAt(ring, size, first, Cardinality(DOMAIN states)) = states
<1> DEFINE S == DOMAIN states
           c == Cardinality(S)
           entries == {ring[(first + i) % size] : i \in 0 .. c - 1}
           E(n) == [number |-> n, state |-> states[n]]
<1>1. /\ \A n \in S : Rank(S, n) \in 0 .. c - 1
      /\ \A i \in 0 .. c - 1 : \E n \in S : Rank(S, n) = i
  BY Ranks
<1>2. \A n \in S : ring[(first + Rank(S, n)) % size] = E(n)
  BY DEF Holds
<1>3. entries = {E(n) : n \in S}
  <2> HIDE DEF E, c, S
  <2>1. \A i \in 0 .. c - 1 : \E n \in S : ring[(first + i) % size] = E(n)
    BY <1>1, <1>2
  <2>2. \A n \in S : \E i \in 0 .. c - 1 : ring[(first + i) % size] = E(n)
    BY <1>1, <1>2
  <2> QED
    BY <2>1, <2>2
<1>4. {x.number : x \in entries} = S
  <2>1. \A n \in S : E(n).number = n
    OBVIOUS
  <2> HIDE DEF E, entries, S
  <2> QED
    BY <2>1, <1>3
<1>5. \A n \in S : (CHOOSE x \in entries : x.number = n).state = states[n]
  <2> TAKE n \in S
  <2>1. \A m \in S : E(m).number = m /\ E(m).state = states[m]
    OBVIOUS
  <2> HIDE DEF E, entries, S
  <2>2. E(n) \in entries /\ \A x \in entries : x.number = n => x = E(n)
    BY <2>1, <1>3
  <2>3. (CHOOSE x \in entries : x.number = n) = E(n)
    BY <2>1, <2>2
  <2> QED
    BY <2>1, <2>3
<1>6. StatesAt(ring, size, first, c) =
        [n \in {x.number : x \in entries} |->
           (CHOOSE x \in entries : x.number = n).state]
  BY DEF StatesAt
<1> HIDE DEF entries, c
<1>7. StatesAt(ring, size, first, c) = [n \in S |-> states[n]]
  BY <1>4, <1>5, <1>6
<1> QED
  BY <1>7 DEF c

(* A ring that has room for a set of states has them when they are stored.  *)
LEMMA StoredHolds ==
  ASSUME NEW ring, NEW size \in Nat, size > 0, DOMAIN ring = 0 .. size - 1,
         NEW next \in Nat, NEW states,
         DOMAIN states \in SUBSET Nat, IsFiniteSet(DOMAIN states),
         Cardinality(DOMAIN states) <= size
  PROVE  Holds(Stored(ring, size, next, states), size, next, states)
<1> DEFINE S == DOMAIN states
           At(j) == {n \in S : (next + Rank(S, n)) % size = j}
           new == Stored(ring, size, next, states)
<1>1. ASSUME NEW n \in S
      PROVE  new[(next + Rank(S, n)) % size] = [number |-> n, state |-> states[n]]
  <2> DEFINE k == (next + Rank(S, n)) % size
  <2>1. k \in DOMAIN ring
    <3>1. Rank(S, n) \in 0 .. Cardinality(S) - 1
      BY Ranks
    <3> QED
      BY <3>1
  <2>2. \A m \in S : m # n => (next + Rank(S, m)) % size # k
    BY PlacesDiffer
  <2>3. At(k) = {n}
    BY <2>2
  <2>4. Max({n}) = n
    <3>1. n \in Nat
      OBVIOUS
    <3> HIDE DEF At, new, S
    <3> QED
      BY <3>1, MaxIs
  <2>5. new[k] = IF At(k) = {} THEN ring[k]
                 ELSE [number |-> Max(At(k)), state |-> states[Max(At(k))]]
    BY <2>1 DEF Stored
  <2> HIDE DEF At, new, k
  <2>6. new[k] = [number |-> n, state |-> states[n]]
    BY <2>3, <2>4, <2>5
  <2> QED
    BY <2>6 DEF k
<1> QED
  BY <1>1 DEF Holds

(* So a set of states stored in a ring that has room for them is read back. *)
LEMMA StoredRead ==
  ASSUME NEW ring, NEW size \in Nat, size > 0, DOMAIN ring = 0 .. size - 1,
         NEW next \in Nat, NEW states,
         DOMAIN states \in SUBSET Nat, IsFiniteSet(DOMAIN states),
         Cardinality(DOMAIN states) <= size,
         states = [n \in DOMAIN states |-> states[n]]
  PROVE  StatesAt(Stored(ring, size, next, states), size, next,
                  Cardinality(DOMAIN states)) = states
BY StoredHolds, HoldsRead

(* Two rings agree about num entries from first on. *)
SameAt(new, ring, size, first, num) ==
  \A i \in 0 .. num - 1 : new[(first + i) % size] = ring[(first + i) % size]

(* States are read from a ring only where they are.                         *)
LEMMA SameEntries ==
  ASSUME NEW ring, NEW new, NEW size, NEW first, NEW num,
         SameAt(new, ring, size, first, num)
  PROVE  StatesAt(new, size, first, num) = StatesAt(ring, size, first, num)
<1> DEFINE A == {new[(first + i) % size] : i \in 0 .. num - 1}
           B == {ring[(first + i) % size] : i \in 0 .. num - 1}
           Read(entries) == [n \in {x.number : x \in entries} |->
                               (CHOOSE x \in entries : x.number = n).state]
<1>1. A = B
  BY DEF SameAt
<1>2. /\ StatesAt(new, size, first, num) = Read(A)
      /\ StatesAt(ring, size, first, num) = Read(B)
  BY DEF StatesAt
<1> HIDE DEF A, B, Read
<1> QED
  BY <1>1, <1>2

(* What is in a ring is not among the places that are taken next, until the *)
(* ring is around.                                                          *)
LEMMA Apart ==
  ASSUME NEW size \in Nat, size > 0, NEW first \in Nat, NEW num \in Nat,
         NEW next \in Nat, NEW count \in Nat,
         first + num <= next, next + count <= first + size,
         NEW i \in 0 .. num - 1
  PROVE  /\ ~Taken(size, next, count, (first + i) % size)
         /\ (first + i) % size \in 0 .. size - 1
<1>1. ASSUME NEW j \in 0 .. count - 1
      PROVE  (next + j) % size # (first + i) % size
  <2> DEFINE p == first + i
             q == next + j
  <2>1. p \in Nat /\ q \in Nat /\ p < q /\ q - p < size
    OBVIOUS
  <2> HIDE DEF p, q
  <2>2. p % size # q % size
    BY <2>1, RemaindersDiffer
  <2> QED
    BY <2>2 DEF p, q
<1>2. ~Taken(size, next, count, (first + i) % size)
  BY <1>1 DEF Taken
<1> QED
  BY <1>2

(* What is in a ring stays until the ring is around.                        *)
LEMMA StoredKeeps ==
  ASSUME NEW ring, NEW size \in Nat, size > 0, DOMAIN ring = 0 .. size - 1,
         NEW next \in Nat, NEW states,
         DOMAIN states \in SUBSET Nat, IsFiniteSet(DOMAIN states),
         NEW first \in Nat, NEW num \in Nat, first + num <= next,
         next + Cardinality(DOMAIN states) <= first + size
  PROVE  StatesAt(Stored(ring, size, next, states), size, first, num)
           = StatesAt(ring, size, first, num)
<1> DEFINE c == Cardinality(DOMAIN states)
           new == Stored(ring, size, next, states)
<1>1. c \in Nat
  BY FS_CardinalityType
<1>2. ASSUME NEW i \in 0 .. num - 1
      PROVE  new[(first + i) % size] = ring[(first + i) % size]
  <2> DEFINE k == (first + i) % size
  <2>1. k \in DOMAIN ring /\ ~Taken(size, next, c, k)
    <3> HIDE DEF c
    <3> QED
      BY <1>1, Apart DEF c
  <2> HIDE DEF k
  <2>2. new[k] = ring[k]
    BY <2>1, StoredEntry
  <2> QED
    BY <2>2 DEF k
<1>3. SameAt(new, ring, size, first, num)
  BY <1>2 DEF SameAt
<1> HIDE DEF new
<1>4. StatesAt(new, size, first, num) = StatesAt(ring, size, first, num)
  BY <1>3, SameEntries
<1> QED
  BY <1>4 DEF new

LEMMA ForeignKeeps ==
  ASSUME NEW ring, NEW size \in Nat, size > 0, DOMAIN ring = 0 .. size - 1,
         NEW next \in Nat, NEW count \in Nat,
         NEW first \in Nat, NEW num \in Nat, first + num <= next,
         next + count <= first + size
  PROVE  StatesAt(StoredForeign(ring, size, next, count), size, first, num)
           = StatesAt(ring, size, first, num)
<1> DEFINE new == StoredForeign(ring, size, next, count)
<1>1. ASSUME NEW i \in 0 .. num - 1
      PROVE  new[(first + i) % size] = ring[(first + i) % size]
  <2>1. /\ (first + i) % size \in DOMAIN ring
        /\ ~Taken(size, next, count, (first + i) % size)
    BY Apart
  <2> QED
    BY <2>1 DEF StoredForeign, Taken
<1>2. SameAt(new, ring, size, first, num)
  BY <1>1 DEF SameAt
<1> HIDE DEF new
<1>3. StatesAt(new, size, first, num) = StatesAt(ring, size, first, num)
  BY <1>2, SameEntries
<1> QED
  BY <1>3 DEF new

-----------------------------------------------------------------------------
(* Type correctness: indices stay in their rings, and a frame has no more   *)
(* entities than the course.                                                *)

(* A part of the course's entities has no more than all.                    *)
LEMMA CountBounded ==
  ASSUME world \in Worlds, NEW S \in SUBSET Numbers
  PROVE  Cardinality(S) \in 0 .. Cardinality(Numbers)
<1>1. IsFiniteSet(Numbers) /\ Cardinality(Numbers) \in Nat
  BY NumbersFinite
<1>2. IsFiniteSet(S) /\ Cardinality(S) <= Cardinality(Numbers)
  BY <1>1, FS_Subset
<1>3. Cardinality(S) \in Nat
  BY <1>2, FS_CardinalityType
<1> QED
  BY <1>1, <1>2, <1>3

LEMMA InitTypes == Init => TypeInv
<1> SUFFICES ASSUME Init PROVE TypeInv
  OBVIOUS
<1> USE DEF Init
<1>1. Cardinality(Numbers) \in Nat
  BY NumbersFinite
<1>2. TypeOK
  BY <1>1, Sizes, RingSizes DEF TypeOK, NoFrame
<1>3. FramesOK
  BY DEF FramesOK, NoFrame
<1>4. NumbersOK
  BY DEF NumbersOK
<1> QED
  BY <1>2, <1>3, <1>4 DEF TypeInv

(* A frame that is run: its number, what is in sight, and the entries that  *)
(* other clients' frames take.                                              *)
LEMMA FrameRun ==
  ASSUME TypeOK, RunGameFrame
  PROVE  /\ frame_num' = frame_num + 1 /\ frame_num' \in 1 .. MaxFrames
         /\ world' = world /\ last_frame' = last_frame /\ uplink' = uplink
         /\ UNCHANGED client
         /\ Others \in Nat /\ Others = world.others[frame_num']
         /\ next_entity_state + Others \in Nat
<1>1. /\ frame_num' = frame_num + 1 /\ frame_num' \in 1 .. MaxFrames
      /\ world' = world /\ last_frame' = last_frame /\ uplink' = uplink
      /\ UNCHANGED client /\ world \in Worlds
  BY Sizes DEF TypeOK, RunGameFrame
<1>2. world.others[frame_num'] \in Nat
  BY <1>1, WorldsAssumption
<1> QED
  BY <1>1, <1>2 DEF Others, TypeOK

(* A frame has finitely many entities, whatever its ring entries are.       *)
LEMMA ReadFinite ==
  ASSUME NEW ring, NEW size, NEW first, NEW num \in Nat
  PROVE  IsFiniteSet(DOMAIN StatesAt(ring, size, first, num))
<1> DEFINE I == 0 .. num - 1
           entries == {ring[(first + i) % size] : i \in I}
           N == {x.number : x \in entries}
           f == [i \in I |-> ring[(first + i) % size].number]
<1>1. DOMAIN StatesAt(ring, size, first, num) = N
  BY DEF StatesAt
<1>2. IsFiniteSet(I)
  BY FS_Interval
<1>3. \A x \in N : \E i \in I : f[i] = x
  OBVIOUS
<1>4. f \in [I -> N]
  OBVIOUS
<1> HIDE DEF f, N, I, entries
<1>5. f \in Surjection(I, N)
  BY <1>3, <1>4 DEF Surjection
<1> QED
  BY <1>1, <1>2, <1>5, FS_Surjection

(* So has the difference between two frames.                                *)
LEMMA EmittedFinite ==
  ASSUME NEW from, NEW to, IsFiniteSet(DOMAIN from), IsFiniteSet(DOMAIN to)
  PROVE  IsFiniteSet(Sent(Emitted(from, to)))
<1>1. Sent(Emitted(from, to)) \in SUBSET (DOMAIN from \cup DOMAIN to)
  BY DEF Sent, Emitted
<1>2. IsFiniteSet(DOMAIN from \cup DOMAIN to)
  BY FS_Union
<1> QED
  BY <1>1, <1>2, FS_Subset

LEMMA SendTypes == TypeInv /\ SendClientDatagram => TypeInv'
<1> SUFFICES ASSUME TypeInv, SendClientDatagram PROVE TypeInv'
  OBVIOUS
<1> DEFINE n == frame_num'
           v == world.seen[n]
           c == Cardinality(DOMAIN v)
           first == next_entity_state + Others
           between == StoredForeign(entity_states, NumEntityStates,
                                    next_entity_state, Others)
<1>1. /\ frame_num' = frame_num + 1 /\ n \in 1 .. MaxFrames
      /\ world' = world /\ last_frame' = last_frame /\ uplink' = uplink
      /\ UNCHANGED client
      /\ first \in Nat /\ world \in Worlds /\ TypeOK
  BY FrameRun DEF SendClientDatagram, TypeInv, TypeOK
<1>2. /\ DOMAIN v \in SUBSET Nat /\ DOMAIN v \in SUBSET Numbers
      /\ IsFiniteSet(DOMAIN v) /\ c \in Nat
  <2>1. PICK k \in 1 .. MaxFrames : k = n
    BY <1>1
  <2>2. /\ DOMAIN world.seen[k] \in SUBSET Nat
        /\ DOMAIN world.seen[k] \in SUBSET Numbers
        /\ IsFiniteSet(DOMAIN world.seen[k])
    BY <1>1, Seen
  <2>3. v = world.seen[k]
    BY <2>1
  <2> HIDE DEF v
  <2> QED
    BY <2>2, <2>3, FS_CardinalityType
<1>3. /\ frames' = [frames EXCEPT ![Slot(n)] = [first |-> first, num |-> c]]
      /\ entity_states' = Stored(between, NumEntityStates, first, v)
      /\ next_entity_state' = first + c
      /\ downlink' = downlink \cup {FrameDatagram'}
  BY DEF SendClientDatagram, Count
<1>4. Slot(n) \in 0 .. PacketBackup - 1
  BY <1>1, SlotIs
<1>5. DOMAIN between = 0 .. NumEntityStates - 1
  BY <1>1 DEF StoredForeign, TypeOK
<1> HIDE DEF v, first, between
<1>6. DOMAIN entity_states' = 0 .. NumEntityStates - 1
  BY <1>3, <1>5 DEF Stored
<1>7. /\ frames'[Slot(n)] = [first |-> first, num |-> c]
      /\ DOMAIN frames' = 0 .. PacketBackup - 1
      /\ \A s \in DOMAIN frames : s # Slot(n) => frames'[s] = frames[s]
  BY <1>1, <1>3, <1>4 DEF TypeOK
<1>8. Numbers' = Numbers
  BY <1>1 DEF Numbers
<1>9. c \in 0 .. Cardinality(Numbers)
  BY <1>1, <1>2, CountBounded
<1>10. /\ FrameDatagram'.frame_num = n
       /\ FrameDatagram'.delta \in {-1, last_frame}
       /\ IsFiniteSet(Sent(FrameDatagram'.entities))
  <2>1. \A s \in 0 .. PacketBackup - 1 : frames'[s].num \in Nat
    BY <1>1, <1>2, <1>7, NumbersFinite DEF TypeOK
  <2>2. \A k \in Nat : IsFiniteSet(DOMAIN ServerStates(k)')
    <3> TAKE k \in Nat
    <3>1. frames'[Slot(k)].num \in Nat
      BY <2>1, SlotIs
    <3> QED
      BY <3>1, ReadFinite DEF ServerStates
  <2> DEFINE full == last_frame' < 0 \/ TooOld'
             base == IF full THEN <<>> ELSE ServerStates(last_frame)'
  <2>3. /\ FrameDatagram'.entities = Emitted(base, ServerStates(frame_num)')
        /\ FrameDatagram'.frame_num = n
        /\ FrameDatagram'.delta \in {-1, last_frame}
    BY <1>1 DEF FrameDatagram
  <2>4. IsFiniteSet(DOMAIN base)
    <3>1. CASE full
      BY <3>1, FS_EmptySet
    <3>2. CASE ~full
      <4>1. last_frame' \in Nat
        BY <3>2, <1>1 DEF TypeOK
      <4> QED
        BY <3>2, <4>1, <2>2
    <3> QED
      BY <3>1, <3>2
  <2>5. IsFiniteSet(DOMAIN ServerStates(frame_num)')
    BY <1>1, <2>2
  <2> HIDE DEF base
  <2> QED
    BY <2>3, <2>4, <2>5, EmittedFinite
<1>11. \A m \in downlink' :
         /\ m.frame_num \in 1 .. MaxFrames /\ m.delta \in -1 .. MaxFrames
         /\ IsFiniteSet(Sent(m.entities))
  <2> TAKE m \in downlink'
  <2>1. m \in downlink \/ m = FrameDatagram'
    BY <1>3
  <2>2. CASE m \in downlink
    BY <2>2 DEF TypeInv, TypeOK, NumbersOK
  <2>3. CASE m = FrameDatagram'
    <3>1. last_frame \in -1 .. MaxFrames /\ -1 \in -1 .. MaxFrames
      BY <1>1, Sizes DEF TypeOK
    <3> QED
      BY <2>3, <3>1, <1>1, <1>10
  <2> QED
    BY <2>1, <2>2, <2>3
<1>12. TypeOK'
  BY <1>1, <1>2, <1>3, <1>6, <1>7, <1>8, <1>9, <1>11 DEF TypeOK, client
<1>13. FramesOK'
  BY <1>1, <1>7 DEF TypeInv, FramesOK, TypeOK, client
<1>14. NumbersOK'
  BY <1>1, <1>8, <1>11 DEF TypeInv, NumbersOK, client
<1> QED
  BY <1>12, <1>13, <1>14 DEF TypeInv

LEMMA DropTypes == TypeInv /\ RateDrop => TypeInv'
<1> SUFFICES ASSUME TypeInv, RateDrop PROVE TypeInv'
  OBVIOUS
<1>1. /\ frame_num' \in 1 .. MaxFrames
      /\ world' = world /\ last_frame' = last_frame /\ uplink' = uplink
      /\ UNCHANGED client
      /\ next_entity_state + Others \in Nat /\ TypeOK
  BY FrameRun DEF RateDrop, TypeInv
<1>2. /\ entity_states' = StoredForeign(entity_states, NumEntityStates,
                                        next_entity_state, Others)
      /\ next_entity_state' = next_entity_state + Others
      /\ frames' = frames /\ downlink' = downlink
  BY DEF RateDrop
<1>3. DOMAIN entity_states' = 0 .. NumEntityStates - 1
  BY <1>1, <1>2 DEF StoredForeign, TypeOK
<1>4. Numbers' = Numbers
  BY <1>1 DEF Numbers
<1>5. TypeOK'
  BY <1>1, <1>2, <1>3, <1>4 DEF TypeOK, client
<1> QED
  BY <1>1, <1>2, <1>4, <1>5 DEF TypeInv, FramesOK, NumbersOK, client

(* What is done for each entity when a datagram is parsed, until the end.   *)
Turn(base, entities, p) ==
  IF p.left = {} /\ p.number = MaxEdicts THEN p
  ELSE ParseEntity(base, entities, p)

(* What there is after each of the first n entities.                        *)
IsParsing(f, base, entities, n) ==
  f = [i \in 0 .. n |->
         IF i = 0
         THEN [ring |-> cl_entity_states, stored |-> 0, old |-> 0,
               number |-> OldNumber(base, cl_entity_states, 0),
               left |-> Sent(entities)]
         ELSE Turn(base, entities, f[i - 1])]

(* There is such a function for every n: the one for n + 1 is the one for n *)
(* with one more value.                                                     *)
LEMMA ParsingExists ==
  ASSUME NEW base, NEW entities, NEW n \in Nat
  PROVE  \E f : IsParsing(f, base, entities, n)
<1> DEFINE T == {m \in Nat : \E f : IsParsing(f, base, entities, m)}
           start == [ring |-> cl_entity_states, stored |-> 0, old |-> 0,
                     number |-> OldNumber(base, cl_entity_states, 0),
                     left |-> Sent(entities)]
<1>1. 0 \in T
  <2> DEFINE f == [i \in 0 .. 0 |-> start]
  <2>1. IsParsing(f, base, entities, 0)
    BY DEF IsParsing
  <2> QED
    BY <2>1
<1>2. ASSUME NEW m \in Nat, m \in T
      PROVE  m + 1 \in T
  <2>1. PICK f : IsParsing(f, base, entities, m)
    BY <1>2
  <2> DEFINE last == Turn(base, entities, f[m])
             g == [i \in 0 .. m + 1 |-> IF i = m + 1 THEN last ELSE f[i]]
  <2>2. \A i \in 0 .. m : f[i] = IF i = 0 THEN start ELSE Turn(base, entities, f[i - 1])
    BY <2>1 DEF IsParsing
  <2> HIDE DEF start
  <2>3. \A i \in 0 .. m + 1 :
          g[i] = IF i = 0 THEN start ELSE Turn(base, entities, g[i - 1])
    <3> TAKE i \in 0 .. m + 1
    <3>1. CASE i = m + 1
      <4>1. i - 1 = m /\ m \in 0 .. m + 1 /\ m # m + 1 /\ i # 0
        BY <3>1
      <4>2. g[i - 1] = f[m] /\ g[i] = last
        BY <4>1, <3>1
      <4> QED
        BY <4>1, <4>2, <3>1
    <3>2. CASE i = 0
      <4>1. i \in 0 .. m /\ i # m + 1
        BY <3>2
      <4> QED
        BY <4>1, <2>2, <3>2
    <3>3. CASE i \in 1 .. m
      <4>1. /\ i \in 0 .. m /\ i - 1 \in 0 .. m + 1
            /\ i # m + 1 /\ i - 1 # m + 1 /\ i # 0
        BY <3>3
      <4>2. g[i] = f[i] /\ g[i - 1] = f[i - 1]
        BY <4>1
      <4> HIDE DEF g
      <4> QED
        BY <4>1, <4>2, <2>2
    <3> QED
      BY <3>1, <3>2, <3>3
  <2>4. g = [i \in 0 .. m + 1 |-> g[i]]
    OBVIOUS
  <2> HIDE DEF g
  <2>5. IsParsing(g, base, entities, m + 1)
    BY <2>3, <2>4 DEF IsParsing, start
  <2> QED
    BY <2>5
<1> HIDE DEF T
<1>3. T = Nat
  <2>1. T \in SUBSET Nat
    BY DEF T
  <2> QED
    BY <1>1, <1>2, <2>1, Induct
<1> QED
  BY <1>3 DEF T

(* The base frame of a datagram, as the client has it.                      *)
BaseFrame(m) == IF m.delta <= 0 THEN NoFrame ELSE cl_frames[Slot(m.delta)]

(* How many turns it takes at most.                                         *)
Turns(m) == BaseFrame(m).num + Cardinality(Sent(m.entities))

(* So the parsed datagram is the last value of such a function.             *)
LEMMA ParsedIs ==
  ASSUME NEW m, Turns(m) \in Nat
  PROVE  \E f : /\ IsParsing(f, BaseFrame(m), m.entities, Turns(m))
                /\ ParseEntities(m) = f[Turns(m)]
<1> DEFINE base == BaseFrame(m)
           sent == m.entities.removed \cup DOMAIN m.entities.updated
           turns == base.num + Cardinality(sent)
           f == CHOOSE f : f =
                  [i \in 0 .. turns |->
                     IF i = 0
                     THEN [ring |-> cl_entity_states, stored |-> 0, old |-> 0,
                           number |-> OldNumber(base, cl_entity_states, 0),
                           left |-> sent]
                     ELSE IF f[i - 1].left = {} /\ f[i - 1].number = MaxEdicts
                     THEN f[i - 1]
                     ELSE ParseEntity(base, m.entities, f[i - 1])]
<1>1. turns = Turns(m) /\ sent = Sent(m.entities)
  BY DEF Turns, Sent
<1>2. ParseEntities(m) = f[turns]
  BY DEF ParseEntities, BaseFrame
<1>3. \E g : IsParsing(g, base, m.entities, turns)
  BY <1>1, ParsingExists
<1>4. IsParsing(f, base, m.entities, turns)
  BY <1>1, <1>3 DEF IsParsing, Turn
<1> HIDE DEF f
<1> QED
  BY <1>1, <1>2, <1>4

(* The datagrams under way take a number of turns.                          *)
LEMMA TurnsAre ==
  ASSUME TypeInv, NEW m \in downlink
  PROVE  /\ Turns(m) \in Nat
         /\ BaseFrame(m).first \in Nat /\ BaseFrame(m).num \in Nat
<1>1. TypeOK /\ FramesOK /\ NumbersOK
  BY DEF TypeInv
<1>2. Cardinality(Sent(m.entities)) \in Nat
  BY <1>1, FS_CardinalityType DEF NumbersOK
<1>3. BaseFrame(m).first \in Nat /\ BaseFrame(m).num \in Nat
  <2>1. CASE m.delta <= 0
    BY <2>1 DEF BaseFrame, NoFrame
  <2>2. CASE ~(m.delta <= 0)
    <3>1. m.delta \in Nat
      BY <1>1, <2>2 DEF TypeOK
    <3>2. Slot(m.delta) \in 0 .. PacketBackup - 1
      BY <3>1, SlotIs
    <3> QED
      BY <1>1, <2>2, <3>2 DEF BaseFrame, TypeOK, FramesOK
  <2> QED
    BY <2>1, <2>2
<1> QED
  BY <1>2, <1>3 DEF Turns

(* Parsing keeps the size of the ring, and counts, whatever it reads.       *)
LEMMA ParsedTypes ==
  ASSUME TypeInv, NEW m \in downlink
  PROVE  /\ DOMAIN ParseEntities(m).ring = 0 .. EntityStateBackup - 1
         /\ ParseEntities(m).stored \in Nat
<1> DEFINE base == BaseFrame(m)
           n == Turns(m)
           Typed(p) == /\ DOMAIN p.ring = 0 .. EntityStateBackup - 1
                       /\ p.stored \in Nat
<1>1. n \in Nat
  BY TurnsAre
<1>2. PICK f : IsParsing(f, base, m.entities, n) /\ ParseEntities(m) = f[n]
  BY <1>1, ParsedIs
<1> DEFINE T == {i \in Nat : i <= n => Typed(f[i])}
<1>3. 0 \in T
  <2>1. f[0].ring = cl_entity_states /\ f[0].stored = 0
    BY <1>1, <1>2 DEF IsParsing
  <2>2. DOMAIN cl_entity_states = 0 .. EntityStateBackup - 1
    BY DEF TypeInv, TypeOK
  <2> QED
    BY <2>1, <2>2
<1>4. ASSUME NEW i \in Nat, i \in T
      PROVE  i + 1 \in T
  <2> SUFFICES ASSUME i + 1 <= n PROVE Typed(f[i + 1])
    OBVIOUS
  <2>1. i + 1 \in 0 .. n /\ i + 1 # 0 /\ (i + 1) - 1 = i
    BY <1>1
  <2>2. f[i + 1] = Turn(base, m.entities, f[i])
    BY <1>2, <2>1 DEF IsParsing
  <2>3. Typed(f[i])
    BY <1>1, <1>4
  <2> DEFINE p == f[i]
  <2>4. Typed(ParseEntity(base, m.entities, p))
    <3> HIDE DEF p
    <3> QED
      BY <2>3 DEF ParseEntity, p
  <2> QED
    BY <2>2, <2>3, <2>4 DEF Turn
<1>5. T = Nat
  <2> HIDE DEF T
  <2>1. T \in SUBSET Nat
    BY DEF T
  <2> QED
    BY <1>3, <1>4, <2>1, Induct
<1>6. Typed(f[n])
  BY <1>1, <1>5
<1> QED
  BY <1>2, <1>6

LEMMA ParseTypes ==
  ASSUME TypeInv, NEW m \in downlink, ParseFrame(m)
  PROVE  TypeInv'
<1> DEFINE p == ParseEntities(m)
           f == [valid |-> TRUE, frame_num |-> m.frame_num,
                 first |-> cl_entity_state, num |-> p.stored]
           s == Slot(m.frame_num)
<1>1. TypeOK /\ FramesOK /\ NumbersOK /\ world \in Worlds
  BY DEF TypeInv, TypeOK
<1>2. /\ cl_entity_states' = p.ring
      /\ cl_entity_state' = cl_entity_state + p.stored
      /\ cl_frames' = [cl_frames EXCEPT ![s] = f]
      /\ cl_frame' = m.frame_num
      /\ downlink' \subseteq downlink
      /\ UNCHANGED <<world, server, uplink, error>>
  BY DEF ParseFrame
<1>3. /\ DOMAIN p.ring = 0 .. EntityStateBackup - 1
      /\ p.stored \in Nat
  BY ParsedTypes
<1>4. s \in 0 .. PacketBackup - 1 /\ m.frame_num \in 1 .. MaxFrames
  <2>1. m.frame_num \in 1 .. MaxFrames
    BY <1>1 DEF TypeOK
  <2>2. m.frame_num \in Nat
    BY <2>1
  <2> QED
    BY <2>1, <2>2, SlotIs
<1>5. /\ DOMAIN cl_frames' = 0 .. PacketBackup - 1
      /\ cl_frames'[s] = f
      /\ \A k \in 0 .. PacketBackup - 1 : k # s => cl_frames'[k] = cl_frames[k]
  <2> HIDE DEF f, s
  <2> QED
    BY <1>1, <1>2, <1>4 DEF TypeOK
<1>6. f.first = cl_entity_state /\ f.num = p.stored
  OBVIOUS
<1> HIDE DEF p, f, s
<1>7. Numbers' = Numbers
  BY <1>2 DEF Numbers
<1>8. cl_entity_state \in Nat
  BY <1>1 DEF TypeOK
<1>9. TypeOK'
  BY <1>1, <1>2, <1>3, <1>4, <1>5, <1>6, <1>7, <1>8, Sizes DEF TypeOK, server
<1>10. FramesOK'
  <2>1. \A k \in 0 .. PacketBackup - 1 : cl_frames[k].num \in Nat
    BY <1>1 DEF TypeOK
  <2> QED
    BY <1>1, <1>2, <1>3, <1>5, <1>6, <1>8, <2>1 DEF FramesOK, server
<1>11. NumbersOK'
  BY <1>1, <1>2 DEF NumbersOK
<1> QED
  BY <1>9, <1>10, <1>11 DEF TypeInv

LEMMA TypesPreserved == TypeInv /\ [Next]_vars => TypeInv'
<1> SUFFICES ASSUME TypeInv, [Next]_vars PROVE TypeInv'
  OBVIOUS
<1> USE DEF TypeInv
<1>1. CASE SendClientDatagram
  BY <1>1, SendTypes
<1>2. CASE RateDrop
  BY <1>2, DropTypes
<1>3. ASSUME NEW m \in downlink, ParseFrame(m) PROVE TypeInv'
  BY <1>3, ParseTypes
<1>4. ASSUME NEW m \in downlink, RefuseFrame(m) PROVE TypeInv'
  BY <1>4 DEF RefuseFrame, TypeOK, FramesOK, NumbersOK, Numbers, server
<1>5. CASE SendCmd
  BY <1>5 DEF SendCmd, TypeOK, FramesOK, NumbersOK, Numbers, server, client
<1>6. ASSUME NEW n \in uplink, ParseMove(n) PROVE TypeInv'
  BY <1>6 DEF ParseMove, TypeOK, FramesOK, NumbersOK, Numbers, client
<1>7. CASE UNCHANGED vars
  BY <1>7 DEF vars, TypeOK, FramesOK, NumbersOK, Numbers, server, client
<1> QED
  BY <1>1, <1>2, <1>3, <1>4, <1>5, <1>6, <1>7 DEF Next

(* Every ring index stays in its ring and no frame of the server counts     *)
(* more entities than there are, in any course, however crowded, and        *)
(* whatever the client's ring has when a frame is decoded from it.          *)
THEOREM TypeCorrect == Spec => []TypeOK
<1>1. TypeInv => TypeOK
  BY DEF TypeInv
<1> QED
  BY <1>1, InitTypes, TypesPreserved, PTL DEF Spec

-----------------------------------------------------------------------------
(* Decoding.  Entities are parsed in order of number.  When all below v are *)
(* done, what Cl_ParseEntities has at hand is determined by v; and what it  *)
(* has stored by then does not reach what it has still to read of the base. *)

After(S, v) == {n \in S : n >= v}

(* The states of the base frame, and the ones sent, fit for being decoded:  *)
(* the ring has the base, and room for what is not in it.                   *)
CanFollow(base, from, to) ==
  /\ DOMAIN from \subseteq 1 .. MaxEdicts - 1
  /\ DOMAIN to \subseteq 1 .. MaxEdicts - 1
  /\ cl_entity_state \in Nat
  /\ DOMAIN cl_entity_states = 0 .. EntityStateBackup - 1
  /\ base.first \in Nat /\ base.num = Cardinality(DOMAIN from)
  /\ Holds(cl_entity_states, EntityStateBackup, base.first, from)
  /\ DOMAIN from # {} =>
       /\ base.first + base.num <= cl_entity_state
       /\ cl_entity_state + Cardinality(DOMAIN to \ DOMAIN from)
            <= base.first + EntityStateBackup

(* The place in the ring of an entity of the frame that is parsed. *)
Place(to, n) == (cl_entity_state + Rank(DOMAIN to, n)) % EntityStateBackup

(* The ring has the entities below v, and is else as it was. *)
RingSofar(ring, to, v) ==
  /\ DOMAIN ring = 0 .. EntityStateBackup - 1
  /\ \A n \in DOMAIN to :
       n < v => ring[Place(to, n)] = [number |-> n, state |-> to[n]]
  /\ \A k \in 0 .. EntityStateBackup - 1 :
       (\A n \in DOMAIN to : n < v => Place(to, n) # k) => ring[k] = cl_entity_states[k]

(* All that is at hand when the entities below v are done. *)
Sofar(p, from, to, v) ==
  /\ RingSofar(p.ring, to, v)
  /\ p.stored = Rank(DOMAIN to, v)
  /\ p.old = Rank(DOMAIN from, v)
  /\ p.number = Least(After(DOMAIN from, v))
  /\ p.left = After(Sent(Emitted(from, to)), v)

(* One number more.                                                         *)
LEMMA RankNext ==
  ASSUME NEW S \in SUBSET Nat, IsFiniteSet(S), NEW x \in Nat
  PROVE  /\ Rank(S, x) \in Nat /\ Rank(S, x) <= Cardinality(S)
         /\ x \in S => /\ Rank(S, x + 1) = Rank(S, x) + 1
                       /\ After(S, x) = After(S, x + 1) \cup {x}
                       /\ x \notin After(S, x + 1)
         /\ x \notin S => /\ Rank(S, x + 1) = Rank(S, x)
                          /\ After(S, x) = After(S, x + 1)
<1> DEFINE B == {m \in S : m < x}
           C == {m \in S : m < x + 1}
           D == {m \in S : m >= x}
           E == {m \in S : m >= x + 1}
<1>1. \A m \in S : /\ m < x + 1 <=> m < x \/ m = x
                   /\ m >= x <=> m >= x + 1 \/ m = x
                   /\ ~(x < x) /\ ~(x >= x + 1)
  OBVIOUS
<1>2. B \in SUBSET S /\ x \notin B /\ x \notin E
  BY <1>1
<1>3. /\ \A m \in S : /\ m \in C <=> m \in B \/ m = x
                      /\ m \in D <=> m \in E \/ m = x
      /\ B \subseteq S /\ C \subseteq S /\ D \subseteq S /\ E \subseteq S
  BY <1>1
<1>5. /\ Rank(S, x) = Cardinality(B) /\ Rank(S, x + 1) = Cardinality(C)
      /\ After(S, x) = D /\ After(S, x + 1) = E
  BY DEF Rank, After
<1> HIDE DEF B, C, D, E
<1>4. /\ x \in S => C = B \cup {x} /\ D = E \cup {x}
      /\ x \notin S => C = B /\ D = E
  <2>1. CASE x \in S
    <3>1. /\ \A m \in C : m \in B \cup {x}
          /\ \A m \in B \cup {x} : m \in C
          /\ \A m \in D : m \in E \cup {x}
          /\ \A m \in E \cup {x} : m \in D
      BY <1>3, <2>1
    <3>2. C = B \cup {x}
      BY <3>1
    <3>3. D = E \cup {x}
      BY <3>1
    <3> QED
      BY <2>1, <3>2, <3>3
  <2>2. CASE x \notin S
    <3>1. C \subseteq B /\ B \subseteq C /\ D \subseteq E /\ E \subseteq D
      BY <1>3, <2>2
    <3> QED
      BY <2>2, <3>1
  <2> QED
    BY <2>1, <2>2
<1>6. IsFiniteSet(B) /\ Cardinality(B) <= Cardinality(S) /\ Cardinality(B) \in Nat
  BY <1>2, FS_Subset, FS_CardinalityType
<1>7. Cardinality(B \cup {x}) = Cardinality(B) + 1
  BY <1>2, <1>6, FS_AddElement
<1> QED
  BY <1>2, <1>4, <1>5, <1>6, <1>7

(* Nothing changes where there is no entity.                                *)
LEMMA RankSame ==
  ASSUME NEW S \in SUBSET Nat, NEW v \in Nat, NEW x \in Nat, v <= x,
         \A n \in S : n >= v => n >= x
  PROVE  Rank(S, x) = Rank(S, v) /\ After(S, x) = After(S, v)
<1> DEFINE B == {m \in S : m < x}
           C == {m \in S : m < v}
           D == {m \in S : m >= x}
           E == {m \in S : m >= v}
<1>1. \A m \in S : (m < x <=> m < v) /\ (m >= x <=> m >= v)
  OBVIOUS
<1>2. B = C /\ D = E
  BY <1>1, Zenon
<1>3. /\ Rank(S, x) = Cardinality(B) /\ Rank(S, v) = Cardinality(C)
      /\ After(S, x) = D /\ After(S, v) = E
  BY DEF Rank, After
<1> HIDE DEF B, C, D, E
<1> QED
  BY <1>2, <1>3

(* The least of some entities, or the number beyond all.                    *)
LEMMA LeastIs ==
  ASSUME NEW S \in SUBSET (1 .. MaxEdicts - 1)
  PROVE  /\ S = {} => Least(S) = MaxEdicts
         /\ S # {} => Least(S) \in S /\ \A y \in S : Least(S) <= y
<1>1. S \cup {MaxEdicts} \in SUBSET Nat /\ \A y \in S : y < MaxEdicts
  BY Sizes
<1>2. CASE S = {}
  <2>1. Min({MaxEdicts}) = MaxEdicts
    BY Sizes, MinIs
  <2> QED
    BY <1>2, <2>1 DEF Least
<1>3. CASE S # {}
  <2>1. S \in SUBSET Nat
    BY <1>1
  <2>2. PICK x \in S : \A y \in S : x <= y
    BY <1>3, <2>1, MinExists
  <2>3. x \in S \cup {MaxEdicts} /\ \A y \in S \cup {MaxEdicts} : x <= y
    BY <1>1, <2>1, <2>2, Sizes
  <2>4. Min(S \cup {MaxEdicts}) = x
    BY <1>1, <2>3, MinIs
  <2> QED
    BY <1>3, <2>2, <2>4 DEF Least
<1> QED
  BY <1>2, <1>3

LEMMA FollowTypes ==
  ASSUME NEW base, NEW from, NEW to, CanFollow(base, from, to)
  PROVE  /\ DOMAIN from \in SUBSET Nat /\ IsFiniteSet(DOMAIN from)
         /\ DOMAIN to \in SUBSET Nat /\ IsFiniteSet(DOMAIN to)
         /\ Cardinality(DOMAIN from) \in Nat /\ Cardinality(DOMAIN to) \in Nat
         /\ Cardinality(DOMAIN to) <= EntityStateBackup
         /\ DOMAIN from \cup Sent(Emitted(from, to)) = DOMAIN from \cup DOMAIN to
         /\ Sent(Emitted(from, to)) \in SUBSET (1 .. MaxEdicts - 1)
         /\ Sent(Emitted(from, to)) \in SUBSET Nat
         /\ IsFiniteSet(Sent(Emitted(from, to)))
         /\ IsFiniteSet(DOMAIN from \cup DOMAIN to)
<1> DEFINE T == 1 .. MaxEdicts - 1
<1>1. T \in SUBSET Nat /\ IsFiniteSet(T) /\ Cardinality(T) <= EntityStateBackup
      /\ Cardinality(T) \in Nat
  <2>1. /\ IsFiniteSet(1 .. MaxEdicts - 1)
        /\ Cardinality(1 .. MaxEdicts - 1) =
             IF 1 > MaxEdicts - 1 THEN 0 ELSE MaxEdicts - 1 - 1 + 1
    BY Sizes, FS_Interval
  <2> QED
    BY <2>1, Sizes, RingSizes
<1>2. DOMAIN from \in SUBSET T /\ DOMAIN to \in SUBSET T
  BY DEF CanFollow
<1>3. /\ DOMAIN from \cup Sent(Emitted(from, to)) = DOMAIN from \cup DOMAIN to
      /\ Sent(Emitted(from, to)) \subseteq DOMAIN from \cup DOMAIN to
  BY DEF Sent, Emitted
<1> HIDE DEF T
<1>4. Sent(Emitted(from, to)) \in SUBSET T /\ DOMAIN from \cup DOMAIN to \in SUBSET T
  BY <1>2, <1>3
<1>5. /\ IsFiniteSet(DOMAIN from) /\ IsFiniteSet(DOMAIN to)
      /\ IsFiniteSet(Sent(Emitted(from, to))) /\ IsFiniteSet(DOMAIN from \cup DOMAIN to)
      /\ Cardinality(DOMAIN to) <= Cardinality(T)
  BY <1>1, <1>2, <1>4, FS_Subset
<1>6. Cardinality(DOMAIN from) \in Nat /\ Cardinality(DOMAIN to) \in Nat
  BY <1>5, FS_CardinalityType
<1>7. Cardinality(DOMAIN to) <= EntityStateBackup
  BY <1>1, <1>5, <1>6, RingSizes
<1>8. /\ DOMAIN from \in SUBSET Nat /\ DOMAIN to \in SUBSET Nat
      /\ Sent(Emitted(from, to)) \in SUBSET Nat
  BY <1>1, <1>2, <1>4
<1> QED
  BY <1>3, <1>4, <1>5, <1>6, <1>7, <1>8 DEF T

(* No entity is stored over one of the base frame with a higher number:     *)
(* what is stored by then is at most the entities of the base frame below   *)
(* that one, and the newcomers.                                             *)
LEMMA Intact ==
  ASSUME NEW base, NEW from, NEW to, CanFollow(base, from, to),
         NEW n \in DOMAIN to, NEW y \in DOMAIN from, n < y
  PROVE  Place(to, n) # (base.first + Rank(DOMAIN from, y)) % EntityStateBackup
<1> DEFINE A == DOMAIN from
           B == DOMAIN to
           L == {m \in A : m < y}
           K == {m \in B : m < n}
<1>1. /\ A \in SUBSET Nat /\ IsFiniteSet(A) /\ B \in SUBSET Nat /\ IsFiniteSet(B)
  BY FollowTypes
<1>2. /\ IsFiniteSet(L) /\ IsFiniteSet(K) /\ IsFiniteSet(B \ A)
      /\ Cardinality(L) \in Nat /\ Cardinality(K) \in Nat /\ Cardinality(B \ A) \in Nat
  <2>1. L \in SUBSET A /\ K \in SUBSET B /\ B \ A \in SUBSET B
    OBVIOUS
  <2> HIDE DEF L, K, A, B
  <2> QED
    BY <1>1, <2>1, FS_Subset, FS_CardinalityType
<1>3. K \cup {n} \in SUBSET (L \cup (B \ A)) /\ n \notin K
  <2>1. \A m \in B : m \in Nat
    BY <1>1
  <2>2. y \in Nat
    BY <1>1
  <2> QED
    BY <2>1, <2>2
<1>4. Rank(A, y) = Cardinality(L) /\ Rank(B, n) = Cardinality(K)
  BY DEF Rank
<1>5. Rank(A, y) \in 0 .. Cardinality(A) - 1 /\ Cardinality(A) \in Nat
  BY <1>1, Ranks
<1>6. /\ cl_entity_state \in Nat /\ base.first \in Nat
      /\ base.first + Cardinality(A) <= cl_entity_state
      /\ cl_entity_state + Cardinality(B \ A) <= base.first + EntityStateBackup
  BY DEF CanFollow
<1> HIDE DEF A, B, L, K
<1>7. Cardinality(K) + 1 <= Cardinality(L) + Cardinality(B \ A)
  <2>1. Cardinality(K \cup {n}) = Cardinality(K) + 1
    BY <1>2, <1>3, FS_AddElement
  <2>2. IsFiniteSet(L \cap (B \ A)) /\ Cardinality(L \cap (B \ A)) \in Nat
    <3>1. L \cap (B \ A) \in SUBSET L
      OBVIOUS
    <3> QED
      BY <3>1, <1>2, FS_Subset, FS_CardinalityType
  <2>3. /\ IsFiniteSet(L \cup (B \ A))
        /\ Cardinality(L \cup (B \ A)) =
             Cardinality(L) + Cardinality(B \ A) - Cardinality(L \cap (B \ A))
    BY <1>2, FS_Union
  <2>4. Cardinality(K \cup {n}) <= Cardinality(L \cup (B \ A))
    BY <1>3, <2>3, FS_Subset
  <2> QED
    BY <1>2, <2>1, <2>2, <2>3, <2>4
<1> DEFINE i == base.first + Rank(A, y)
           j == cl_entity_state + Rank(B, n)
<1>8. i \in Nat /\ j \in Nat /\ i < j /\ j - i < EntityStateBackup
  BY <1>2, <1>4, <1>5, <1>6, <1>7, RingSizes
<1> HIDE DEF i, j
<1>9. i % EntityStateBackup # j % EntityStateBackup
  BY <1>8, RingSizes, RemaindersDiffer
<1> QED
  BY <1>9 DEF i, j, Place, A, B

(* So what has still to be read of the base frame is there.                 *)
LEMMA BaseRead ==
  ASSUME NEW base, NEW from, NEW to, CanFollow(base, from, to),
         NEW v \in Nat, NEW ring, RingSofar(ring, to, v),
         NEW y \in DOMAIN from, y >= v
  PROVE  ring[(base.first + Rank(DOMAIN from, y)) % EntityStateBackup] =
           [number |-> y, state |-> from[y]]
<1> DEFINE k == (base.first + Rank(DOMAIN from, y)) % EntityStateBackup
<1>1. k \in 0 .. EntityStateBackup - 1
  <2>1. Rank(DOMAIN from, y) \in 0 .. Cardinality(DOMAIN from) - 1
        /\ Cardinality(DOMAIN from) \in Nat
    BY FollowTypes, Ranks
  <2>2. base.first \in Nat
    BY DEF CanFollow
  <2> QED
    BY <2>1, <2>2, RingSizes
<1>2. \A n \in DOMAIN to : n < v => Place(to, n) # k
  <2> SUFFICES ASSUME NEW n \in DOMAIN to, n < v PROVE Place(to, n) # k
    OBVIOUS
  <2>1. n < y
    <3>1. n \in Nat /\ y \in Nat
      BY FollowTypes
    <3> QED
      BY <3>1
  <2> QED
    BY <2>1, Intact
<1>3. cl_entity_states[k] = [number |-> y, state |-> from[y]]
  BY DEF CanFollow, Holds
<1> HIDE DEF k
<1>4. ring[k] = cl_entity_states[k]
  BY <1>1, <1>2 DEF RingSofar
<1> QED
  BY <1>3, <1>4 DEF k

LEMMA OldNumberIs ==
  ASSUME NEW base, NEW from, NEW to, CanFollow(base, from, to),
         NEW v \in Nat, NEW ring, RingSofar(ring, to, v)
  PROVE  OldNumber(base, ring, Rank(DOMAIN from, v)) = Least(After(DOMAIN from, v))
<1> DEFINE A == DOMAIN from
           Y == After(A, v)
<1>1. A \in SUBSET Nat /\ IsFiniteSet(A) /\ A \in SUBSET (1 .. MaxEdicts - 1)
  BY FollowTypes DEF CanFollow
<1>2. base.num = Cardinality(A)
  BY DEF CanFollow
<1>3. Y \in SUBSET (1 .. MaxEdicts - 1)
  BY <1>1 DEF After
<1>4. CASE Y = {}
  <2>1. {m \in A : m < v} = A
    BY <1>1, <1>4 DEF After
  <2>2. Rank(A, v) = Cardinality(A)
    BY <2>1 DEF Rank
  <2>3. ~(Rank(A, v) < base.num)
    <3>1. Cardinality(A) \in Nat
      BY FollowTypes
    <3> QED
      BY <1>2, <2>2, <3>1
  <2>4. Least(Y) = MaxEdicts
    BY <1>3, <1>4, LeastIs
  <2> QED
    BY <2>3, <2>4 DEF OldNumber
<1>5. CASE Y # {}
  <2> DEFINE y == Least(Y)
  <2>1. y \in Y /\ \A x \in Y : y <= x
    BY <1>3, <1>5, LeastIs
  <2>2. y \in A /\ y >= v /\ y \in Nat /\ \A x \in A : x >= v => x >= y
    <3> HIDE DEF y
    <3> QED
      BY <2>1, <1>1 DEF After
  <2> HIDE DEF y
  <2>3. Rank(A, y) = Rank(A, v)
    BY <1>1, <2>2, RankSame
  <2>4. Rank(A, y) \in 0 .. Cardinality(A) - 1
    BY <1>1, <2>2, Ranks
  <2>5. ring[(base.first + Rank(A, y)) % EntityStateBackup].number = y
    <3>1. ring[(base.first + Rank(A, y)) % EntityStateBackup]
            = [number |-> y, state |-> from[y]]
      BY <2>2, BaseRead
    <3> QED
      BY <3>1
  <2>6. Rank(A, v) < base.num
    <3>1. Cardinality(A) \in Nat
      BY FollowTypes
    <3> QED
      BY <1>2, <2>3, <2>4, <3>1
  <2>7. OldNumber(base, ring, Rank(A, v)) = y
    BY <2>3, <2>5, <2>6 DEF OldNumber
  <2> QED
    BY <2>7 DEF y
<1> QED
  BY <1>4, <1>5

(* The ring when one more entity is stored, or left out.                    *)
LEMMA StoredNext ==
  ASSUME NEW base, NEW from, NEW to, CanFollow(base, from, to),
         NEW x \in DOMAIN to, NEW ring, RingSofar(ring, to, x)
  PROVE  RingSofar([ring EXCEPT ![Place(to, x)] = [number |-> x, state |-> to[x]]],
                   to, x + 1)
<1> DEFINE B == DOMAIN to
           e == [number |-> x, state |-> to[x]]
           new == [ring EXCEPT ![Place(to, x)] = e]
<1>1. /\ B \in SUBSET Nat /\ IsFiniteSet(B) /\ Cardinality(B) <= EntityStateBackup
      /\ cl_entity_state \in Nat
  BY FollowTypes DEF CanFollow
<1>2. \A n \in B : Place(to, n) \in 0 .. EntityStateBackup - 1
  <2> TAKE n \in B
  <2>1. Rank(B, n) \in 0 .. Cardinality(B) - 1 /\ Cardinality(B) \in Nat
    BY <1>1, Ranks
  <2> QED
    BY <2>1, <1>1, RingSizes DEF Place
<1>3. \A n \in B : n # x => Place(to, n) # Place(to, x)
  BY <1>1, RingSizes, PlacesDiffer DEF Place
<1>4. DOMAIN ring = 0 .. EntityStateBackup - 1
  BY DEF RingSofar
<1> HIDE DEF e
<1>5. /\ DOMAIN new = 0 .. EntityStateBackup - 1
      /\ new[Place(to, x)] = e
      /\ \A k \in 0 .. EntityStateBackup - 1 : k # Place(to, x) => new[k] = ring[k]
  BY <1>2, <1>4
<1> HIDE DEF new
<1>6. \A n \in B : n < x + 1 => n = x \/ n < x
  BY <1>1
<1>7. \A n \in B : n < x + 1 => new[Place(to, n)] = [number |-> n, state |-> to[n]]
  <2> SUFFICES ASSUME NEW n \in B, n < x + 1
               PROVE  new[Place(to, n)] = [number |-> n, state |-> to[n]]
    OBVIOUS
  <2>1. CASE n = x
    BY <2>1, <1>5 DEF e
  <2>2. CASE n # x
    <3>1. n < x
      BY <1>6, <2>2
    <3>2. ring[Place(to, n)] = [number |-> n, state |-> to[n]]
      BY <3>1 DEF RingSofar
    <3>3. new[Place(to, n)] = ring[Place(to, n)]
      BY <1>2, <1>3, <1>5, <2>2
    <3> QED
      BY <3>2, <3>3
  <2> QED
    BY <2>1, <2>2
<1>8. ASSUME NEW k \in 0 .. EntityStateBackup - 1,
             \A n \in B : n < x + 1 => Place(to, n) # k
      PROVE  new[k] = cl_entity_states[k]
  <2>1. k # Place(to, x)
    <3>1. x < x + 1
      BY <1>1
    <3> QED
      BY <1>8, <3>1
  <2>2. \A n \in B : n < x => Place(to, n) # k
    <3> SUFFICES ASSUME NEW n \in B, n < x PROVE Place(to, n) # k
      OBVIOUS
    <3>1. n < x + 1
      BY <1>1
    <3> QED
      BY <1>8, <3>1
  <2>3. ring[k] = cl_entity_states[k]
    BY <2>2 DEF RingSofar
  <2> QED
    BY <1>5, <2>1, <2>3
<1>9. RingSofar(new, to, x + 1)
  BY <1>5, <1>7, <1>8 DEF RingSofar
<1> QED
  BY <1>9 DEF new, e

LEMMA SkippedNext ==
  ASSUME NEW base, NEW from, NEW to, CanFollow(base, from, to),
         NEW v \in Nat, NEW x \in Nat, v <= x,
         \A n \in DOMAIN to : n >= v => n >= x,
         NEW ring, RingSofar(ring, to, v)
  PROVE  RingSofar(ring, to, x)
<1>1. \A n \in DOMAIN to : n < x <=> n < v
  <2>1. DOMAIN to \in SUBSET Nat
    BY FollowTypes
  <2> QED
    BY <2>1
<1> QED
  BY <1>1 DEF RingSofar

(* Which entity is next.                                                    *)
LEMMA LeastAfter ==
  ASSUME NEW S \in SUBSET (1 .. MaxEdicts - 1), NEW x \in 1 .. MaxEdicts - 1
  PROVE  /\ x \in S => Least(After(S, x)) = x
         /\ x \notin S => Least(After(S, x)) \in Nat /\ Least(After(S, x)) > x
<1> DEFINE Y == After(S, x)
           L == Least(Y)
<1>1. /\ \A y \in S : y \in Nat /\ y < MaxEdicts
      /\ x \in Nat /\ x < MaxEdicts /\ MaxEdicts \in Nat /\ x >= x
  BY Sizes
<1>2. \A y : y \in Y <=> y \in S /\ y >= x
  BY DEF After
<1>3. /\ \A y \in Y : y \in S /\ y \in Nat /\ y >= x
      /\ x \in S => x \in Y
  <2> HIDE DEF Y
  <2> QED
    BY <1>1, <1>2
<1>4. Y \in SUBSET (1 .. MaxEdicts - 1)
  BY <1>2
<1> HIDE DEF Y
<1>5. /\ Y = {} => L = MaxEdicts
      /\ Y # {} => L \in Y /\ \A y \in Y : L <= y
  BY <1>4, LeastIs
<1> HIDE DEF L
<1>6. x \in S => L = x
  BY <1>1, <1>3, <1>5
<1>7. x \notin S => L \in Nat /\ L > x
  <2>1. CASE Y = {}
    BY <2>1, <1>1, <1>5
  <2>2. CASE Y # {}
    <3>1. L \in S /\ L \in Nat /\ L >= x
      BY <2>2, <1>3, <1>5
    <3> QED
      BY <3>1, <1>1
  <2> QED
    BY <2>1, <2>2
<1> QED
  BY <1>6, <1>7 DEF L, Y

(* One entity more: it is copied, changed, left out or made new, whichever  *)
(* it takes to follow the new frame.                                        *)
LEMMA TurnStep ==
  ASSUME NEW base, NEW from, NEW to, CanFollow(base, from, to),
         NEW x \in DOMAIN from \cup DOMAIN to, NEW p, Sofar(p, from, to, x)
  PROVE  Sofar(ParseEntity(base, Emitted(from, to), p), from, to, x + 1)
<1> DEFINE A == DOMAIN from
           B == DOMAIN to
           U == {n \in B : n \notin A \/ from[n] # to[n]}
           entities == Emitted(from, to)
           sent == Sent(entities)
           number == Least(p.left)
           place == (cl_entity_state + p.stored) % EntityStateBackup
           old == p.ring[(base.first + p.old) % EntityStateBackup].state
           keeps == p.number < number
           removes == ~keeps /\ number \in entities.removed
           entry == IF keeps THEN [number |-> p.number, state |-> old]
                    ELSE [number |-> number,
                          state |-> Applied(entities.updated[number],
                                            IF p.number = number THEN old ELSE Baseline)]
           ring == IF removes THEN p.ring ELSE [p.ring EXCEPT ![place] = entry]
           passes == removes \/ p.number <= number
           next == IF passes THEN p.old + 1 ELSE p.old
           new == ParseEntity(base, entities, p)
           E == [number |-> x, state |-> to[x]]
<1>1. /\ A \in SUBSET (1 .. MaxEdicts - 1) /\ B \in SUBSET (1 .. MaxEdicts - 1)
      /\ sent \in SUBSET (1 .. MaxEdicts - 1) /\ x \in 1 .. MaxEdicts - 1
      /\ A \in SUBSET Nat /\ B \in SUBSET Nat /\ sent \in SUBSET Nat
      /\ IsFiniteSet(A) /\ IsFiniteSet(B) /\ IsFiniteSet(sent)
  BY FollowTypes DEF CanFollow
<1>2. /\ entities.removed = A \ B /\ DOMAIN entities.updated = U
      /\ \A n \in U : /\ entities.updated[n].from = IF n \in A THEN from[n] ELSE Baseline
                      /\ entities.updated[n].to = to[n]
      /\ sent = (A \ B) \cup U
  BY DEF Emitted, Sent
<1>3. /\ RingSofar(p.ring, to, x)
      /\ p.stored = Rank(B, x) /\ p.old = Rank(A, x)
      /\ p.number = Least(After(A, x)) /\ p.left = After(sent, x)
  BY DEF Sofar
<1>4. /\ new.ring = ring
      /\ new.stored = IF removes THEN p.stored ELSE p.stored + 1
      /\ new.old = next
      /\ new.number = IF passes THEN OldNumber(base, ring, next) ELSE p.number
      /\ new.left = IF keeps THEN p.left ELSE p.left \ {number}
  BY DEF ParseEntity
<1>5. place = Place(to, x)
  BY <1>3 DEF Place
<1>6. x \in A => old = from[x]
  <2> SUFFICES ASSUME x \in A PROVE old = from[x]
    OBVIOUS
  <2>1. x \in Nat /\ x >= x
    BY <1>1
  <2>2. p.ring[(base.first + Rank(A, x)) % EntityStateBackup]
          = [number |-> x, state |-> from[x]]
    BY <1>3, <2>1, BaseRead
  <2> QED
    BY <1>3, <2>2
<1> HIDE DEF new, old, place, sent, entities
<1>7. /\ x \in A => p.number = x
      /\ x \notin A => p.number \in Nat /\ p.number > x
      /\ x \in sent => number = x
      /\ x \notin sent => number \in Nat /\ number > x
      /\ x \in Nat
  <2> HIDE DEF A, B, number
  <2>1. /\ x \in A => Least(After(A, x)) = x
        /\ x \notin A => Least(After(A, x)) \in Nat /\ Least(After(A, x)) > x
    BY <1>1, LeastAfter
  <2>2. /\ x \in sent => Least(After(sent, x)) = x
        /\ x \notin sent => Least(After(sent, x)) \in Nat /\ Least(After(sent, x)) > x
    BY <1>1, LeastAfter
  <2>3. x \in Nat
    BY <1>1
  <2> QED
    BY <1>3, <2>1, <2>2, <2>3 DEF number
<1>8. x \in sent <=> (x \in A /\ x \notin B) \/ x \in U
  BY <1>2
<1>9. /\ x \in A \/ x \in B
      /\ x \in U <=> x \in B /\ (x \notin A \/ from[x] # to[x])
  OBVIOUS
<1> HIDE DEF A, B, U, number
<1>10. keeps <=> x \notin sent
  BY <1>7, <1>8, <1>9
<1>11. removes <=> x \notin B
  BY <1>2, <1>7, <1>8, <1>9, <1>10
<1>12. passes <=> x \in A
  BY <1>7, <1>8, <1>9, <1>10, <1>11
<1>13. x \in B => entry = E
  <2> SUFFICES ASSUME x \in B PROVE entry = E
    OBVIOUS
  <2>1. CASE x \notin sent
    <3>1. x \in A /\ from[x] = to[x]
      BY <1>8, <1>9, <2>1
    <3> QED
      BY <2>1, <3>1, <1>6, <1>7, <1>10
  <2>2. CASE x \in sent
    <3>1. x \in U /\ number = x /\ ~keeps
      BY <1>7, <1>8, <1>9, <1>10, <2>2
    <3>2. /\ entities.updated[x].from = IF x \in A THEN from[x] ELSE Baseline
          /\ entities.updated[x].to = to[x]
      BY <1>2, <3>1
    <3>3. (IF p.number = x THEN old ELSE Baseline) = IF x \in A THEN from[x] ELSE Baseline
      BY <1>6, <1>7
    <3>4. Applied(entities.updated[x], IF p.number = x THEN old ELSE Baseline) = to[x]
      BY <3>2, <3>3 DEF Applied
    <3> QED
      BY <3>1, <3>4
  <2> QED
    BY <2>1, <2>2
<1> HIDE DEF keeps, removes, passes, entry, E
<1>14. RingSofar(new.ring, to, x + 1)
  <2>1. CASE x \in B
    <3>1. new.ring = [p.ring EXCEPT ![Place(to, x)] = E]
      BY <1>4, <1>5, <1>11, <1>13, <2>1
    <3> QED
      BY <1>3, <2>1, <3>1, StoredNext DEF E, B
  <2>2. CASE x \notin B
    <3>1. new.ring = p.ring
      BY <1>4, <1>11, <2>2
    <3>2. \A n \in B : n >= x => n >= x + 1
      BY <1>1, <1>7, <2>2
    <3>3. x + 1 \in Nat /\ x <= x + 1 /\ x \in Nat
      BY <1>7
    <3> QED
      BY <1>3, <3>1, <3>2, <3>3, SkippedNext DEF B
  <2> QED
    BY <2>1, <2>2
<1>15. new.stored = Rank(B, x + 1)
  BY <1>1, <1>3, <1>4, <1>7, <1>11, RankNext
<1>16. new.old = Rank(A, x + 1)
  BY <1>1, <1>3, <1>4, <1>7, <1>12, RankNext
<1>17. new.number = Least(After(A, x + 1))
  <2>1. CASE x \in A
    <3>1. new.number = OldNumber(base, new.ring, Rank(A, x + 1))
      BY <1>4, <1>12, <1>16, <2>1
    <3>2. x + 1 \in Nat
      BY <1>7
    <3> QED
      BY <1>14, <3>1, <3>2, OldNumberIs DEF A
  <2>2. CASE x \notin A
    <3>1. After(A, x) = After(A, x + 1)
      BY <1>1, <1>7, <2>2, RankNext
    <3> QED
      BY <1>3, <1>4, <1>12, <2>2, <3>1
  <2> QED
    BY <2>1, <2>2
<1>18. new.left = After(sent, x + 1)
  <2>1. CASE x \in sent
    <3>1. After(sent, x) = After(sent, x + 1) \cup {x} /\ x \notin After(sent, x + 1)
      BY <1>1, <1>7, <2>1, RankNext
    <3>2. new.left = After(sent, x) \ {x}
      BY <1>3, <1>4, <1>7, <1>10, <2>1
    <3> QED
      BY <3>1, <3>2
  <2>2. CASE x \notin sent
    <3>1. After(sent, x) = After(sent, x + 1)
      BY <1>1, <1>7, <2>2, RankNext
    <3> QED
      BY <1>3, <1>4, <1>10, <2>2, <3>1
  <2> QED
    BY <2>1, <2>2
<1> QED
  BY <1>14, <1>15, <1>16, <1>17, <1>18 DEF Sofar, new, sent, entities, A, B

(* Numbers of no entity are skipped.                                        *)
LEMMA SofarNext ==
  ASSUME NEW base, NEW from, NEW to, CanFollow(base, from, to),
         NEW v \in Nat, NEW x \in Nat, v <= x,
         \A n \in DOMAIN from \cup DOMAIN to : n >= v => n >= x,
         NEW p, Sofar(p, from, to, v)
  PROVE  Sofar(p, from, to, x)
<1> DEFINE A == DOMAIN from
           B == DOMAIN to
           sent == Sent(Emitted(from, to))
<1>1. A \in SUBSET Nat /\ B \in SUBSET Nat /\ sent \in SUBSET Nat
  BY FollowTypes
<1>2. A \cup sent = A \cup B
  BY FollowTypes
<1>3. /\ RingSofar(p.ring, to, v)
      /\ p.stored = Rank(B, v) /\ p.old = Rank(A, v)
      /\ p.number = Least(After(A, v)) /\ p.left = After(sent, v)
  BY DEF Sofar
<1>4. RingSofar(p.ring, to, x)
  BY <1>3, SkippedNext
<1>5. /\ \A n \in A : n >= v => n >= x
      /\ \A n \in B : n >= v => n >= x
      /\ \A n \in sent : n >= v => n >= x
  <2> HIDE DEF A, B, sent
  <2> QED
    BY <1>2 DEF A, B
<1> HIDE DEF A, B, sent
<1>6. /\ Rank(A, x) = Rank(A, v) /\ After(A, x) = After(A, v)
      /\ Rank(B, x) = Rank(B, v)
      /\ After(sent, x) = After(sent, v)
  BY <1>1, <1>5, RankSame
<1> QED
  BY <1>3, <1>4, <1>6 DEF Sofar, A, B, sent

(* Before anything is parsed.                                               *)
LEMMA SofarFirst ==
  ASSUME NEW base, NEW from, NEW to, CanFollow(base, from, to)
  PROVE  Sofar([ring |-> cl_entity_states, stored |-> 0, old |-> 0,
                number |-> OldNumber(base, cl_entity_states, 0),
                left |-> Sent(Emitted(from, to))], from, to, 0)
<1> DEFINE A == DOMAIN from
           B == DOMAIN to
           sent == Sent(Emitted(from, to))
<1>1. A \in SUBSET Nat /\ B \in SUBSET Nat /\ sent \in SUBSET Nat
  BY FollowTypes
<1>2. RingSofar(cl_entity_states, to, 0)
  <2>1. \A n \in B : ~(n < 0)
    BY <1>1
  <2>2. DOMAIN cl_entity_states = 0 .. EntityStateBackup - 1
    BY DEF CanFollow
  <2> QED
    BY <2>1, <2>2 DEF RingSofar
<1>3. \A S \in SUBSET Nat : Rank(S, 0) = 0 /\ After(S, 0) = S
  <2> TAKE S \in SUBSET Nat
  <2>1. \A n \in S : ~(n < 0) /\ n >= 0
    OBVIOUS
  <2>2. {n \in S : n < 0} = {} /\ {n \in S : n >= 0} = S
    BY <2>1
  <2>3. Cardinality({}) = 0
    BY FS_EmptySet
  <2> QED
    BY <2>2, <2>3 DEF Rank, After
<1>4. OldNumber(base, cl_entity_states, Rank(A, 0)) = Least(After(A, 0))
  BY <1>2, OldNumberIs
<1> HIDE DEF A, B, sent
<1>5. /\ Rank(A, 0) = 0 /\ Rank(B, 0) = 0 /\ After(sent, 0) = sent
      /\ OldNumber(base, cl_entity_states, 0) = Least(After(A, 0))
  BY <1>1, <1>3, <1>4
<1> QED
  BY <1>2, <1>5 DEF Sofar, A, B, sent

(* In the end the ring has the frame, and is else as it was.                *)
LEMMA ParseCompletes ==
  ASSUME NEW base, NEW from, NEW to, CanFollow(base, from, to), NEW n \in Nat,
         n = base.num + Cardinality(Sent(Emitted(from, to))),
         NEW f, IsParsing(f, base, Emitted(from, to), n)
  PROVE  /\ f[n].stored = Cardinality(DOMAIN to)
         /\ Holds(f[n].ring, EntityStateBackup, cl_entity_state, to)
         /\ \A k \in 0 .. EntityStateBackup - 1 :
              ~Taken(EntityStateBackup, cl_entity_state, Cardinality(DOMAIN to), k)
                => f[n].ring[k] = cl_entity_states[k]
<1> DEFINE A == DOMAIN from
           B == DOMAIN to
           N == A \cup B
           entities == Emitted(from, to)
           sent == Sent(entities)
           c(v) == Cardinality(After(N, v))
           Done(i) == \E v \in Nat : Sofar(f[i], from, to, v) /\ c(v) + i <= n
           T == {i \in Nat : i <= n => Done(i)}
<1>1. /\ A \in SUBSET Nat /\ B \in SUBSET Nat /\ sent \in SUBSET Nat
      /\ A \cup sent = N
      /\ IsFiniteSet(A) /\ IsFiniteSet(sent) /\ IsFiniteSet(B)
      /\ A \in SUBSET (1 .. MaxEdicts - 1) /\ B \in SUBSET (1 .. MaxEdicts - 1)
      /\ sent \in SUBSET (1 .. MaxEdicts - 1)
  BY FollowTypes DEF CanFollow
<1>2. n = Cardinality(A) + Cardinality(sent)
  BY DEF CanFollow
<1> HIDE DEF sent
<1>3. /\ N \in SUBSET Nat /\ N \in SUBSET (1 .. MaxEdicts - 1) /\ IsFiniteSet(N)
      /\ Cardinality(N) \in Nat /\ Cardinality(N) <= n
  <2>1. N \in SUBSET Nat /\ N \in SUBSET (1 .. MaxEdicts - 1)
    BY <1>1
  <2> HIDE DEF N
  <2>2. A \cap sent \in SUBSET A
    OBVIOUS
  <2> HIDE DEF A
  <2>3. IsFiniteSet(A \cap sent) /\ Cardinality(A \cap sent) \in Nat
        /\ Cardinality(A) \in Nat /\ Cardinality(sent) \in Nat
    BY <1>1, <2>2, FS_Subset, FS_CardinalityType
  <2>4. /\ IsFiniteSet(A \cup sent)
        /\ Cardinality(A \cup sent)
             = Cardinality(A) + Cardinality(sent) - Cardinality(A \cap sent)
    BY <1>1, FS_Union
  <2>5. Cardinality(A \cup sent) \in Nat
    BY <2>4, FS_CardinalityType
  <2>6. IsFiniteSet(N) /\ Cardinality(N) = Cardinality(A \cup sent)
    BY <1>1, <2>4
  <2> QED
    BY <1>2, <2>1, <2>3, <2>4, <2>5, <2>6
<1>4. \A v \in Nat : /\ After(N, v) \in SUBSET N /\ IsFiniteSet(After(N, v))
                     /\ c(v) \in Nat
  <2> HIDE DEF N
  <2> TAKE v \in Nat
  <2>1. After(N, v) \in SUBSET N
    BY DEF After
  <2> QED
    BY <1>3, <2>1, FS_Subset, FS_CardinalityType
<1>5. 0 \in T
  <2>1. f[0] = [ring |-> cl_entity_states, stored |-> 0, old |-> 0,
                number |-> OldNumber(base, cl_entity_states, 0),
                left |-> Sent(entities)]
    BY DEF IsParsing
  <2>2. Sofar(f[0], from, to, 0)
    BY <2>1, SofarFirst
  <2>3. c(0) + 0 <= n
    <3> HIDE DEF N
    <3>1. c(0) <= Cardinality(N)
      BY <1>3, <1>4, FS_Subset
    <3>2. c(0) \in Nat
      BY <1>4
    <3> HIDE DEF c
    <3> QED
      BY <1>3, <3>1, <3>2
  <2>4. Done(0)
    BY <2>2, <2>3
  <2> HIDE DEF Done
  <2> QED
    BY <2>4
<1>6. ASSUME NEW i \in Nat, i \in T
      PROVE  i + 1 \in T
  <2> SUFFICES ASSUME i + 1 <= n PROVE Done(i + 1)
    BY DEF T
  <2>1. i + 1 \in 0 .. n /\ i + 1 # 0 /\ (i + 1) - 1 = i /\ i <= n
    OBVIOUS
  <2>2. f[i + 1] = Turn(base, entities, f[i])
    BY <2>1 DEF IsParsing
  <2>3. PICK v \in Nat : Sofar(f[i], from, to, v) /\ c(v) + i <= n
    BY <1>6, <2>1
  <2> DEFINE p == f[i]
             q == f[i + 1]
  <2>4. CASE After(N, v) = {}
    <3>1. After(A, v) = {} /\ After(sent, v) = {}
      BY <1>1, <2>4 DEF After
    <3>2. Least({}) = MaxEdicts
      BY LeastIs
    <3>3. p.number = MaxEdicts /\ p.left = {}
      BY <2>3, <3>1, <3>2 DEF Sofar, sent
    <3>4. q = p
      BY <2>2, <3>3 DEF Turn
    <3>5. c(v) = 0
      BY <2>4, FS_EmptySet
    <3>6. c(v) + (i + 1) <= n
      <4> HIDE DEF c
      <4> QED
        BY <3>5
    <3> QED
      BY <2>3, <3>4, <3>6
  <2>5. CASE After(N, v) # {}
    <3>1. PICK x \in After(N, v) : \A y \in After(N, v) : x <= y
      <4>1. After(N, v) \in SUBSET Nat
        BY <1>3, <1>4
      <4> QED
        BY <2>5, <4>1, MinExists
    <3>2. x \in N /\ x \in Nat /\ v <= x
      BY <1>3, <3>1 DEF After
    <3>3. \A y \in N : y >= v => y >= x
      BY <1>3, <3>1, <3>2 DEF After
    <3>4. Sofar(p, from, to, x)
      BY <2>3, <3>2, <3>3, SofarNext
    <3>5. ~(p.left = {} /\ p.number = MaxEdicts)
      <4>1. p.number = Least(After(A, x)) /\ p.left = After(sent, x)
        BY <3>4 DEF Sofar, sent
      <4>2. x \in 1 .. MaxEdicts - 1 /\ x # MaxEdicts
        BY <1>3, <3>2, Sizes
      <4>3. CASE x \in A
        <5>1. p.number = x
          BY <1>1, <4>1, <4>2, <4>3, LeastAfter
        <5> QED
          BY <4>2, <5>1
      <4>4. CASE x \in sent
        <5>1. x >= x
          BY <3>2
        <5>2. x \in p.left
          BY <4>1, <4>4, <5>1 DEF After
        <5> QED
          BY <5>2
      <4> QED
        BY <1>1, <3>2, <4>3, <4>4
    <3>6. q = ParseEntity(base, entities, p)
      BY <2>2, <3>5 DEF Turn
    <3>7. Sofar(q, from, to, x + 1)
      <4> HIDE DEF p, q
      <4> QED
        BY <3>2, <3>4, <3>6, TurnStep
    <3>8. c(v) = c(x + 1) + 1
      <4> HIDE DEF N
      <4>1. After(N, v) = After(N, x)
        BY <1>3, <3>2, <3>3, RankSame
      <4>2. After(N, x) = After(N, x + 1) \cup {x} /\ x \notin After(N, x + 1)
        BY <1>3, <3>2, RankNext
      <4>3. IsFiniteSet(After(N, x + 1))
        BY <1>4, <3>2
      <4> QED
        BY <4>1, <4>2, <4>3, FS_AddElement
    <3>9. x + 1 \in Nat /\ c(x + 1) \in Nat
      <4>1. x + 1 \in Nat
        BY <3>2
      <4> HIDE DEF N
      <4> QED
        BY <1>4, <4>1
    <3>10. c(x + 1) + (i + 1) <= n
      <4> HIDE DEF c
      <4> QED
        BY <2>3, <3>8, <3>9
    <3> QED
      BY <3>7, <3>9, <3>10
  <2> QED
    BY <2>4, <2>5
<1>7. Done(n)
  <2> HIDE DEF Done
  <2>1. T = Nat
    <3>1. T \in SUBSET Nat
      OBVIOUS
    <3> HIDE DEF T
    <3> QED
      BY <1>5, <1>6, <3>1, Induct
  <2> QED
    BY <2>1
<1>8. PICK v \in Nat : Sofar(f[n], from, to, v) /\ c(v) + n <= n
  BY <1>7
<1>9. \A m \in B : m < v
  <2>1. c(v) = 0
    <3>1. c(v) \in Nat
      BY <1>4
    <3> HIDE DEF c
    <3> QED
      BY <1>8, <3>1
  <2>2. After(N, v) = {}
    BY <1>4, <2>1, FS_EmptySet
  <2>3. \A m \in B : m \in N /\ m \in Nat /\ ~(m >= v)
    BY <1>1, <2>2 DEF After
  <2> QED
    BY <2>3
<1>10. RingSofar(f[n].ring, to, v) /\ f[n].stored = Rank(B, v)
  BY <1>8 DEF Sofar
<1>11. f[n].stored = Cardinality(B)
  <2>1. {m \in B : m < v} = B
    BY <1>9
  <2> QED
    BY <1>10, <2>1 DEF Rank
<1>12. Holds(f[n].ring, EntityStateBackup, cl_entity_state, to)
  BY <1>9, <1>10 DEF RingSofar, Holds, Place
<1>13. ASSUME NEW k \in 0 .. EntityStateBackup - 1,
              ~Taken(EntityStateBackup, cl_entity_state, Cardinality(B), k)
       PROVE  f[n].ring[k] = cl_entity_states[k]
  <2>1. \A m \in B : Rank(B, m) \in 0 .. Cardinality(B) - 1
    BY <1>1, Ranks
  <2>2. \A m \in B : Place(to, m) # k
    BY <1>13, <2>1 DEF Taken, Place
  <2> QED
    BY <1>10, <2>2 DEF RingSofar
<1> QED
  BY <1>11, <1>12, <1>13

-----------------------------------------------------------------------------
(* Safety.  First the arithmetic: of the server's ring a frame has its      *)
(* share, and as many shares as frames may be told apart fit into it.       *)
LEMMA Shares ==
  ASSUME world \in Worlds, RingSuffices
  PROVE  /\ Share \in Nat /\ Share <= NumEntityStates
         /\ \A n \in 1 .. MaxFrames :
              Cardinality(DOMAIN world.seen[n]) + world.others[n] <= Share
         /\ \A k \in Nat : k < PacketBackup - 3 =>
              /\ k * Share \in Nat
              /\ (k + 1) * Share = k * Share + Share
              /\ k * Share + Share <= NumEntityStates
<1> DEFINE d == PacketBackup - 3
           e == NumEntityStates
           q == e \div d
<1>1. d \in Nat /\ d >= 1 /\ e \in Nat
  BY Sizes, RingSizes
<1>2. \A n \in 1 .. MaxFrames :
        LET x == Cardinality(DOMAIN world.seen[n]) + world.others[n]
        IN  x \in Nat /\ d * x <= e
  <2> TAKE n \in 1 .. MaxFrames
  <2> DEFINE u == Cardinality(DOMAIN world.seen[n])
             o == world.others[n]
  <2>1. u \in 0 .. EntityStateBackup /\ o \in Nat
    BY Seen
  <2>2. d * (u + o) <= e
    BY DEF RingSuffices
  <2> HIDE DEF u, o
  <2>3. u + o \in Nat
    BY <2>1, RingSizes
  <2> QED
    BY <2>2, <2>3 DEF u, o
<1>3. Share = q
  BY DEF Share
<1> HIDE DEF d, e
<1>4. e - (e % d) = d * q /\ q \in Int /\ e % d \in 0 .. d - 1
  BY <1>1
<1> HIDE DEF q
<1>5. q >= 0
  <2> SUFFICES ASSUME q <= -1 PROVE FALSE
    BY <1>4
  <2>1. d * q <= d * (-1)
    BY <1>1, <1>4
  <2>2. d * (-1) = -d
    BY <1>1
  <2> QED
    BY <1>1, <1>4, <2>1, <2>2
<1>6. ASSUME NEW x \in Nat, d * x <= e
      PROVE  x <= q
  <2> SUFFICES ASSUME x >= q + 1 PROVE FALSE
    BY <1>4
  <2>1. d * x >= d * (q + 1)
    BY <1>1, <1>4
  <2>2. d * (q + 1) = d * q + d
    BY <1>1, <1>4
  <2>3. d * q \in Int /\ d * x \in Int
    BY <1>1, <1>4
  <2> QED
    BY <1>1, <1>4, <1>6, <2>1, <2>2, <2>3
<1>7. ASSUME NEW k \in Nat, k < d
      PROVE  /\ k * q \in Nat /\ (k + 1) * q = k * q + q
             /\ k * q + q <= e
  <2>1. k * q \in Nat /\ (k + 1) * q = k * q + q /\ d * q \in Int
    BY <1>1, <1>4, <1>5
  <2>2. (k + 1) * q <= d * q
    <3>1. k + 1 <= d
      BY <1>1, <1>7
    <3> QED
      BY <3>1, <1>1, <1>4, <1>5
  <2>3. d * q <= e
    BY <1>1, <1>4
  <2> QED
    BY <2>1, <2>2, <2>3, <1>1, <1>4
<1>8. q <= e
  <2>1. 0 * q = 0
    BY <1>4
  <2> QED
    BY <1>1, <1>4, <1>5, <1>7, <2>1
<1>9. \A n \in 1 .. MaxFrames :
        Cardinality(DOMAIN world.seen[n]) + world.others[n] <= q
  BY <1>2, <1>6
<1> QED
  BY <1>3, <1>4, <1>5, <1>7, <1>8, <1>9 DEF d, e

(* The ring does suffice as long as no client sees more entities than       *)
(* MAX_PACKET_ENTITIES.                                                     *)
LEMMA AllowedSuffices ==
  ASSUME world \in Worlds, ~Crowded,
         \A n \in 1 .. MaxFrames :
           world.others[n] <= (MaxClients - 1) * PacketEntities
  PROVE  RingSuffices
<1> SUFFICES ASSUME NEW n \in 1 .. MaxFrames
             PROVE  (PacketBackup - 3)
                      * (Cardinality(DOMAIN world.seen[n]) + world.others[n])
                        <= NumEntityStates
  BY DEF RingSuffices
<1> DEFINE x == Cardinality(DOMAIN world.seen[n]) + world.others[n]
           b == PacketBackup
           m == MaxClients
           p == PacketEntities
<1>1. /\ Cardinality(DOMAIN world.seen[n]) \in Nat
      /\ Cardinality(DOMAIN world.seen[n]) <= p
      /\ world.others[n] \in Nat
  <2> DEFINE u == Cardinality(DOMAIN world.seen[n])
  <2>1. u \in 0 .. EntityStateBackup /\ world.others[n] \in Nat
        /\ n \in DOMAIN world.seen
    BY Seen
  <2>2. ~(u > p)
    BY <2>1 DEF Crowded
  <2> HIDE DEF u
  <2>3. u \in Nat /\ u <= p
    BY <2>1, <2>2, RingSizes, Sizes
  <2> QED
    BY <2>1, <2>3 DEF u
<1>2. x \in Nat /\ x <= p + (m - 1) * p
  <2>1. (m - 1) * p \in Int /\ p \in Int
    BY Sizes
  <2>2. world.others[n] <= (m - 1) * p
    OBVIOUS
  <2> QED
    BY <1>1, <2>1, <2>2
<1>3. b \in Nat /\ b > 3 /\ m \in Nat /\ p \in Nat
  BY Sizes
<1>4. NumEntityStates = b * (m * p)
  BY Sizes DEF NumEntityStates
<1> HIDE DEF x, b, m, p
<1>5. p + (m - 1) * p = m * p /\ m * p \in Nat
  BY <1>3
<1>6. (b - 3) * x <= b * x
  BY <1>2, <1>3
<1>7. b * x <= b * (m * p)
  <2> DEFINE q == m * p
  <2>1. q \in Nat /\ x <= q
    BY <1>2, <1>5
  <2> HIDE DEF q
  <2>2. b * x <= b * q
    BY <2>1, <1>2, <1>3
  <2> QED
    BY <2>2 DEF q
<1>8. (b - 3) * x \in Int /\ b * x \in Int /\ b * (m * p) \in Int
  BY <1>2, <1>3, <1>5
<1> QED
  BY <1>4, <1>6, <1>7, <1>8 DEF x, b

(* The client's ring has room for the frames between a base that is still   *)
(* used and the next one, with the distance that Cl_ParseFrame asks for.    *)
LEMMA ClientRoom ==
  ASSUME NEW k \in Nat, k < PacketBackup - 3
  PROVE  k * PacketEntities <= EntityStateBackup - PacketBackup
<1> DEFINE b == PacketBackup
           p == PacketEntities
<1>1. b \in Nat /\ p \in Nat /\ b > 3 /\ b <= 4 * p /\ k <= b - 4
  BY Sizes, FrameDeltaAssumption
<1>2. EntityStateBackup = b * p
  BY DEF EntityStateBackup
<1> HIDE DEF b, p
<1>3. k * p <= (b - 4) * p
  BY <1>1
<1>4. (b - 4) * p = b * p - 4 * p
  BY <1>1
<1>5. k * p \in Int /\ b * p \in Int
  BY <1>1
<1> QED
  BY <1>1, <1>2, <1>3, <1>4, <1>5 DEF b, p

(* So frames that are run leave those that are still used alone.            *)
LEMMA ServerKeeps ==
  ASSUME TypeInv, RingSuffices, RunGameFrame,
         NEW n \in 1 .. frame_num, frame_num' - n < PacketBackup - 3,
         ServerHas(n),
         frames'[Slot(n)] = frames[Slot(n)],
         next_entity_state' \in Nat, next_entity_state' >= next_entity_state,
         next_entity_state' <= next_entity_state + Share,
         StatesAt(entity_states', NumEntityStates,
                  frames[Slot(n)].first, frames[Slot(n)].num)
           = StatesAt(entity_states, NumEntityStates,
                      frames[Slot(n)].first, frames[Slot(n)].num)
  PROVE  ServerHas(n)'
<1> DEFINE f == frames[Slot(n)]
           k == frame_num - n + 1
<1>1. /\ TypeOK /\ world \in Worlds /\ frame_num \in Nat /\ n \in Nat
      /\ next_entity_state \in Nat /\ f.first \in Nat
  <2>1. Slot(n) \in 0 .. PacketBackup - 1
    BY SlotIs
  <2> QED
    BY <2>1 DEF TypeInv, TypeOK, FramesOK
<1>2. frame_num' = frame_num + 1 /\ world' = world
  BY FrameRun, <1>1
<1>3. k \in Nat /\ k < PacketBackup - 3 /\ frame_num' - n + 1 = k + 1
  BY <1>1, <1>2, Sizes
<1>4. /\ f.num = Cardinality(DOMAIN world.seen[n])
      /\ f.first + f.num <= next_entity_state
      /\ next_entity_state <= f.first + k * Share
      /\ StatesAt(entity_states, NumEntityStates, f.first, f.num) = world.seen[n]
  BY DEF ServerHas, ServerStates
<1>5. Share \in Nat /\ k * Share \in Nat /\ (k + 1) * Share = k * Share + Share
  BY <1>1, <1>3, Shares
<1>6. f.num \in Nat
  <2>1. n \in 1 .. MaxFrames
    BY <1>1, Sizes DEF TypeOK
  <2>2. Cardinality(DOMAIN world.seen[n]) \in 0 .. EntityStateBackup
    BY <2>1, <1>1, Seen
  <2> QED
    BY <2>2, <1>4, RingSizes
<1> HIDE DEF k
<1>7. next_entity_state' <= f.first + (k + 1) * Share
  BY <1>1, <1>4, <1>5
<1>8. f.first + f.num <= next_entity_state'
  BY <1>1, <1>4, <1>6
<1>9. ServerStates(n)' = world.seen[n]
  BY <1>4 DEF ServerStates
<1> HIDE DEF f
<1> QED
  BY <1>2, <1>3, <1>4, <1>7, <1>8, <1>9 DEF ServerHas, f

(* What a client could decode before, it can decode when nothing of its own *)
(* has changed.                                                             *)
LEMMA SameClient ==
  ASSUME world' = world, UNCHANGED <<cl_frame, cl_frames, cl_entity_states, cl_entity_state>>,
         NEW n, ClientHas(n)
  PROVE  ClientHas(n)'
BY DEF ClientHas, Crowded, ReadIntact, FewNewcomers

LEMMA SameServer ==
  ASSUME world' = world,
         UNCHANGED <<frame_num, frames, entity_states, next_entity_state>>,
         NEW n, ServerHas(n)
  PROVE  ServerHas(n)'
BY DEF ServerHas, ServerStates

(* A datagram that may still be accepted.                                   *)
LEMMA Acceptable ==
  ASSUME TypeInv, SafetyInv, NEW m \in downlink, Later(m)
  PROVE  /\ m.frame_num \in 1 .. MaxFrames /\ m.delta \in -1 .. MaxFrames
         /\ m.frame_num > cl_frame
         /\ m.entities = Emitted(Base(m), world.seen[m.frame_num])
         /\ m.delta # -1 =>
              /\ m.delta \in 1 .. cl_frame /\ m.delta \in Nat /\ m.delta < m.frame_num
              /\ m.frame_num - m.delta < PacketBackup - 3
              /\ ClientHas(m.delta)
<1> DEFINE f == m.frame_num
           d == m.delta
<1>1. /\ f \in 1 .. MaxFrames /\ d \in -1 .. MaxFrames /\ f > cl_frame
      /\ cl_frame \in Int
  BY Sizes DEF TypeInv, TypeOK, Later
<1>2. /\ d # -1 => d < f /\ f - d < PacketBackup - 3
      /\ m.entities = Emitted(Base(m), world.seen[f])
      /\ d # -1 => d \in 1 .. cl_frame
                   /\ (cl_frame - d < PacketBackup => ClientHas(d))
  BY DEF SafetyInv, DownlinkOK, ReceivedOK
<1> QED
  BY <1>1, <1>2, Sizes

(* While no client sees more than MAX_PACKET_ENTITIES, the frames from any  *)
(* base on, and one more, fit into its ring.                                *)
LEMMA UncrowdedRoom ==
  ASSUME world \in Worlds, ~Crowded, cl_frame \in Int, cl_entity_state \in Nat,
         NEW f \in 1 .. MaxFrames, NEW d \in Nat, d < f, d <= cl_frame, f > cl_frame,
         f - d < PacketBackup - 3, NEW first \in Nat,
         cl_entity_state <= first + (cl_frame - d + 1) * PacketEntities
  PROVE  cl_entity_state + PacketEntities <= first + EntityStateBackup
<1> DEFINE k == cl_frame - d + 1
           b == PacketBackup
           p == PacketEntities
           x == k * p
<1>1. k \in Nat /\ k < b - 3 /\ b \in Nat /\ p \in Nat
  BY Sizes
<1>2. EntityStateBackup = b * p
  BY DEF EntityStateBackup
<1>3. cl_entity_state <= first + x
  OBVIOUS
<1> HIDE DEF k, b, p
<1>4. (k + 1) * p <= b * p
  <2>1. k + 1 <= b /\ k + 1 \in Nat
    BY <1>1
  <2> QED
    BY <2>1, <1>1
<1>5. (k + 1) * p = x + p /\ x \in Nat
  BY <1>1
<1> DEFINE y == b * p
<1>6. y \in Nat /\ x + p <= y
  BY <1>1, <1>4, <1>5
<1> HIDE DEF x, y
<1>7. cl_entity_state + p <= first + y
  BY <1>1, <1>3, <1>5, <1>6
<1> QED
  BY <1>2, <1>7 DEF p, y

(* The base of one that passes the checks can be read to its end.           *)
LEMMA Followable ==
  ASSUME TypeInv, SafetyInv, NEW m \in downlink, Later(m),
         DeltaError(m) = "none", ReadIntact
  PROVE  CanFollow(BaseFrame(m), Base(m), world.seen[m.frame_num])
<1> DEFINE f == m.frame_num
           d == m.delta
           to == world.seen[f]
           from == Base(m)
           base == BaseFrame(m)
<1>1. /\ f \in 1 .. MaxFrames /\ d \in -1 .. MaxFrames /\ f > cl_frame
      /\ d # -1 => d \in 1 .. cl_frame /\ d \in Nat /\ d < f
                   /\ f - d < PacketBackup - 3 /\ ClientHas(d)
  BY Acceptable
<1>2. /\ world \in Worlds /\ cl_frame \in Int /\ cl_entity_state \in Nat
      /\ DOMAIN cl_entity_states = 0 .. EntityStateBackup - 1 /\ FramesOK
  BY Sizes DEF TypeInv, TypeOK
<1>3. \A n \in 1 .. MaxFrames : DOMAIN world.seen[n] \subseteq 1 .. MaxEdicts - 1
  BY <1>2, WorldsAssumption
<1>4. DOMAIN to \subseteq 1 .. MaxEdicts - 1
  BY <1>1, <1>3
<1>5. CASE d = -1
  <2>1. base = NoFrame /\ from = <<>>
    BY <1>5 DEF BaseFrame, Base
  <2>2. DOMAIN from = {}
    BY <2>1
  <2>3. Cardinality(DOMAIN from) = 0
    BY <2>2, FS_EmptySet
  <2>4. base.num = 0 /\ base.first = 0
    BY <2>1 DEF NoFrame
  <2> HIDE DEF from, base, to
  <2>5. Holds(cl_entity_states, EntityStateBackup, base.first, from)
    BY <2>2 DEF Holds
  <2>6. CanFollow(base, from, to)
    BY <1>2, <1>4, <2>2, <2>3, <2>4, <2>5 DEF CanFollow
  <2> QED
    BY <2>6 DEF from, base, to
<1>6. CASE d # -1
  <2> DEFINE x == Cardinality(DOMAIN to \ DOMAIN from)
             R == EntityStateBackup
  <2>1. /\ d \in 1 .. cl_frame /\ d \in Nat /\ d < f
        /\ f - d < PacketBackup - 3 /\ ClientHas(d) /\ d \in 1 .. MaxFrames
    BY <1>1, <1>6
  <2>2. from = world.seen[d] /\ base = cl_frames[Slot(d)]
    BY <1>6, <2>1 DEF Base, BaseFrame
  <2>3. Slot(d) \in 0 .. PacketBackup - 1
    BY <2>1, SlotIs
  <2>4. /\ base.first \in Nat /\ base.first + base.num <= cl_entity_state
    BY <1>2, <2>2, <2>3 DEF FramesOK
  <2>5. /\ base.valid /\ base.frame_num = d
        /\ base.num = Cardinality(DOMAIN from)
        /\ cl_entity_state - base.first <= R =>
             Holds(cl_entity_states, R, base.first, from)
        /\ ~Crowded =>
             cl_entity_state <= base.first + (cl_frame - d + 1) * PacketEntities
    BY <2>1, <2>2 DEF ClientHas
  <2>6. ~(cl_entity_state - base.first > Reach)
    <3>1. ~(m.delta <= 0) /\ base = cl_frames[Slot(m.delta)]
      BY <2>1, <2>2
    <3> HIDE DEF base
    <3>2. "Delta parse_entities too old" # "none"
      OBVIOUS
    <3> QED
      BY <2>5, <3>1, <3>2, Zenon DEF DeltaError
  <2>7. DOMAIN from \subseteq 1 .. MaxEdicts - 1
    BY <1>3, <2>1, <2>2
  <2>8. /\ IsFiniteSet(DOMAIN to) /\ Cardinality(DOMAIN to) \in Nat
        /\ f \in DOMAIN world.seen
    <3>1. IsFiniteSet(DOMAIN to) /\ f \in DOMAIN world.seen
      BY <1>1, <1>2, Seen
    <3> QED
      BY <3>1, FS_CardinalityType
  <2>9. x \in Nat /\ x <= Cardinality(DOMAIN to)
    <3>1. DOMAIN to \ DOMAIN from \in SUBSET DOMAIN to
      OBVIOUS
    <3> QED
      BY <2>8, <3>1, FS_Subset, FS_CardinalityType
  <2>10. ~Crowded => Cardinality(DOMAIN to) <= PacketEntities
    BY <2>8, Sizes DEF Crowded
  <2>11. FewNewcomers => x <= PacketBackup
    BY <1>1, <2>1, <2>2 DEF FewNewcomers
  <2> HIDE DEF to, from, base, x
  <2>12. cl_entity_state + x <= base.first + R
    <3>1. CASE ~Crowded
      <4>1. cl_entity_state + PacketEntities <= base.first + R
        <5>1. d <= cl_frame
          BY <1>2, <2>1
        <5>2. cl_entity_state <= base.first + (cl_frame - d + 1) * PacketEntities
          BY <2>5, <3>1
        <5> HIDE DEF f, d
        <5> QED
          BY <1>1, <1>2, <2>1, <2>4, <3>1, <5>1, <5>2, UncrowdedRoom
      <4> QED
        BY <1>2, <2>4, <2>8, <2>9, <2>10, <3>1, <4>1, Sizes, RingSizes
    <3>2. CASE FewNewcomers
      BY <1>2, <2>4, <2>6, <2>9, <2>11, <3>2, Sizes, RingSizes DEF Reach
    <3> QED
      BY <3>1, <3>2 DEF ReadIntact
  <2>13. Holds(cl_entity_states, R, base.first, from)
    <3>1. cl_entity_state - base.first <= R
      BY <1>2, <2>4, <2>9, <2>12, RingSizes
    <3> QED
      BY <2>5, <3>1
  <2>14. CanFollow(base, from, to)
    BY <1>2, <1>4, <2>4, <2>5, <2>7, <2>12, <2>13 DEF CanFollow, x, to
  <2> QED
    BY <2>14 DEF from, base, to
<1> QED
  BY <1>5, <1>6

(* Then what is stored is the frame, and nothing else is changed.           *)
LEMMA Parses ==
  ASSUME TypeInv, SafetyInv, NEW m \in downlink, Later(m),
         DeltaError(m) = "none", ReadIntact
  PROVE  LET p  == ParseEntities(m)
             to == world.seen[m.frame_num]
         IN  /\ p.stored = Cardinality(DOMAIN to)
             /\ Holds(p.ring, EntityStateBackup, cl_entity_state, to)
             /\ \A k \in 0 .. EntityStateBackup - 1 :
                  ~Taken(EntityStateBackup, cl_entity_state, Cardinality(DOMAIN to), k)
                    => p.ring[k] = cl_entity_states[k]
<1> DEFINE base == BaseFrame(m)
           from == Base(m)
           to == world.seen[m.frame_num]
           n == Turns(m)
<1>1. CanFollow(base, from, to)
  BY Followable
<1>2. m.entities = Emitted(from, to)
  BY Acceptable
<1>3. n \in Nat
  BY TurnsAre
<1>4. PICK f : IsParsing(f, base, m.entities, n) /\ ParseEntities(m) = f[n]
  BY <1>3, ParsedIs
<1>5. n = base.num + Cardinality(Sent(Emitted(from, to)))
  BY <1>2 DEF Turns
<1> HIDE DEF base, from, to, n
<1>6. /\ f[n].stored = Cardinality(DOMAIN to)
      /\ Holds(f[n].ring, EntityStateBackup, cl_entity_state, to)
      /\ \A k \in 0 .. EntityStateBackup - 1 :
           ~Taken(EntityStateBackup, cl_entity_state, Cardinality(DOMAIN to), k)
             => f[n].ring[k] = cl_entity_states[k]
  BY <1>1, <1>2, <1>3, <1>4, <1>5, ParseCompletes
<1> QED
  BY <1>4, <1>6 DEF to

(* A datagram that the client may still accept decodes to what was visible, *)
(* or is refused because of a crowd.                                        *)
LEMMA Usable ==
  ASSUME TypeInv, SafetyInv, NEW m \in downlink, Later(m)
  PROVE  \/ /\ DeltaError(m) = "none"
            /\ ReadIntact => Decoded(m) = world.seen[m.frame_num]
         \/ DeltaError(m) = "Delta parse_entities too old" /\ Crowded
<1> DEFINE f == m.frame_num
           d == m.delta
           to == world.seen[f]
<1>1. /\ f \in 1 .. MaxFrames /\ d \in -1 .. MaxFrames /\ f > cl_frame
      /\ d # -1 => d \in 1 .. cl_frame /\ d \in Nat /\ d < f
                   /\ f - d < PacketBackup - 3 /\ ClientHas(d)
  BY Acceptable
<1>2. world \in Worlds /\ cl_frame \in Int /\ cl_entity_state \in Nat /\ FramesOK
  BY Sizes DEF TypeInv, TypeOK
<1>3. \/ DeltaError(m) = "none"
      \/ DeltaError(m) = "Delta parse_entities too old" /\ Crowded
  <2>1. CASE d = -1
    BY <2>1 DEF DeltaError
  <2>2. CASE d # -1
    <3> DEFINE b == cl_frames[Slot(d)]
    <3>1. /\ d \in 1 .. cl_frame /\ d \in Nat /\ d < f
          /\ f - d < PacketBackup - 3 /\ ClientHas(d)
      BY <1>1, <2>2
    <3>2. /\ b.valid /\ b.frame_num = d
          /\ ~Crowded =>
               cl_entity_state <= b.first + (cl_frame - d + 1) * PacketEntities
      BY <3>1 DEF ClientHas
    <3>3. b.first \in Nat
      BY <1>2, <3>1, SlotIs DEF FramesOK
    <3>4. DeltaError(m) = IF cl_entity_state - b.first > Reach
                          THEN "Delta parse_entities too old" ELSE "none"
      <4>1. ~(m.delta <= 0)
        BY <3>1
      <4> QED
        BY <4>1, <3>2, Zenon DEF DeltaError
    <3> HIDE DEF b
    <3>5. ASSUME ~Crowded
          PROVE  ~(cl_entity_state - b.first > Reach)
      <4> DEFINE k == cl_frame - d + 1
      <4>1. k \in Nat /\ k < PacketBackup - 3
        BY <1>1, <1>2, <3>1, Sizes
      <4>2. cl_entity_state <= b.first + k * PacketEntities
        BY <3>2, <3>5
      <4> HIDE DEF k
      <4>3. k * PacketEntities <= Reach
        BY <4>1, ClientRoom DEF Reach
      <4>4. k * PacketEntities \in Nat /\ Reach \in Int
        BY <4>1, Sizes, RingSizes DEF Reach
      <4> QED
        BY <1>2, <3>3, <4>2, <4>3, <4>4
    <3> QED
      BY <3>4, <3>5
  <2> QED
    BY <2>1, <2>2
<1>4. ASSUME DeltaError(m) = "none", ReadIntact
      PROVE  Decoded(m) = to
  <2> DEFINE p == ParseEntities(m)
  <2>1. /\ p.stored = Cardinality(DOMAIN to)
        /\ Holds(p.ring, EntityStateBackup, cl_entity_state, to)
    BY <1>4, Parses
  <2>2. Decoded(m) = StatesAt(p.ring, EntityStateBackup, cl_entity_state, p.stored)
    BY DEF Decoded
  <2>3. /\ DOMAIN to \in SUBSET Nat /\ IsFiniteSet(DOMAIN to)
        /\ to = [e \in DOMAIN to |-> to[e]]
    BY <1>1, <1>2, Seen
  <2> HIDE DEF p, to
  <2> QED
    BY <2>1, <2>2, <2>3, HoldsRead
<1> QED
  BY <1>3, <1>4

LEMMA InitSafe == Init => SafetyInv
BY DEF Init, SafetyInv, SentOK, ReceivedOK, DownlinkOK, DroppedOnlyWhenCrowded

(* What a frame that is run leaves of the client, and of the datagrams that *)
(* were under way.                                                          *)
LEMMA RunKeeps ==
  ASSUME TypeOK, SafetyInv, RunGameFrame
  PROVE  /\ \A n \in uplink \cup {m.delta : m \in downlink} \cup {last_frame, cl_frame} :
              n # -1 => /\ n \in 1 .. cl_frame'
                        /\ cl_frame' - n < PacketBackup => ClientHas(n)'
         /\ DroppedOnlyWhenCrowded'
<1>1. world' = world /\ UNCHANGED client
  BY FrameRun
<1>2. \A n : ClientHas(n) => ClientHas(n)'
  BY <1>1, SameClient DEF client
<1>3. ReceivedOK /\ DroppedOnlyWhenCrowded
  BY DEF SafetyInv
<1>4. DroppedOnlyWhenCrowded'
  BY <1>1, <1>3 DEF DroppedOnlyWhenCrowded, Crowded, client
<1>5. cl_frame' = cl_frame
  BY <1>1 DEF client
<1> QED
  BY <1>2, <1>3, <1>4, <1>5 DEF ReceivedOK

LEMMA SendSafe ==
  ASSUME TypeInv, TypeInv', RingSuffices, SafetyInv, SendClientDatagram
  PROVE  SafetyInv'
<1>1. /\ frame_num' = frame_num + 1 /\ frame_num' \in 1 .. MaxFrames
      /\ world' = world /\ last_frame' = last_frame /\ uplink' = uplink
      /\ UNCHANGED client
      /\ Others \in Nat /\ Others = world.others[frame_num']
      /\ TypeOK /\ world \in Worlds /\ RunGameFrame
      /\ next_entity_state \in Nat /\ frame_num \in Nat
  BY FrameRun DEF SendClientDatagram, TypeInv, TypeOK
<1>2. PICK f \in 1 .. MaxFrames : f = frame_num'
  BY <1>1
<1>3. PICK o \in Nat : o = Others
  BY <1>1
<1> DEFINE v == world.seen[f]
           c == Cardinality(DOMAIN v)
           first == next_entity_state + o
           between == StoredForeign(entity_states, NumEntityStates,
                                    next_entity_state, o)
<1>4. /\ frames' = [frames EXCEPT ![Slot(f)] = [first |-> first, num |-> c]]
      /\ entity_states' = Stored(between, NumEntityStates, first, v)
      /\ next_entity_state' = first + c
      /\ downlink' = downlink \cup {FrameDatagram'}
  BY <1>2, <1>3 DEF SendClientDatagram, Count
<1>5. /\ DOMAIN v \in SUBSET Nat /\ IsFiniteSet(DOMAIN v) /\ c \in Nat
      /\ v = [e \in DOMAIN v |-> v[e]]
  BY <1>1, Seen, RingSizes
<1>6. /\ Share \in Nat /\ Share <= NumEntityStates /\ c + o <= Share
  BY <1>1, <1>2, <1>3, Shares
<1>7. /\ DOMAIN between = 0 .. NumEntityStates - 1
      /\ DOMAIN entity_states = 0 .. NumEntityStates - 1
      /\ DOMAIN frames = 0 .. PacketBackup - 1
  BY <1>1 DEF StoredForeign, TypeOK
<1>8. f \in Nat /\ Slot(f) \in 0 .. PacketBackup - 1 /\ first \in Nat
  BY <1>1, <1>2, SlotIs
<1>9. /\ frames'[Slot(f)].first = first
      /\ frames'[Slot(f)].num = c
      /\ \A s \in 0 .. PacketBackup - 1 : s # Slot(f) => frames'[s] = frames[s]
  BY <1>4, <1>7, <1>8
(* The frame just built. *)
<1>10. ServerHas(f)'
  <2> HIDE DEF v, first, between
  <2>1. ServerStates(f)' = StatesAt(entity_states', NumEntityStates, first, c)
    BY <1>9 DEF ServerStates
  <2>2. c <= NumEntityStates
    BY <1>3, <1>5, <1>6, RingSizes
  <2>3. StatesAt(entity_states', NumEntityStates, first, c) = v
    BY <1>4, <1>5, <1>7, <1>8, <2>2, RingSizes, StoredRead
  <2> HIDE DEF c
  <2>4. (frame_num' - f + 1) * Share = Share
    <3>1. frame_num' - f + 1 = 1
      BY <1>1, <1>2, <1>8
    <3> QED
      BY <3>1, <1>6
  <2>5. /\ first + c <= next_entity_state'
        /\ next_entity_state' <= first + (frame_num' - f + 1) * Share
    BY <1>3, <1>4, <1>5, <1>6, <1>8, <2>4
  <2>6. c = Cardinality(DOMAIN world'.seen[f]) /\ v = world'.seen[f]
    BY <1>1 DEF c, v
  <2> QED
    BY <1>9, <2>1, <2>3, <2>5, <2>6 DEF ServerHas
(* The frames that were there. *)
<1>11. ASSUME NEW n \in 1 .. frame_num, f - n < PacketBackup - 3, ServerHas(n)
       PROVE  ServerHas(n)'
  <2> DEFINE g == frames[Slot(n)]
  <2>1. n \in Nat /\ n < f /\ f - n < PacketBackup /\ Slot(n) \in 0 .. PacketBackup - 1
    BY <1>1, <1>2, <1>11, SlotIs, Sizes
  <2>2. Slot(n) # Slot(f)
    BY <1>8, <2>1, SlotDistinct
  <2>3. frames'[Slot(n)] = g
    BY <1>9, <2>1, <2>2
  <2>4. g.first \in Nat /\ g.num \in Nat
    BY <2>1, <1>7, <1>1, NumbersFinite DEF TypeInv, FramesOK, TypeOK
  <2>5. /\ g.first + g.num <= next_entity_state
        /\ next_entity_state <= g.first + (frame_num - n + 1) * Share
    BY <1>11 DEF ServerHas
  <2> HIDE DEF g, v, between
  <2>6. next_entity_state + Share <= g.first + NumEntityStates
    <3> DEFINE k == frame_num - n + 1
    <3>1. k \in Nat /\ k < PacketBackup - 3
      BY <1>1, <1>2, <1>11, <2>1, Sizes
    <3>2. next_entity_state <= g.first + k * Share
      BY <2>5
    <3> HIDE DEF k
    <3>3. k * Share \in Nat /\ k * Share + Share <= NumEntityStates
      BY <3>1, <1>1, Shares
    <3> QED
      BY <3>2, <3>3, <1>1, <1>6, <2>4, RingSizes
  <2> HIDE DEF c
  <2>7. /\ g.first + g.num <= first
        /\ next_entity_state + o <= g.first + NumEntityStates
        /\ first + c <= g.first + NumEntityStates
        /\ next_entity_state' >= next_entity_state
        /\ next_entity_state' <= next_entity_state + Share
        /\ next_entity_state' \in Nat
    BY <1>1, <1>3, <1>4, <1>5, <1>6, <2>4, <2>5, <2>6, RingSizes
  <2> HIDE DEF first
  <2>8. StatesAt(entity_states', NumEntityStates, g.first, g.num)
          = StatesAt(between, NumEntityStates, g.first, g.num)
    BY <1>4, <1>5, <1>7, <1>8, <2>4, <2>7, RingSizes, StoredKeeps DEF c
  <2>9. StatesAt(between, NumEntityStates, g.first, g.num)
          = StatesAt(entity_states, NumEntityStates, g.first, g.num)
    <3>1. /\ next_entity_state \in Nat
          /\ NumEntityStates \in Nat /\ NumEntityStates > 0
      BY <1>1, RingSizes
    <3>2. StatesAt(StoredForeign(entity_states, NumEntityStates, next_entity_state, o),
                   NumEntityStates, g.first, g.num)
            = StatesAt(entity_states, NumEntityStates, g.first, g.num)
      BY <3>1, <1>7, <2>4, <2>5, <2>7, ForeignKeeps
    <3> QED
      BY <3>2 DEF between
  <2>10. frame_num' - n < PacketBackup - 3
    BY <1>2, <1>11
  <2> QED
    BY <1>1, <1>11, <2>3, <2>7, <2>8, <2>9, <2>10, ServerKeeps DEF g
<1>12. ASSUME NEW n \in uplink \cup {m.frame_num : m \in downlink} \cup {last_frame, cl_frame},
              n # -1
       PROVE  /\ n \in 1 .. frame_num
              /\ f - n < PacketBackup - 3 => ServerHas(n)'
  <2>1. /\ n \in 1 .. frame_num
        /\ frame_num - n < PacketBackup - 3 => ServerHas(n)
    BY <1>12 DEF SafetyInv, SentOK
  <2>2. f - n < PacketBackup - 3 => frame_num - n < PacketBackup - 3
    BY <1>1, <1>2, <2>1, Sizes
  <2> QED
    BY <2>1, <2>2, <1>11
<1> HIDE DEF v, c, first, between
(* The datagram. *)
<1> DEFINE d == FrameDatagram'
<1>13. /\ d.frame_num = f
       /\ d.delta \in {-1, last_frame}
       /\ d.delta # -1 => d.delta < f /\ f - d.delta < PacketBackup - 3
       /\ d.entities = Emitted(Base(d), world.seen[f])
  <2> DEFINE full == (last_frame < 0 \/ TooOld)'
             base == IF full THEN <<>> ELSE ServerStates(last_frame)'
  <2>1. /\ d.frame_num = f
        /\ d.delta = IF full THEN -1 ELSE last_frame
        /\ d.entities = Emitted(base, ServerStates(f)')
    BY <1>1, <1>2 DEF FrameDatagram
  <2>2. ServerStates(f)' = world.seen[f]
    BY <1>1, <1>10 DEF ServerHas
  <2>3. full \/ /\ last_frame # -1 /\ last_frame >= 0
                /\ f - last_frame < PacketBackup - 3
    <3>1. last_frame \in -1 .. MaxFrames
      BY <1>1 DEF TypeOK
    <3> QED
      BY <1>1, <1>2, <3>1, Sizes DEF TooOld
  <2> HIDE DEF d, full
  <2>4. CASE full
    <3>1. Base(d) = <<>> /\ base = <<>>
      BY <2>1, <2>4 DEF Base
    <3> QED
      BY <2>1, <2>2, <2>4, <3>1
  <2>5. CASE ~full
    <3>1. last_frame # -1 /\ f - last_frame < PacketBackup - 3
      BY <2>3, <2>5
    <3>2. PICK l : l = last_frame
      OBVIOUS
    <3>3. l \in 1 .. frame_num /\ ServerHas(l)'
      <4>1. /\ l \in uplink \cup {m.frame_num : m \in downlink}
                       \cup {last_frame, cl_frame}
            /\ l # -1 /\ f - l < PacketBackup - 3
        BY <3>1, <3>2
      <4> QED
        BY <1>12, <4>1
    <3>4. ServerStates(last_frame)' = world.seen[last_frame]
      <4>1. ServerStates(l)' = world'.seen[l]
        BY <3>3 DEF ServerHas
      <4>2. ServerStates(last_frame)' = ServerStates(l)'
        BY <1>1, <3>2 DEF ServerStates
      <4> QED
        BY <1>1, <3>2, <4>1, <4>2
    <3>5. d.delta = last_frame
      BY <2>1, <2>5
    <3>6. base = world.seen[last_frame] /\ Base(d) = world.seen[last_frame]
      BY <2>5, <3>1, <3>4, <3>5 DEF Base
    <3>7. last_frame < f
      BY <1>1, <1>2, <3>2, <3>3
    <3> QED
      BY <2>1, <2>2, <3>1, <3>5, <3>6, <3>7
  <2> QED
    BY <2>4, <2>5
<1> HIDE DEF d
<1>14. downlink' = downlink \cup {d}
  BY <1>4 DEF d
<1>15. SentOK'
  <2>1. \A n \in uplink' \cup {m.frame_num : m \in downlink'} \cup {last_frame', cl_frame'} :
          n = f \/ n \in uplink \cup {m.frame_num : m \in downlink} \cup {last_frame, cl_frame}
    BY <1>1, <1>13, <1>14 DEF client
  <2>2. f \in 1 .. frame_num' /\ \A n \in 1 .. frame_num : n \in 1 .. frame_num'
    BY <1>1, <1>2
  <2> QED
    BY <1>2, <1>10, <1>12, <2>1, <2>2 DEF SentOK
<1>16. ReceivedOK' /\ DroppedOnlyWhenCrowded'
  <2>1. \A n \in uplink' \cup {m.delta : m \in downlink'} \cup {last_frame', cl_frame'} :
          n = -1 \/ n \in uplink \cup {m.delta : m \in downlink} \cup {last_frame, cl_frame}
    BY <1>1, <1>13, <1>14 DEF client
  <2> QED
    BY <2>1, <1>1, RunKeeps DEF ReceivedOK
<1>17. DownlinkOK'
  <2> SUFFICES ASSUME NEW m \in downlink'
               PROVE  /\ m.delta # -1 => /\ m.delta < m.frame_num
                                         /\ m.frame_num - m.delta < PacketBackup - 3
                      /\ m.entities = Emitted(Base(m)', world'.seen[m.frame_num])
    BY DEF DownlinkOK
  <2>1. Base(m)' = Base(m)
    BY <1>1 DEF Base
  <2>2. CASE m = d
    BY <1>1, <1>13, <2>1, <2>2
  <2>3. CASE m \in downlink
    BY <1>1, <2>1, <2>3 DEF SafetyInv, DownlinkOK
  <2> QED
    BY <1>14, <2>2, <2>3
<1> QED
  BY <1>15, <1>16, <1>17 DEF SafetyInv

LEMMA DropSafe ==
  ASSUME TypeInv, RingSuffices, SafetyInv, RateDrop
  PROVE  SafetyInv'
<1>1. /\ frame_num' = frame_num + 1 /\ frame_num' \in 1 .. MaxFrames
      /\ world' = world /\ last_frame' = last_frame /\ uplink' = uplink
      /\ UNCHANGED client
      /\ Others \in Nat /\ Others = world.others[frame_num']
      /\ TypeOK /\ world \in Worlds /\ RunGameFrame
      /\ next_entity_state \in Nat /\ frame_num \in Nat
  BY FrameRun DEF RateDrop, TypeInv, TypeOK
<1>2. PICK f \in 1 .. MaxFrames : f = frame_num'
  BY <1>1
<1>3. PICK o \in Nat : o = Others
  BY <1>1
<1>4. /\ entity_states' = StoredForeign(entity_states, NumEntityStates,
                                        next_entity_state, o)
      /\ next_entity_state' = next_entity_state + o
      /\ frames' = frames /\ downlink' = downlink
  BY <1>3 DEF RateDrop
<1>5. Share \in Nat /\ o <= Share
  <2>1. Cardinality(DOMAIN world.seen[f]) \in 0 .. EntityStateBackup
    BY <1>1, Seen
  <2>2. Share \in Nat /\ Cardinality(DOMAIN world.seen[f]) + o <= Share
    BY <1>1, <1>2, <1>3, Shares
  <2> QED
    BY <2>1, <2>2, RingSizes
<1>6. ASSUME NEW n \in 1 .. frame_num, f - n < PacketBackup - 3, ServerHas(n)
      PROVE  ServerHas(n)'
  <2> DEFINE g == frames[Slot(n)]
  <2>1. n \in Nat /\ Slot(n) \in 0 .. PacketBackup - 1
    BY SlotIs
  <2>2. g.first \in Nat /\ g.num \in Nat
    BY <2>1, <1>1, NumbersFinite DEF TypeInv, FramesOK, TypeOK
  <2>3. /\ g.first + g.num <= next_entity_state
        /\ next_entity_state <= g.first + (frame_num - n + 1) * Share
    BY <1>6 DEF ServerHas
  <2> HIDE DEF g
  <2>4. next_entity_state + Share <= g.first + NumEntityStates
    <3> DEFINE k == frame_num - n + 1
    <3>1. k \in Nat /\ k < PacketBackup - 3
      BY <1>1, <1>2, <1>6, <2>1, Sizes
    <3>2. next_entity_state <= g.first + k * Share
      BY <2>3
    <3> HIDE DEF k
    <3>3. k * Share \in Nat /\ k * Share + Share <= NumEntityStates
      BY <3>1, <1>1, Shares
    <3> QED
      BY <3>2, <3>3, <1>1, <1>5, <2>2, RingSizes
  <2>5. next_entity_state + o <= g.first + NumEntityStates
    BY <1>1, <1>3, <1>5, <2>2, <2>4, RingSizes
  <2>6. DOMAIN entity_states = 0 .. NumEntityStates - 1
    BY <1>1 DEF TypeOK
  <2>7. StatesAt(entity_states', NumEntityStates, g.first, g.num)
          = StatesAt(entity_states, NumEntityStates, g.first, g.num)
    <3>1. /\ next_entity_state \in Nat
          /\ NumEntityStates \in Nat /\ NumEntityStates > 0
      BY <1>1, RingSizes
    <3>2. StatesAt(StoredForeign(entity_states, NumEntityStates, next_entity_state, o),
                   NumEntityStates, g.first, g.num)
            = StatesAt(entity_states, NumEntityStates, g.first, g.num)
      BY <3>1, <2>2, <2>3, <2>5, <2>6, ForeignKeeps
    <3> QED
      BY <3>2, <1>4
  <2>8. /\ next_entity_state' >= next_entity_state
        /\ next_entity_state' <= next_entity_state + Share
        /\ next_entity_state' \in Nat
    BY <1>1, <1>3, <1>4, <1>5
  <2>9. frame_num' - n < PacketBackup - 3
    BY <1>2, <1>6
  <2> QED
    BY <1>1, <1>4, <1>6, <2>7, <2>8, <2>9, ServerKeeps DEF g
<1>7. SentOK'
  <2> SUFFICES ASSUME NEW n \in uplink \cup {m.frame_num : m \in downlink}
                                  \cup {last_frame, cl_frame},
                      n # -1
               PROVE  /\ n \in 1 .. frame_num'
                      /\ frame_num' - n < PacketBackup - 3 => ServerHas(n)'
    BY <1>1, <1>4 DEF SentOK, client
  <2>1. /\ n \in 1 .. frame_num
        /\ frame_num - n < PacketBackup - 3 => ServerHas(n)
    BY DEF SafetyInv, SentOK
  <2>2. f - n < PacketBackup - 3 => frame_num - n < PacketBackup - 3
    BY <1>1, <1>2, <2>1, Sizes
  <2>3. n \in 1 .. frame_num'
    BY <1>1, <2>1
  <2> QED
    BY <1>2, <1>6, <2>1, <2>2, <2>3
<1>8. ReceivedOK' /\ DroppedOnlyWhenCrowded'
  BY <1>1, <1>4, RunKeeps DEF ReceivedOK, client
<1>9. DownlinkOK'
  BY <1>1, <1>4 DEF SafetyInv, DownlinkOK, Base
<1> QED
  BY <1>7, <1>8, <1>9 DEF SafetyInv

LEMMA ParseSafe ==
  ASSUME TypeInv, TypeInv', SafetyInv, NEW m \in downlink, ParseFrame(m)
  PROVE  SafetyInv'
<1>1. /\ TypeOK /\ FramesOK /\ world \in Worlds
      /\ cl_entity_state \in Nat /\ cl_frame \in -1 .. MaxFrames
      /\ m.frame_num \in 1 .. MaxFrames /\ m.frame_num > cl_frame
      /\ DOMAIN cl_frames = 0 .. PacketBackup - 1
      /\ DOMAIN cl_entity_states = 0 .. EntityStateBackup - 1
  BY DEF TypeInv, TypeOK, ParseFrame, Later
<1>2. PICK f \in 1 .. MaxFrames : f = m.frame_num
  BY <1>1
<1> DEFINE v == world.seen[f]
           c == Cardinality(DOMAIN v)
           s == Slot(f)
           p == ParseEntities(m)
           q == p.stored
           new == p.ring
           R == EntityStateBackup
<1>3. /\ q \in Nat
      /\ ReadIntact =>
           /\ q = c /\ Holds(new, R, cl_entity_state, v)
           /\ \A k \in 0 .. R - 1 :
                ~Taken(R, cl_entity_state, c, k) => new[k] = cl_entity_states[k]
  BY <1>2, ParsedTypes, Parses DEF ParseFrame
<1>4. /\ cl_entity_states' = new
      /\ cl_entity_state' = cl_entity_state + q
      /\ cl_frames' = [cl_frames EXCEPT ![s] =
                         [valid |-> TRUE, frame_num |-> f,
                          first |-> cl_entity_state, num |-> q]]
      /\ cl_frame' = f
      /\ downlink' = {d \in downlink : d.frame_num > f}
      /\ UNCHANGED <<world, server, uplink, error>>
  BY <1>2 DEF ParseFrame
<1> HIDE DEF p, q, new
<1>5. c \in Nat /\ c <= EntityStateBackup /\ f \in DOMAIN world.seen
  <2>1. c \in 0 .. EntityStateBackup /\ f \in DOMAIN world.seen
    BY <1>1, Seen
  <2> HIDE DEF c
  <2> QED
    BY <2>1, RingSizes
<1>6. ~Crowded => ReadIntact /\ q <= PacketEntities
  <2>1. ~Crowded => c <= PacketEntities
    <3>1. ~Crowded => ~(c > PacketEntities)
      BY <1>5 DEF Crowded
    <3> HIDE DEF c
    <3> QED
      BY <1>5, <3>1, Sizes
  <2>2. ~Crowded => ReadIntact
    BY DEF ReadIntact
  <2> HIDE DEF c
  <2> QED
    BY <1>3, <2>1, <2>2
<1>7. f \in Nat /\ s \in 0 .. PacketBackup - 1
  BY SlotIs
<1>8. /\ cl_frames'[s].valid /\ cl_frames'[s].frame_num = f
      /\ cl_frames'[s].first = cl_entity_state /\ cl_frames'[s].num = q
      /\ \A k \in 0 .. PacketBackup - 1 : k # s => cl_frames'[k] = cl_frames[k]
  <2> HIDE DEF s
  <2> QED
    BY <1>1, <1>4, <1>7
<1>9. Crowded' = Crowded /\ ReadIntact' = ReadIntact /\ world' = world
  BY <1>4 DEF Crowded, ReadIntact, FewNewcomers
<1> HIDE DEF v
(* The frame received. *)
<1>10. ClientHas(f)'
  <2>1. ReadIntact' => q = c /\ Holds(cl_entity_states', R, cl_entity_state, v)
    BY <1>3, <1>4, <1>9
  <2>2. c = Cardinality(DOMAIN world'.seen[f]) /\ v = world'.seen[f]
    BY <1>9 DEF v
  <2> HIDE DEF c
  <2>3. cl_frame' - f + 1 = 1 /\ 1 * PacketEntities = PacketEntities
    BY <1>4, <1>7, Sizes
  <2>4. ~Crowded' =>
          cl_entity_state' <= cl_entity_state + (cl_frame' - f + 1) * PacketEntities
    BY <1>1, <1>3, <1>4, <1>6, <1>9, <2>3, Sizes
  <2> QED
    BY <1>4, <1>8, <2>1, <2>2, <2>4 DEF ClientHas, s
(* The frames that the client had. *)
<1>11. ASSUME NEW n \in 1 .. cl_frame, f - n < PacketBackup, ClientHas(n)
       PROVE  ClientHas(n)'
  <2> DEFINE g == cl_frames[Slot(n)]
             w == world.seen[n]
  <2>1. n \in Nat /\ n < f /\ Slot(n) \in 0 .. PacketBackup - 1 /\ n \in 1 .. MaxFrames
    <3>1. n \in Nat /\ n < f /\ n \in 1 .. MaxFrames
      BY <1>1, <1>2, Sizes
    <3> QED
      BY <3>1, SlotIs
  <2>2. Slot(n) # s
    BY <1>7, <1>11, <2>1, SlotDistinct
  <2>3. cl_frames'[Slot(n)] = g
    BY <1>8, <2>1, <2>2
  <2>4. /\ g.first \in Nat /\ g.num \in Nat
        /\ g.first + g.num <= cl_entity_state
    BY <2>1, <1>1 DEF FramesOK, TypeOK
  <2>5. /\ g.valid /\ g.frame_num = n
        /\ ReadIntact =>
             /\ g.num = Cardinality(DOMAIN w)
             /\ cl_entity_state - g.first <= R => Holds(cl_entity_states, R, g.first, w)
        /\ ~Crowded =>
             cl_entity_state <= g.first + (cl_frame - n + 1) * PacketEntities
    BY <1>11 DEF ClientHas
  <2>6. DOMAIN w \in SUBSET Nat /\ IsFiniteSet(DOMAIN w)
    BY <1>1, <2>1, Seen
  <2> HIDE DEF g, s, w, c
  <2>7. ASSUME ReadIntact, cl_entity_state' - g.first <= R
        PROVE  Holds(cl_entity_states', R, g.first, w)
    <3>1. cl_entity_state + c <= g.first + R /\ q = c
      BY <1>1, <1>3, <1>4, <2>4, <2>7, RingSizes
    <3>2. cl_entity_state - g.first <= R
      BY <1>1, <1>5, <2>4, <3>1, RingSizes
    <3>3. Holds(cl_entity_states, R, g.first, w) /\ g.num = Cardinality(DOMAIN w)
      BY <2>5, <2>7, <3>2
    <3>4. ASSUME NEW y \in DOMAIN w
          PROVE  cl_entity_states'[(g.first + Rank(DOMAIN w, y)) % R]
                   = [number |-> y, state |-> w[y]]
      <4> DEFINE k == (g.first + Rank(DOMAIN w, y)) % R
      <4>1. Rank(DOMAIN w, y) \in 0 .. g.num - 1
        BY <2>6, <3>3, Ranks
      <4>2. ~Taken(R, cl_entity_state, c, k) /\ k \in 0 .. R - 1
        BY <1>1, <1>5, <2>4, <3>1, <4>1, RingSizes, Apart
      <4>3. cl_entity_states[k] = [number |-> y, state |-> w[y]]
        BY <3>3 DEF Holds
      <4> HIDE DEF k
      <4>4. new[k] = cl_entity_states[k]
        BY <1>3, <2>7, <4>2
      <4> QED
        BY <1>4, <4>3, <4>4 DEF k
    <3> QED
      BY <3>4 DEF Holds
  <2>8. ASSUME ~Crowded
        PROVE  cl_entity_state' <= g.first + (f - n + 1) * PacketEntities
    <3> DEFINE k == cl_frame - n + 1
               l == f - n + 1
               e == PacketEntities
    <3>1. k \in Nat /\ l \in Nat /\ k + 1 <= l /\ e \in Nat
      BY <1>1, <1>2, <2>1, Sizes
    <3>2. cl_entity_state <= g.first + k * e /\ q <= e
      BY <1>6, <2>5, <2>8
    <3> HIDE DEF k, l, e
    <3>3. (k + 1) * e <= l * e /\ (k + 1) * e = k * e + e
      BY <3>1
    <3>4. k * e \in Nat /\ l * e \in Nat
      BY <3>1
    <3>5. /\ cl_entity_state' = cl_entity_state + q
          /\ cl_entity_state \in Nat /\ q \in Nat /\ g.first \in Nat
      BY <1>1, <1>3, <1>4, <2>4
    <3> DEFINE x == k * e
               y == l * e
    <3>6. /\ x \in Nat /\ y \in Nat /\ x + e <= y
          /\ cl_entity_state <= g.first + x
      BY <3>1, <3>2, <3>3, <3>4
    <3> HIDE DEF x, y
    <3>7. cl_entity_state' <= g.first + y
      BY <3>1, <3>2, <3>5, <3>6
    <3> QED
      BY <3>7 DEF l, e, y
  <2>9. n # cl_frame'
    BY <1>4, <2>1
  <2>10. ~Crowded' =>
           cl_entity_state' <= g.first + (cl_frame' - n + 1) * PacketEntities
    BY <1>4, <1>9, <2>8
  <2>11. ReadIntact' =>
           /\ g.num = Cardinality(DOMAIN world'.seen[n])
           /\ cl_entity_state' - g.first <= R =>
                Holds(cl_entity_states', R, g.first, world'.seen[n])
    BY <1>9, <2>5, <2>7 DEF w
  <2>12. g.valid /\ g.frame_num = n
    BY <2>5
  <2> QED
    BY <2>3, <2>9, <2>10, <2>11, <2>12 DEF ClientHas, g
<1>12. ReceivedOK'
  <2> SUFFICES ASSUME NEW n \in uplink' \cup {d.delta : d \in downlink'}
                                   \cup {last_frame', cl_frame'},
                      n # -1
               PROVE  /\ n \in 1 .. cl_frame'
                      /\ cl_frame' - n < PacketBackup => ClientHas(n)'
    BY DEF ReceivedOK
  <2>1. CASE n = f
    <3>1. f \in 1 .. cl_frame'
      BY <1>4
    <3> QED
      BY <1>10, <2>1, <3>1
  <2>2. CASE n # f
    <3>1. n \in uplink \cup {d.delta : d \in downlink} \cup {last_frame, cl_frame}
      BY <1>4, <2>2 DEF server
    <3>2. /\ n \in 1 .. cl_frame
          /\ cl_frame - n < PacketBackup => ClientHas(n)
      BY <3>1 DEF SafetyInv, ReceivedOK
    <3>3. f - n < PacketBackup => cl_frame - n < PacketBackup
      BY <1>1, <1>2, <3>2, Sizes
    <3>4. n \in 1 .. f
      BY <1>1, <1>2, <3>2
    <3> QED
      BY <1>4, <1>11, <3>2, <3>3, <3>4
  <2> QED
    BY <2>1, <2>2
<1>13. SentOK'
  <2> SUFFICES ASSUME NEW n \in uplink' \cup {d.frame_num : d \in downlink'}
                                   \cup {last_frame', cl_frame'},
                      n # -1
               PROVE  /\ n \in 1 .. frame_num'
                      /\ frame_num' - n < PacketBackup - 3 => ServerHas(n)'
    BY DEF SentOK
  <2>1. n \in uplink \cup {d.frame_num : d \in downlink} \cup {last_frame, cl_frame}
    BY <1>2, <1>4 DEF server
  <2>2. /\ n \in 1 .. frame_num
        /\ frame_num - n < PacketBackup - 3 => ServerHas(n)
    BY <2>1 DEF SafetyInv, SentOK
  <2>3. ServerHas(n) => ServerHas(n)'
    BY <1>4, SameServer DEF server
  <2> QED
    BY <1>4, <2>2, <2>3 DEF server
<1>14. DownlinkOK'
  BY <1>4 DEF SafetyInv, DownlinkOK, Base
<1>15. DroppedOnlyWhenCrowded'
  BY <1>4, <1>9 DEF SafetyInv, DroppedOnlyWhenCrowded
<1> QED
  BY <1>12, <1>13, <1>14, <1>15 DEF SafetyInv

(* Steps that keep the rings of both ends keep what the ends have.          *)
LEMMA RingsKept ==
  ASSUME SafetyInv, world' = world,
         UNCHANGED <<frame_num, frames, entity_states, next_entity_state>>,
         UNCHANGED <<cl_frame, cl_frames, cl_entity_states, cl_entity_state>>,
         uplink' \cup {last_frame'} \subseteq uplink \cup {last_frame, cl_frame},
         downlink' = downlink
  PROVE  SentOK' /\ ReceivedOK' /\ DownlinkOK'
<1>1. \A n : /\ ServerHas(n) => ServerHas(n)'
             /\ ClientHas(n) => ClientHas(n)'
  BY SameServer, SameClient
<1>2. SentOK /\ ReceivedOK /\ DownlinkOK
  BY DEF SafetyInv
<1>3. SentOK'
  <2>1. \A n \in uplink' \cup {m.frame_num : m \in downlink'} \cup {last_frame', cl_frame'} :
          n \in uplink \cup {m.frame_num : m \in downlink} \cup {last_frame, cl_frame}
    OBVIOUS
  <2> QED
    BY <1>1, <1>2, <2>1 DEF SentOK
<1>4. ReceivedOK'
  <2>1. \A n \in uplink' \cup {m.delta : m \in downlink'} \cup {last_frame', cl_frame'} :
          n \in uplink \cup {m.delta : m \in downlink} \cup {last_frame, cl_frame}
    OBVIOUS
  <2> QED
    BY <1>1, <1>2, <2>1 DEF ReceivedOK
<1>5. DownlinkOK'
  BY <1>2 DEF DownlinkOK, Base
<1> QED
  BY <1>3, <1>4, <1>5

LEMMA RefuseSafe ==
  ASSUME TypeInv, SafetyInv, NEW m \in downlink, RefuseFrame(m)
  PROVE  SafetyInv'
<1>1. DeltaError(m) = "Delta parse_entities too old" /\ Crowded
  BY Usable DEF RefuseFrame
<1>2. /\ error' = DeltaError(m)
      /\ UNCHANGED <<world, server, downlink, uplink, cl_frame, cl_frames,
                     cl_entity_states, cl_entity_state>>
  BY DEF RefuseFrame
<1>3. SentOK' /\ ReceivedOK' /\ DownlinkOK'
  BY <1>2, RingsKept DEF server
<1>4. DroppedOnlyWhenCrowded'
  BY <1>1, <1>2 DEF DroppedOnlyWhenCrowded, Crowded
<1> QED
  BY <1>3, <1>4 DEF SafetyInv

LEMMA SendCmdSafe ==
  ASSUME SafetyInv, SendCmd
  PROVE  SafetyInv'
<1>1. /\ uplink' = uplink \cup {cl_frame}
      /\ UNCHANGED <<world, server, downlink, client>>
  BY DEF SendCmd
<1>2. SentOK' /\ ReceivedOK' /\ DownlinkOK'
  BY <1>1, RingsKept DEF server, client
<1>3. DroppedOnlyWhenCrowded'
  BY <1>1 DEF SafetyInv, DroppedOnlyWhenCrowded, Crowded, client
<1> QED
  BY <1>2, <1>3 DEF SafetyInv

LEMMA MoveSafe ==
  ASSUME SafetyInv, NEW n \in uplink, ParseMove(n)
  PROVE  SafetyInv'
<1>1. /\ last_frame' = n /\ uplink' \subseteq uplink
      /\ UNCHANGED <<world, frame_num, frames, entity_states, next_entity_state,
                     downlink, client>>
  BY DEF ParseMove
<1>2. SentOK' /\ ReceivedOK' /\ DownlinkOK'
  BY <1>1, RingsKept DEF client
<1>3. DroppedOnlyWhenCrowded'
  BY <1>1 DEF SafetyInv, DroppedOnlyWhenCrowded, Crowded, client
<1> QED
  BY <1>2, <1>3 DEF SafetyInv

LEMMA SafetyPreserved ==
  ASSUME TypeInv, TypeInv', RingSuffices, SafetyInv, [Next]_vars
  PROVE  SafetyInv'
<1>1. CASE SendClientDatagram
  BY <1>1, SendSafe
<1>2. CASE RateDrop
  BY <1>2, DropSafe
<1>3. ASSUME NEW m \in downlink, ParseFrame(m) PROVE SafetyInv'
  BY <1>3, ParseSafe
<1>4. ASSUME NEW m \in downlink, RefuseFrame(m) PROVE SafetyInv'
  BY <1>4, RefuseSafe
<1>5. CASE SendCmd
  BY <1>5, SendCmdSafe
<1>6. ASSUME NEW n \in uplink, ParseMove(n) PROVE SafetyInv'
  BY <1>6, MoveSafe
<1>7. CASE UNCHANGED vars
  <2>1. SentOK' /\ ReceivedOK' /\ DownlinkOK'
    BY <1>7, RingsKept DEF vars, server, client
  <2>2. DroppedOnlyWhenCrowded'
    BY <1>7 DEF vars, client, SafetyInv, DroppedOnlyWhenCrowded, Crowded
  <2> QED
    BY <2>1, <2>2 DEF SafetyInv
<1> QED
  BY <1>1, <1>2, <1>3, <1>4, <1>5, <1>6, <1>7 DEF Next

LEMMA InvPreserved == FrameInv /\ [Next]_vars => FrameInv'
<1> SUFFICES ASSUME FrameInv, [Next]_vars PROVE FrameInv'
  OBVIOUS
<1>1. TypeInv /\ TypeInv'
  BY TypesPreserved DEF FrameInv
<1>2. world' = world
  BY DEF Next, vars, SendClientDatagram, RateDrop, RunGameFrame, ParseFrame,
         RefuseFrame, SendCmd, ParseMove
<1>3. RingSuffices' => RingSuffices
  BY <1>2 DEF RingSuffices
<1> QED
  BY <1>1, <1>3, SafetyPreserved DEF FrameInv

(* The inductive invariant holds in every state.                            *)
THEOREM Invariance == Spec => []FrameInv
<1>1. Init => FrameInv
  BY InitTypes, InitSafe DEF FrameInv
<1> QED
  BY <1>1, InvPreserved, PTL DEF Spec

(* As long as the server encodes against the frame the client named, its    *)
(* own copy of that frame has not been overwritten, by this client's frames *)
(* or by those of others, whatever is lost.                                 *)
THEOREM BasesStayIntact == Spec => [](RingSuffices => BaseIntact)
<1>1. FrameInv => (RingSuffices => BaseIntact)
  <2> SUFFICES ASSUME FrameInv, RingSuffices, last_frame > 0, ~TooOld
               PROVE  ServerStates(last_frame) = world.seen[last_frame]
    BY DEF BaseIntact
  <2>1. last_frame \in -1 .. MaxFrames /\ frame_num \in 0 .. MaxFrames /\ SentOK
    BY DEF FrameInv, TypeInv, TypeOK, SafetyInv
  <2>2. last_frame # -1 /\ frame_num - last_frame < PacketBackup - 3
    BY <2>1, Sizes DEF TooOld
  <2>3. ServerHas(last_frame)
    BY <2>1, <2>2 DEF SentOK
  <2> QED
    BY <2>3 DEF ServerHas
<1> QED
  BY <1>1, Invariance, PTL

(* Each frame datagram that may still be accepted decodes to what the       *)
(* server saw, from the backups the client has by then, although each       *)
(* entity is stored into the ring the base is still read from, if the       *)
(* course has no more entities than allowed for or no more than             *)
(* PACKET_BACKUP newcomers a frame; with more entities than allowed for it  *)
(* may be refused instead.                                                  *)
THEOREM FramesStayUsable == Spec => [](RingSuffices => EveryFrameUsable)
<1>1. FrameInv => (RingSuffices => EveryFrameUsable)
  BY Usable DEF FrameInv, EveryFrameUsable
<1> QED
  BY <1>1, Invariance, PTL

(* What the client has as its current frame is what it could see then, in   *)
(* any course with no more entities than allowed for or no more than        *)
(* PACKET_BACKUP newcomers a frame.                                         *)
THEOREM FramesAreFaithful == Spec => [](RingSuffices => FrameFaithful)
<1>1. FrameInv => (RingSuffices => FrameFaithful)
  <2> SUFFICES ASSUME FrameInv, RingSuffices, ReadIntact, cl_frame > 0
               PROVE  ClientStates(Slot(cl_frame)) = world.seen[cl_frame]
    BY DEF FrameFaithful
  <2>1. /\ cl_frame \in 1 .. MaxFrames /\ world \in Worlds
        /\ cl_entity_state \in Nat /\ ReceivedOK /\ FramesOK
    BY Sizes DEF FrameInv, TypeInv, TypeOK, SafetyInv
  <2>2. cl_frame # -1 /\ cl_frame - cl_frame < PacketBackup
    BY <2>1, Sizes
  <2>3. ClientHas(cl_frame)
    BY <2>1, <2>2 DEF ReceivedOK
  <2> DEFINE f == cl_frames[Slot(cl_frame)]
             v == world.seen[cl_frame]
  <2>4. /\ cl_entity_state = f.first + f.num
        /\ f.num = Cardinality(DOMAIN v)
        /\ cl_entity_state - f.first <= EntityStateBackup =>
             Holds(cl_entity_states, EntityStateBackup, f.first, v)
    BY <2>3 DEF ClientHas
  <2>5. f.first \in Nat
    <3>1. Slot(cl_frame) \in 0 .. PacketBackup - 1
      BY <2>1, SlotIs
    <3> QED
      BY <2>1, <3>1 DEF FramesOK
  <2>6. f.num \in 0 .. EntityStateBackup
    BY <2>1, <2>4, Seen
  <2>7. /\ DOMAIN v \in SUBSET Nat /\ IsFiniteSet(DOMAIN v)
        /\ v = [e \in DOMAIN v |-> v[e]]
    BY <2>1, Seen
  <2>8. ClientStates(Slot(cl_frame)) =
          StatesAt(cl_entity_states, EntityStateBackup, f.first, f.num)
    BY DEF ClientStates
  <2> HIDE DEF f, v
  <2>9. cl_entity_state - f.first <= EntityStateBackup
    BY <2>4, <2>5, <2>6, RingSizes
  <2> QED
    BY <2>4, <2>7, <2>8, <2>9, HoldsRead DEF v
<1> QED
  BY <1>1, Invariance, PTL

(* No error of Cl_ParseFrame ends a session, unless there are more entities *)
(* in sight than are allowed for, and then only the check meant for that.   *)
THEOREM DropsNeedACrowd == Spec => [](RingSuffices => DroppedOnlyWhenCrowded)
<1>1. FrameInv => (RingSuffices => DroppedOnlyWhenCrowded)
  BY DEF FrameInv, SafetyInv
<1> QED
  BY <1>1, Invariance, PTL
=============================================================================
