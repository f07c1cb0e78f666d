--------------------------- MODULE UserCmdsProofs ---------------------------
(***************************************************************************)
(* Proofs about the movement commands (UserCmds), for a ring of any size   *)
(* above two, any bound on what is made up for and any number of datagrams *)
(* and frames: the server runs what was due in order and each once, no     *)
(* command is predicted on top of a state that has it already, and         *)
(* prediction is right whenever it has its basis.                          *)
(***************************************************************************)
EXTENDS UserCmds, ListsProofs

-----------------------------------------------------------------------------
(* Nobody acknowledges what was not accepted; a frame takes at most two     *)
(* datagrams.                                                               *)
NumbersOK ==
  /\ incoming_acknowledged <= incoming_sequence
  /\ sv_outgoing <= 2 * frame_num

(* A command is of the packet frames up to its own, and it is Null only in  *)
(* the datagrams that carried none.                                         *)
SentOK ==
  /\ sent \in Seq(Cmds)
  /\ \A n \in 1 .. outgoing_sequence - 1 :
       /\ \A k \in sent[n] : k <= n
       /\ n < FirstMove <=> sent[n] = Null

(* The ring holds what was sent last, and the pending command.              *)
RingOK ==
  /\ \A n \in 1 .. outgoing_sequence - 1 :
       outgoing_sequence - n < CmdBackup => cmds[Slot(n)] = sent[n]
  /\ \A k \in cmds[Slot(outgoing_sequence)] : k <= outgoing_sequence

(* A datagram carries the command of its number and the two before it.      *)
UplinkOK ==
  \A d \in uplink :
    /\ d.sequence \in FirstMove .. outgoing_sequence - 1
    /\ d.new = sent[d.sequence]
    /\ d.old = sent[d.sequence - 1]
    /\ d.oldest = sent[d.sequence - 2]

(* The datagram accepted last, and the first one.                           *)
AcceptedOK ==
  /\ incoming_sequence \in accepted
  /\ \E f \in accepted : f < FirstMove /\ \A m \in accepted : f <= m
  /\ last_cmd = sent[incoming_sequence]

(* All of a state is of the packet frames up to n.                          *)
UpTo(state, n) == \A i \in 1 .. Len(state) : \A k \in state[i] : k <= n

(* A later datagram of the server acknowledges no less, and its state is of *)
(* what it acknowledges.                                                    *)
DownlinkOK ==
  \A m \in downlink :
    /\ m.ack \in incoming_acknowledged .. incoming_sequence
    /\ m.has_frame \in BOOLEAN
    /\ m.state \in Seq(Cmds)
    /\ UpTo(m.state, m.ack)
    /\ \A l \in downlink : l.sequence < m.sequence => l.ack <= m.ack

StatesOK ==
  /\ UpTo(player, incoming_sequence)
  /\ UpTo(frame, incoming_acknowledged)

(* Where the commands sent up to the nth take the player.                   *)
Result(n) == MovedAll(<<>>, SubSeq(sent, 1, n))

(* Without a disturbance the ring always reaches back to the command last   *)
(* acknowledged.                                                            *)
WindowOK == disturbed \/ outgoing_sequence - incoming_acknowledged <= CmdBackup

(* As long as prediction has its basis, and the server has run what was     *)
(* sent, every state is the result of the commands it stands for: that in   *)
(* the frame, those under way, and those foreseen for every command that    *)
(* can still be acknowledged.                                               *)
ForesightOK ==
  ~disturbed /\ ~Invented =>
    /\ frame = Result(incoming_acknowledged)
    /\ \A m \in downlink : m.has_frame /\ m.state = Result(m.ack)
    /\ \A n \in incoming_acknowledged .. outgoing_sequence - 1 :
         origins[Slot(n)] = Result(n)
    /\ ~error

UserCmdsInv ==
  /\ TypeOK /\ NumbersOK /\ SentOK /\ RingOK /\ UplinkOK /\ AcceptedOK
  /\ DownlinkOK /\ StatesOK /\ RunAsSent /\ WindowOK /\ ForesightOK

-----------------------------------------------------------------------------
(* The numbers of the constants.                                            *)
LEMMA Numbers ==
  /\ CmdBackup \in Nat /\ CmdBackup > 2
  /\ MaxReplay \in Nat /\ MaxReplay > 2
  /\ MaxSequence \in Nat /\ MaxSequence >= FirstMove
  /\ MaxFrames \in Nat /\ MaxFrames > 0
  /\ FirstMove = 3
BY UserCmdsAssumption DEF FirstMove

(* A slot of the ring.                                                      *)
LEMMA SlotType ==
  ASSUME NEW n \in Nat
  PROVE  Slot(n) \in 0 .. CmdBackup - 1
BY Numbers DEF Slot

(* As many numbers in a row as the ring has slots have each their own.      *)
LEMMA SlotDistinct ==
  ASSUME NEW m \in Nat, NEW n \in Nat, m < n, n - m < CmdBackup
  PROVE  Slot(m) # Slot(n)
BY Numbers, RemaindersDiffer DEF Slot

(* A state moved on by some commands is made of both.                       *)
LEMMA MovedFacts ==
  ASSUME NEW S, NEW state \in Seq(S), NEW list \in Seq(S)
  PROVE  /\ MovedAll(state, list) \in Seq(S)
         /\ ToSet(MovedAll(state, list)) \subseteq ToSet(state) \cup ToSet(list)
<1> DEFINE w == Without(list, {Null})
<1>1. w \in Seq(S) /\ ToSet(w) \subseteq ToSet(list)
  BY WithoutFacts
<1>2. MovedAll(state, list) = state \o w
  BY DEF MovedAll
<1> HIDE DEF w
<1>3. state \o w \in Seq(S)
  BY <1>1
<1>4. ASSUME NEW x \in ToSet(state \o w)
      PROVE  x \in ToSet(state) \cup ToSet(w)
  <2>1. PICK i \in 1 .. Len(state) + Len(w) : x = (state \o w)[i]
    BY <1>1 DEF ToSet
  <2>2. CASE i <= Len(state)
    BY <1>1, <2>1, <2>2 DEF ToSet
  <2>3. CASE i > Len(state)
    <3>1. i - Len(state) \in 1 .. Len(w) /\ x = w[i - Len(state)]
      BY <1>1, <2>1, <2>3
    <3> QED
      BY <3>1, <1>1 DEF ToSet
  <2> QED
    BY <1>1, <2>2, <2>3
<1> QED
  BY <1>1, <1>2, <1>3, <1>4

(* Two runs of commands are one run of both.                                *)
LEMMA MovedMore ==
  ASSUME NEW S, NEW first \in Seq(S), NEW second \in Seq(S)
  PROVE  MovedAll(MovedAll(<<>>, first), second) = MovedAll(<<>>, first \o second)
<1> DEFINE a == Without(first, {Null})
           b == Without(second, {Null})
<1>1. a \in Seq(S) /\ b \in Seq(S)
  BY WithoutFacts
<1>2. Without(first \o second, {Null}) = a \o b
  BY WithoutConcat
<1> HIDE DEF a, b
<1>3. <<>> \o a = a /\ <<>> \o (a \o b) = a \o b
  BY <1>1
<1> QED
  BY <1>2, <1>3 DEF MovedAll, a, b

(* A function on 1 .. n is a sequence.                                      *)
LEMMA FunctionSeq ==
  ASSUME NEW S, NEW n \in Nat, NEW f \in [1 .. n -> S]
  PROVE  f \in Seq(S) /\ Len(f) = n
OBVIOUS

-----------------------------------------------------------------------------
(* Where commands take the player.                                          *)

LEMMA ResultType ==
  ASSUME sent \in Seq(Cmds), NEW n \in 0 .. Len(sent)
  PROVE  Result(n) \in Seq(Cmds)
<1>1. SubSeq(sent, 1, n) \in Seq(Cmds) /\ <<>> \in Seq(Cmds)
  OBVIOUS
<1> QED
  BY <1>1, MovedFacts DEF Result

(* The result of more commands is that of the fewer moved on by the others. *)
LEMMA ResultMore ==
  ASSUME NEW S, NEW s \in Seq(S), NEW n \in 1 .. Len(s), NEW m \in 0 .. n
  PROVE  MovedAll(MovedAll(<<>>, SubSeq(s, 1, m)), SubSeq(s, m + 1, n))
           = MovedAll(<<>>, SubSeq(s, 1, n))
<1>1. SubSeq(s, 1, m) \o SubSeq(s, m + 1, n) = SubSeq(s, 1, n)
  BY ConcatAdjacentSubSeq
<1>2. SubSeq(s, 1, m) \in Seq(S) /\ SubSeq(s, m + 1, n) \in Seq(S)
  BY SubSeqProperties
<1> QED
  BY <1>1, <1>2, MovedMore

(* What was sent before stays what it was.                                  *)
LEMMA SentBefore ==
  ASSUME NEW S, NEW s \in Seq(S), NEW x \in S, NEW n \in 0 .. Len(s)
  PROVE  SubSeq(Append(s, x), 1, n) = SubSeq(s, 1, n)
<1>1. Append(s, x) \in Seq(S)
  OBVIOUS
<1>2. \A i \in 1 .. n : Append(s, x)[i] = s[i] /\ s[i] \in S
  OBVIOUS
<1>3. /\ SubSeq(s, 1, n) \in Seq(S) /\ Len(SubSeq(s, 1, n)) = n
      /\ \A i \in 1 .. n : SubSeq(s, 1, n)[i] = s[i]
  OBVIOUS
<1>4. /\ SubSeq(Append(s, x), 1, n) \in Seq(S)
      /\ Len(SubSeq(Append(s, x), 1, n)) = n
      /\ \A i \in 1 .. n : SubSeq(Append(s, x), 1, n)[i] = Append(s, x)[i]
  <2> DEFINE t == Append(s, x)
  <2>1. t \in Seq(S) /\ n \in 0 .. Len(t)
    BY <1>1
  <2> HIDE DEF t
  <2> QED
    BY <2>1 DEF t
<1> QED
  BY <1>2, <1>3, <1>4, SeqEqual

-----------------------------------------------------------------------------
(* The history of what was accepted.                                        *)

(* Around a command that is due there are datagrams accepted.               *)
LEMMA Around ==
  ASSUME TypeOK, AcceptedOK, NEW n \in Due
  PROVE  /\ n \in 1 .. incoming_sequence
         /\ Before(n) \in accepted /\ Before(n) < n
         /\ Upon(n) \in accepted /\ Upon(n) >= n
         /\ \A m \in accepted : m >= n => Upon(n) <= m
<1>1. /\ accepted \subseteq 1 .. incoming_sequence
      /\ incoming_sequence \in accepted /\ incoming_sequence \in Nat
  BY DEF TypeOK, AcceptedOK
<1>2. PICK f \in accepted : \A m \in accepted : f <= m
  BY DEF AcceptedOK
<1>3. Min(accepted) = f
  <2>1. accepted \in SUBSET Nat
    BY <1>1
  <2> QED
    BY <2>1, <1>2, MinIs
<1>4. n \in 1 .. incoming_sequence /\ f < n /\ f \in Nat
  BY <1>1, <1>2, <1>3 DEF Due
<1> DEFINE B == {m \in accepted : m < n}
           U == {m \in accepted : m >= n}
<1>5. /\ B \in SUBSET Nat /\ U \in SUBSET Nat
      /\ f \in B /\ incoming_sequence \in U
      /\ \A y \in B : y <= incoming_sequence
  <2>1. \A m \in accepted : m \in Nat /\ m <= incoming_sequence
    BY <1>1
  <2>2. f \in B /\ incoming_sequence \in U
    BY <1>1, <1>4
  <2>3. B \in SUBSET Nat /\ U \in SUBSET Nat
    BY <2>1
  <2>4. \A y \in B : y <= incoming_sequence
    BY <2>1
  <2> QED
    BY <2>2, <2>3, <2>4
<1>6. PICK b \in B : \A y \in B : b >= y
  BY <1>1, <1>5, MaxExists
<1>7. PICK u \in U : \A y \in U : u <= y
  BY <1>5, MinExists
<1>8. Before(n) = b /\ Upon(n) = u
  <2>1. Before(n) = Max(B) /\ Upon(n) = Min(U)
    BY DEF Before, Upon
  <2> HIDE DEF B, U
  <2>2. Max(B) = b /\ Min(U) = u
    BY <1>5, <1>6, <1>7, MaxIs, MinIs
  <2> QED
    BY <2>1, <2>2
<1> QED
  BY <1>4, <1>6, <1>7, <1>8

(* What is sent later does not change what the server has run.              *)
LEMMA SendKeepsRun ==
  ASSUME UserCmdsInv, NEW x \in Cmds, sent' = Append(sent, x),
         UNCHANGED <<accepted, incoming_sequence, player>>
  PROVE  RunAsSent' /\ Invented' = Invented
<1>1. /\ \A n : Before(n)' = Before(n) /\ Upon(n)' = Upon(n)
      /\ Due' = Due
  BY DEF Before, Upon, Due
<1>2. /\ \A n : Skipped(n)' = Skipped(n) /\ Copied(n)' = Copied(n)
      /\ Invented' = Invented
  BY <1>1 DEF Skipped, Copied, Invented
<1>3. /\ incoming_sequence \in 1 .. Len(sent)
      /\ sent \in Seq(Cmds) /\ accepted \subseteq 1 .. incoming_sequence
  BY DEF UserCmdsInv, TypeOK, SentOK
<1>4. \A n \in 1 .. incoming_sequence : sent'[n] = sent[n]
  BY <1>3
<1>5. ASSUME NEW n \in 1 .. incoming_sequence
      PROVE  Ran(n)' = Ran(n)
  <2>1. CASE n \in Due
    <3>1. Before(n) \in 1 .. incoming_sequence
      BY <2>1, <1>3, Around DEF UserCmdsInv
    <3> QED
      BY <3>1, <1>1, <1>2, <1>4 DEF Ran
  <2>2. CASE n \notin Due
    BY <2>2, <1>1 DEF Ran
  <2> QED
    BY <2>1, <2>2
<1>6. [n \in 1 .. incoming_sequence' |-> Ran(n)'] = [n \in 1 .. incoming_sequence |-> Ran(n)]
  BY <1>5
<1>7. RunAsSent'
  BY <1>6 DEF UserCmdsInv, RunAsSent
<1> QED
  BY <1>2, <1>7

(* One more datagram accepted, after all the others, is the next one for    *)
(* every command since the last, and changes nothing for those before.      *)
LEMMA AcceptedNext ==
  ASSUME TypeOK, AcceptedOK, NEW s \in Nat, s > incoming_sequence,
         incoming_sequence' = s, accepted' = accepted \cup {s}, sent' = sent
  PROVE  /\ \A n \in 1 .. incoming_sequence :
              /\ n \in Due' <=> n \in Due
              /\ Ran(n)' = Ran(n)
              /\ n \in Due => Skipped(n)' = Skipped(n) /\ Copied(n)' = Copied(n)
         /\ \A n \in incoming_sequence + 1 .. s :
              n \in Due' /\ Upon(n)' = s /\ Before(n)' = incoming_sequence
         /\ \E f \in accepted' : f < FirstMove /\ \A m \in accepted' : f <= m
         /\ Due \subseteq Due'
<1> DEFINE inc == incoming_sequence
           A == accepted
           N == accepted'
<1>1. /\ A \subseteq 1 .. inc /\ inc \in A /\ inc \in Nat /\ inc >= 1
  BY DEF TypeOK, AcceptedOK
<1>2. PICK f \in A : f < FirstMove /\ \A m \in A : f <= m
  BY DEF AcceptedOK
<1>3. /\ \A m \in A : m \in Nat /\ m <= inc
      /\ N = A \cup {s}
  BY <1>1
<1>4. /\ A \in SUBSET Nat /\ N \in SUBSET Nat
      /\ f \in N /\ f \in Nat /\ f <= inc
  BY <1>2, <1>3
<1>5. \A m \in N : f <= m
  <2> TAKE m \in N
  <2>1. m \in A \/ m = s
    BY <1>3
  <2> QED
    BY <2>1, <1>1, <1>2, <1>4
<1>6. Due = f + 1 .. inc /\ Due' = f + 1 .. s
  <2>1. Min(A) = f /\ Min(N) = f
    BY <1>2, <1>4, <1>5, MinIs
  <2> QED
    BY <2>1 DEF Due
<1>7. ASSUME NEW n \in 1 .. inc
      PROVE  Before(n)' = Before(n) /\ (n \in Due => Upon(n)' = Upon(n))
  <2>1. {m \in N : m < n} = {m \in A : m < n}
    BY <1>1, <1>3
  <2>2. ASSUME n \in Due PROVE Upon(n)' = Upon(n)
    <3> DEFINE u == Upon(n)
               U == {m \in N : m >= n}
    <3>1. u \in A /\ u >= n /\ \A m \in A : m >= n => u <= m
      BY <2>2, Around
    <3> HIDE DEF u
    <3>2. u \in U /\ U \in SUBSET Nat /\ \A y \in U : u <= y
      <4>1. u \in U /\ U \in SUBSET Nat
        BY <3>1, <1>3, <1>4
      <4>2. ASSUME NEW y \in U PROVE u <= y
        <5>1. (y \in A \/ y = s) /\ y >= n
          BY <1>3
        <5>2. u <= inc /\ u \in Nat
          BY <3>1, <1>3
        <5> QED
          BY <5>1, <5>2, <3>1, <1>1
      <4> QED
        BY <4>1, <4>2
    <3>3. Min(U) = u
      BY <3>2, MinIs
    <3> QED
      BY <3>3 DEF Upon, u
  <2> QED
    BY <2>1, <2>2 DEF Before
<1>8. \A n \in 1 .. inc : n \in Due' <=> n \in Due
  BY <1>1, <1>4, <1>6
<1>9. \A n \in 1 .. inc :
        n \in Due => Skipped(n)' = Skipped(n) /\ Copied(n)' = Copied(n)
  BY <1>7 DEF Skipped, Copied
<1>10. \A n \in 1 .. inc : Ran(n)' = Ran(n)
  BY <1>7, <1>8, <1>9 DEF Ran
<1>11. ASSUME NEW n \in inc + 1 .. s
       PROVE  n \in Due' /\ Upon(n)' = s /\ Before(n)' = inc
  <2> DEFINE B == {m \in N : m < n}
             U == {m \in N : m >= n}
  <2>1. n > inc /\ n <= s /\ n \in Nat
    BY <1>1
  <2>2. U = {s}
    <3>1. \A m \in N : m >= n <=> m = s
      <4> TAKE m \in N
      <4>1. m \in A \/ m = s
        BY <1>3
      <4> QED
        BY <4>1, <2>1, <1>1, <1>3
    <3>2. s \in N
      BY <1>3
    <3> QED
      BY <3>1, <3>2
  <2>3. B = A
    <3>1. \A m \in N : m < n <=> m \in A
      <4> TAKE m \in N
      <4>1. m \in A \/ (m = s /\ s \notin A)
        BY <1>3
      <4> QED
        BY <4>1, <2>1, <1>1, <1>3
    <3>2. A \subseteq N
      BY <1>3
    <3> QED
      BY <3>1, <3>2
  <2>4. Min(U) = s
    <3>1. {s} \in SUBSET Nat /\ s \in {s} /\ \A y \in {s} : s <= y
      OBVIOUS
    <3> QED
      BY <3>1, <2>2, MinIs
  <2>5. Max(B) = inc
    <3>1. \A y \in A : inc >= y
      BY <1>3
    <3> QED
      BY <3>1, <2>3, <1>1, <1>4, MaxIs
  <2>6. Upon(n)' = Min(U) /\ Before(n)' = Max(B)
    BY DEF Upon, Before
  <2>7. n \in f + 1 .. s
    BY <2>1, <1>1, <1>4
  <2> QED
    BY <2>4, <2>5, <2>6, <2>7, <1>6
<1>12. Due \subseteq Due'
  BY <1>1, <1>4, <1>6
<1> QED
  BY <1>2, <1>4, <1>5, <1>8, <1>9, <1>10, <1>11, <1>12

(* What was not invented is what was sent.                                  *)
LEMMA NothingInvented ==
  ASSUME UserCmdsInv, ~Invented
  PROVE  player = Result(incoming_sequence)
<1>1. /\ sent \in Seq(Cmds) /\ Len(sent) = outgoing_sequence - 1
      /\ incoming_sequence \in 1 .. Len(sent)
      /\ \A n \in 1 .. Len(sent) : n < FirstMove <=> sent[n] = Null
      /\ accepted \subseteq 1 .. incoming_sequence
  BY DEF UserCmdsInv, TypeOK, SentOK
<1>2. PICK f \in accepted : f < FirstMove /\ \A m \in accepted : f <= m
  BY DEF UserCmdsInv, AcceptedOK
<1>3. Due = f + 1 .. incoming_sequence /\ f \in Nat
  <2>1. accepted \in SUBSET Nat
    BY <1>1
  <2>2. Min(accepted) = f
    BY <2>1, <1>2, MinIs
  <2> QED
    BY <2>1, <2>2 DEF Due
<1>4. ASSUME NEW n \in 1 .. incoming_sequence
      PROVE  Ran(n) = sent[n]
  <2>1. CASE n \in Due
    BY <2>1 DEF Ran, Invented
  <2>2. CASE n \notin Due
    <3>1. n < FirstMove /\ n \in 1 .. Len(sent)
      BY <2>2, <1>1, <1>2, <1>3, Numbers
    <3>2. sent[n] = Null
      BY <3>1, <1>1
    <3> QED
      BY <2>2, <3>2 DEF Ran
  <2> QED
    BY <2>1, <2>2
<1>5. [n \in 1 .. incoming_sequence |-> Ran(n)] = SubSeq(sent, 1, incoming_sequence)
  <2> DEFINE r == [n \in 1 .. incoming_sequence |-> Ran(n)]
             t == SubSeq(sent, 1, incoming_sequence)
  <2>1. r \in [1 .. incoming_sequence -> Cmds]
    BY <1>1, <1>4
  <2>2. incoming_sequence \in Nat
    BY <1>1
  <2>3. r \in Seq(Cmds) /\ Len(r) = incoming_sequence
    <3> HIDE DEF r
    <3> QED
      BY <2>1, <2>2, FunctionSeq
  <2>4. t \in Seq(Cmds) /\ Len(t) = incoming_sequence
        /\ \A i \in 1 .. incoming_sequence : t[i] = sent[i]
    BY <1>1
  <2>5. \A i \in 1 .. incoming_sequence : r[i] = sent[i]
    BY <1>4
  <2> HIDE DEF r, t
  <2>6. r = t
    BY <2>3, <2>4, <2>5, SeqEqual
  <2> QED
    BY <2>6 DEF r, t
<1> QED
  BY <1>5 DEF UserCmdsInv, RunAsSent, Result

-----------------------------------------------------------------------------
(* The server. *)

(* Commands that all do nothing leave nothing to run.                       *)
LEMMA NothingLeft ==
  ASSUME NEW n \in Nat
  PROVE  Without([i \in 1 .. n |-> Null], {Null}) = <<>>
<1> DEFINE z == [i \in 1 .. n |-> Null]
           w == Without(z, {Null})
<1>1. z \in [1 .. n -> {Null}]
  OBVIOUS
<1>2. z \in Seq({Null})
  <2> HIDE DEF z
  <2> QED
    BY <1>1, FunctionSeq
<1> HIDE DEF z
<1>3. w \in Seq({Null}) /\ ToSet(w) = ToSet(z) \ {Null}
  BY <1>2, WithoutFacts
<1>4. ToSet(z) \subseteq {Null}
  BY <1>2 DEF ToSet
<1>5. ToSet(w) = {}
  BY <1>3, <1>4
<1> HIDE DEF w
<1>6. w = <<>>
  BY <1>3, <1>5 DEF ToSet
<1> QED
  BY <1>6 DEF w, z

(* What the server runs for a datagram is what was due since the last one   *)
(* it accepted.                                                             *)
LEMMA ReplayedIsDue ==
  ASSUME UserCmdsInv, NEW d \in uplink, ParseMove(d),
         NEW inc, inc = incoming_sequence, NEW s, s = d.sequence
  PROVE  LET tail == [i \in 1 .. s - inc |-> Ran(inc + i)'] IN
         /\ tail \in Seq(Cmds)
         /\ Append(Replayed(d), d.new) \in Seq(Cmds)
         /\ Without(tail, {Null}) = Without(Append(Replayed(d), d.new), {Null})
<1> DEFINE tail == [i \in 1 .. s - inc |-> Ran(inc + i)']
<1>0. PICK k : k = s - inc - 1
  OBVIOUS
<1>1. /\ sent \in Seq(Cmds) /\ Len(sent) = outgoing_sequence - 1
      /\ inc \in 1 .. Len(sent) /\ s \in FirstMove .. Len(sent)
      /\ d.new = sent[s] /\ d.old = sent[s - 1] /\ d.oldest = sent[s - 2]
      /\ last_cmd = sent[inc]
      /\ TypeOK /\ AcceptedOK
  BY DEF UserCmdsInv, TypeOK, SentOK, UplinkOK, AcceptedOK
<1>2. /\ s > inc /\ incoming_sequence' = s /\ sent' = sent
      /\ accepted' = accepted \cup {s}
      /\ s \in Nat /\ inc \in Nat /\ k \in Nat /\ s = inc + k + 1 /\ s - inc = k + 1
  BY <1>0, <1>1, Numbers DEF ParseMove
<1>3. /\ s - 1 \in 1 .. Len(sent) /\ s - 2 \in 1 .. Len(sent)
      /\ s \in 1 .. Len(sent)
  BY <1>1, Numbers
<1>4. /\ d.new \in Cmds /\ d.old \in Cmds /\ d.oldest \in Cmds /\ last_cmd \in Cmds
      /\ Null \in Cmds
  BY <1>1, <1>3 DEF Cmds, Null
<1>5. Lost(d) = k
  BY <1>1, <1>2 DEF Lost
<1>6. \A n \in inc + 1 .. s : n \in Due' /\ Upon(n)' = s /\ Before(n)' = inc
  BY <1>1, <1>2, AcceptedNext
<1>7. ASSUME NEW i \in 1 .. k + 1
      PROVE  Ran(inc + i)' = IF i = k + 1 THEN d.new
                             ELSE IF k >= MaxReplay THEN Null
                             ELSE IF i = k THEN d.old
                             ELSE IF i = k - 1 THEN d.oldest
                             ELSE last_cmd
  <2> DEFINE n == inc + i
  <2>1. n \in inc + 1 .. s /\ n \in Int
    BY <1>2
  <2>2. n \in Due' /\ Upon(n)' = s /\ Before(n)' = inc
    BY <2>1, <1>6
  <2>3. Skipped(n)' = (s # n /\ s - inc > MaxReplay)
    BY <2>2 DEF Skipped
  <2>4. Copied(n)' = (s - n <= 2)
    BY <2>2 DEF Copied
  <2>5. Ran(n)' = IF s # n /\ s - inc > MaxReplay THEN Null
                  ELSE IF s - n <= 2 THEN sent[n] ELSE sent[inc]
    BY <1>2, <2>2, <2>3, <2>4 DEF Ran
  <2>6. /\ s - inc > MaxReplay <=> k >= MaxReplay
        /\ s = n <=> i = k + 1
        /\ s - n <= 2 <=> i >= k - 1
        /\ i = k => n = s - 1
        /\ i = k - 1 => n = s - 2
    BY <1>2, Numbers
  <2>7. i = k + 1 \/ i = k \/ i = k - 1 \/ i < k - 1
    BY <1>2
  <2> HIDE DEF n
  <2>8. CASE i = k + 1
    <3>1. Ran(n)' = sent[n] /\ s = n
      <4>1. s = n /\ s - n <= 2
        BY <2>6, <2>8, <1>2
      <4> QED
        BY <4>1, <2>5
    <3> QED
      BY <3>1, <2>8, <1>1 DEF n
  <2>9. CASE i # k + 1 /\ k >= MaxReplay
    <3>1. Ran(n)' = Null
      BY <2>5, <2>6, <2>9
    <3> QED
      BY <3>1, <2>9 DEF n
  <2>10. CASE i # k + 1 /\ ~(k >= MaxReplay)
    <3>1. Ran(n)' = IF i >= k - 1 THEN sent[n] ELSE sent[inc]
      BY <2>5, <2>6, <2>10
    <3>2. CASE i = k
      BY <3>1, <3>2, <2>6, <2>10, <1>1, <1>2 DEF n
    <3>3. CASE i = k - 1
      BY <3>1, <3>3, <2>6, <2>10, <1>1, <1>2 DEF n
    <3>4. CASE i < k - 1
      BY <3>1, <3>4, <2>10, <1>1, <1>2 DEF n
    <3> QED
      BY <3>2, <3>3, <3>4, <2>7, <2>10
  <2> QED
    BY <2>8, <2>9, <2>10
<1>8. tail \in [1 .. k + 1 -> Cmds]
  BY <1>2, <1>4, <1>7
<1>9. \A i \in 1 .. k + 1 : tail[i] = Ran(inc + i)'
  BY <1>2
<1> HIDE DEF tail
<1>10. tail \in Seq(Cmds) /\ Len(tail) = k + 1
  BY <1>2, <1>8, FunctionSeq
<1>11. CASE k >= MaxReplay
  <2> DEFINE z == [i \in 1 .. k |-> Null]
  <2>1. z \in [1 .. k -> Cmds] /\ \A i \in 1 .. k : z[i] = Null
    BY <1>4
  <2>2. Without(z, {Null}) = <<>>
    BY <1>2, NothingLeft
  <2> HIDE DEF z
  <2>3. z \in Seq(Cmds) /\ Len(z) = k
    BY <1>2, <2>1, FunctionSeq
  <2>4. /\ Append(z, d.new) \in Seq(Cmds)
        /\ Len(Append(z, d.new)) = k + 1
        /\ \A i \in 1 .. k : Append(z, d.new)[i] = z[i]
        /\ Append(z, d.new)[k + 1] = d.new
    BY <2>3, <1>4
  <2>5. \A i \in 1 .. k + 1 : tail[i] = Append(z, d.new)[i]
    <3> TAKE i \in 1 .. k + 1
    <3>1. tail[i] = IF i = k + 1 THEN d.new ELSE Null
      BY <1>7, <1>9, <1>11
    <3>2. i = k + 1 \/ i \in 1 .. k
      BY <1>2
    <3> QED
      BY <3>1, <3>2, <2>1, <2>4, <1>2
  <2>6. tail = Append(z, d.new)
    BY <2>4, <2>5, <1>10, SeqEqual
  <2>7. Replayed(d) = <<>>
    BY <1>5, <1>11 DEF Replayed
  <2>8. <<>> \in Seq(Cmds) /\ Append(<<>>, d.new) \in Seq(Cmds)
    BY <1>4
  <2>9. Without(Append(z, d.new), {Null})
          = IF d.new \in {Null} THEN Without(z, {Null})
            ELSE Append(Without(z, {Null}), d.new)
    <3> PICK x \in Cmds : x = d.new
      BY <1>4
    <3>1. Without(Append(z, x), {Null})
            = IF x \in {Null} THEN Without(z, {Null})
              ELSE Append(Without(z, {Null}), x)
      BY ONLY <2>3, x \in Cmds, WithoutAppend
    <3> QED
      BY <3>1
  <2>10. Without(Append(<<>>, d.new), {Null})
          = IF d.new \in {Null} THEN Without(<<>>, {Null})
            ELSE Append(Without(<<>>, {Null}), d.new)
    <3> PICK x \in Cmds : x = d.new
      BY <1>4
    <3>1. Without(Append(<<>>, x), {Null})
            = IF x \in {Null} THEN Without(<<>>, {Null})
              ELSE Append(Without(<<>>, {Null}), x)
      BY ONLY <2>8, x \in Cmds, WithoutAppend
    <3> QED
      BY <3>1
  <2> QED
    BY <2>2, <2>6, <2>7, <2>8, <2>9, <2>10, <1>10, WithoutEmpty DEF tail
<1>12. CASE ~(k >= MaxReplay)
  <2> DEFINE r == Replayed(d)
  <2>1. r = [i \in 1 .. k |-> IF i = k THEN d.old
                              ELSE IF i = k - 1 THEN d.oldest ELSE last_cmd]
    BY <1>5, <1>12 DEF Replayed
  <2>2. r \in [1 .. k -> Cmds]
    BY <2>1, <1>4
  <2> HIDE DEF r
  <2>3. r \in Seq(Cmds) /\ Len(r) = k
    BY <1>2, <2>2, FunctionSeq
  <2>4. /\ Append(r, d.new) \in Seq(Cmds)
        /\ Len(Append(r, d.new)) = k + 1
        /\ \A i \in 1 .. k : Append(r, d.new)[i] = r[i]
        /\ Append(r, d.new)[k + 1] = d.new
    BY <2>3, <1>4
  <2>5. \A i \in 1 .. k + 1 : tail[i] = Append(r, d.new)[i]
    <3> TAKE i \in 1 .. k + 1
    <3>1. tail[i] = IF i = k + 1 THEN d.new
                    ELSE IF i = k THEN d.old
                    ELSE IF i = k - 1 THEN d.oldest ELSE last_cmd
      BY <1>7, <1>9, <1>12
    <3>2. i = k + 1 \/ (i \in 1 .. k /\ i # k + 1)
      BY <1>2
    <3> QED
      BY <3>1, <3>2, <2>1, <2>4
  <2>6. tail = Append(r, d.new)
    BY <2>4, <2>5, <1>10, SeqEqual
  <2> QED
    BY <2>4, <2>6, <1>10 DEF r, tail
<1> QED
  BY <1>11, <1>12

-----------------------------------------------------------------------------
(* Prediction. *)

(* The commands to predict from the one after the last acknowledged on.     *)
LEMMA UnacknowledgedIs ==
  ASSUME TypeOK
  PROVE  /\ Min(Unacknowledged) = incoming_acknowledged + 1
         /\ \A n \in Unacknowledged :
              Cardinality({k \in Unacknowledged : k <= n}) = n - incoming_acknowledged
         /\ \A n : Cardinality({k \in Unacknowledged : k <= n}) \in Nat
<1> DEFINE a == incoming_acknowledged
           o == outgoing_sequence
<1>1. a \in Nat /\ o \in Nat /\ a + 1 <= o /\ Unacknowledged = a + 1 .. o
  BY Numbers DEF TypeOK, Unacknowledged
<1> HIDE DEF a, o
<1>2. Min(Unacknowledged) = a + 1
  <2>1. /\ Unacknowledged \in SUBSET Nat /\ a + 1 \in Unacknowledged
        /\ \A y \in Unacknowledged : a + 1 <= y
    BY <1>1
  <2> QED
    BY <2>1, MinIs
<1>3. ASSUME NEW n \in Unacknowledged
      PROVE  Cardinality({k \in Unacknowledged : k <= n}) = n - a
  <2>1. n \in Int /\ n >= a + 1 /\ n <= o
    BY <1>1
  <2>2. {k \in Unacknowledged : k <= n} = a + 1 .. n
    BY <1>1, <2>1
  <2>3. Cardinality(a + 1 .. n) = n - (a + 1) + 1
    <3>1. a + 1 \in Int /\ ~(a + 1 > n)
      BY <1>1, <2>1
    <3> QED
      BY <2>1, <3>1, FS_Interval
  <2>4. n - (a + 1) + 1 = n - a
    BY <1>1, <2>1
  <2> QED
    BY <2>2, <2>3, <2>4
<1>4. ASSUME NEW n PROVE Cardinality({k \in Unacknowledged : k <= n}) \in Nat
  <2>1. IsFiniteSet(a + 1 .. o)
    BY <1>1, FS_Interval
  <2>2. IsFiniteSet({k \in Unacknowledged : k <= n})
    BY <1>1, <2>1, FS_Subset
  <2> QED
    BY <2>2, FS_CardinalityType
<1> QED
  BY <1>2, <1>3, <1>4 DEF a

(* Whatever the ring holds, what is foreseen are states.                    *)
LEMMA ForeseenType ==
  ASSUME TypeOK, NEW ring \in [0 .. CmdBackup - 1 -> Cmds]
  PROVE  Foreseen(ring) \in [0 .. CmdBackup - 1 -> Seq(Cmds)]
<1> DEFINE Until(n) == [i \in 1 .. Cardinality({k \in Unacknowledged : k <= n}) |->
                          ring[Slot(Min(Unacknowledged) + i - 1)]]
           In(s) == {n \in Unacknowledged : Slot(n) = s /\ ring[s] # Null}
<1>1. origins \in [0 .. CmdBackup - 1 -> Seq(Cmds)] /\ frame \in Seq(Cmds)
  BY DEF TypeOK
<1>2. ASSUME NEW n PROVE Until(n) \in Seq(Cmds)
  <2>1. PICK c \in Nat : c = Cardinality({k \in Unacknowledged : k <= n})
    BY UnacknowledgedIs
  <2>2. ASSUME NEW i \in 1 .. c
        PROVE  ring[Slot(Min(Unacknowledged) + i - 1)] \in Cmds
    <3>1. Min(Unacknowledged) + i - 1 \in Nat
      BY UnacknowledgedIs, Numbers DEF TypeOK
    <3> QED
      BY <3>1, SlotType
  <2>3. Until(n) \in [1 .. c -> Cmds]
    BY <2>1, <2>2
  <2> HIDE DEF Until
  <2> QED
    BY <2>3, FunctionSeq
<1>3. Predicted(ring) = [s \in DOMAIN origins |->
                           IF In(s) = {} THEN origins[s]
                           ELSE MovedAll(frame, Until(Max(In(s))))]
  BY DEF Predicted
<1> HIDE DEF Until, In
<1>4. \A n : MovedAll(frame, Until(n)) \in Seq(Cmds)
  BY <1>1, <1>2, MovedFacts
<1>5. Predicted(ring) \in [0 .. CmdBackup - 1 -> Seq(Cmds)]
  BY <1>1, <1>3, <1>4
<1> QED
  BY <1>1, <1>5 DEF Foreseen

(* With a frame that is the result of what it acknowledges, and slots for   *)
(* all commands since, each slot is foreseen to be the result of its own    *)
(* command, the pending one x included.                                     *)
LEMMA PredictedRight ==
  ASSUME UserCmdsInv, NEW ring \in [0 .. CmdBackup - 1 -> Cmds],
         NEW x \in Cmds, x # Null, ring[Slot(outgoing_sequence)] = x,
         \A n \in 1 .. outgoing_sequence - 1 :
           outgoing_sequence - n < CmdBackup => ring[Slot(n)] = sent[n],
         ~TooFarOutOfDate, frame = Result(incoming_acknowledged),
         \A n \in incoming_acknowledged .. outgoing_sequence - 1 :
           origins[Slot(n)] = Result(n),
         NEW n \in incoming_acknowledged .. outgoing_sequence
  PROVE  Predicted(ring)[Slot(n)] = MovedAll(<<>>, SubSeq(Append(sent, x), 1, n))
<1> DEFINE a == incoming_acknowledged
           o == outgoing_sequence
           t == Append(sent, x)
           Until(m) == [i \in 1 .. Cardinality({k \in Unacknowledged : k <= m}) |->
                          ring[Slot(Min(Unacknowledged) + i - 1)]]
           In(s) == {m \in Unacknowledged : Slot(m) = s /\ ring[s] # Null}
<1>1. /\ o \in Nat /\ a \in Nat /\ a >= 1 /\ a < o /\ o - a < CmdBackup
      /\ n \in Nat /\ a <= n /\ n <= o
      /\ sent \in Seq(Cmds) /\ Len(sent) = o - 1
      /\ \A m \in 1 .. o - 1 : m < FirstMove <=> sent[m] = Null
      /\ o >= FirstMove
      /\ origins \in [0 .. CmdBackup - 1 -> Seq(Cmds)]
      /\ TypeOK
  BY Numbers DEF UserCmdsInv, TypeOK, SentOK, TooFarOutOfDate
<1>2. /\ t \in Seq(Cmds) /\ Len(t) = o /\ t[o] = x
      /\ \A m \in 1 .. o - 1 : t[m] = sent[m]
  <2>1. /\ t \in Seq(Cmds) /\ Len(t) = Len(sent) + 1 /\ t[Len(sent) + 1] = x
        /\ \A m \in 1 .. Len(sent) : t[m] = sent[m]
    BY <1>1
  <2>2. Len(sent) + 1 = o
    BY <1>1
  <2> HIDE DEF t
  <2> QED
    BY <1>1, <2>1, <2>2
<1>3. \A m \in a .. o - 1 : Result(m) = MovedAll(<<>>, SubSeq(t, 1, m))
  <2> TAKE m \in a .. o - 1
  <2>1. m \in 0 .. Len(sent)
    BY <1>1
  <2>2. SubSeq(t, 1, m) = SubSeq(sent, 1, m)
    BY <1>1, <2>1, SentBefore
  <2> QED
    BY <2>2 DEF Result
<1> HIDE DEF t
<1>4. \A m \in a + 1 .. o : ring[Slot(m)] = t[m]
  <2> TAKE m \in a + 1 .. o
  <2>1. CASE m = o
    BY <2>1, <1>2
  <2>2. CASE m # o
    <3>1. m \in 1 .. o - 1 /\ o - m < CmdBackup
      BY <1>1, <2>2, Numbers
    <3> QED
      BY <3>1, <1>2
  <2> QED
    BY <2>1, <2>2
<1>5. \A k, m \in a .. o : Slot(k) = Slot(m) => k = m
  <2> SUFFICES ASSUME NEW k \in a .. o, NEW m \in a .. o, k < m
               PROVE  Slot(k) # Slot(m)
    <3>1. \A k, m \in a .. o : k = m \/ k < m \/ m < k
      BY <1>1
    <3> QED
      BY <3>1
  <2>1. k \in Nat /\ m \in Nat /\ m - k < CmdBackup
    BY <1>1, Numbers
  <2> QED
    BY <2>1, SlotDistinct
<1>6. Slot(n) \in 0 .. CmdBackup - 1
  BY <1>1, SlotType
<1>7. Unacknowledged = a + 1 .. o
  BY DEF Unacknowledged
<1>8. Predicted(ring)[Slot(n)] = IF In(Slot(n)) = {} THEN origins[Slot(n)]
                                 ELSE MovedAll(frame, Until(Max(In(Slot(n)))))
  BY <1>1, <1>6 DEF Predicted
<1>9. \A m \in Unacknowledged : Slot(m) = Slot(n) => m = n
  <2>1. n \in a .. o /\ \A m \in Unacknowledged : m \in a .. o
    BY <1>1, <1>7
  <2> QED
    BY <2>1, <1>5
<1>10. CASE n \notin Unacknowledged \/ ring[Slot(n)] = Null
  <2>1. In(Slot(n)) = {}
    BY <1>9, <1>10
  <2>2. n \in a .. o - 1
    <3>1. CASE n \notin Unacknowledged
      BY <3>1, <1>1, <1>7
    <3>2. CASE ring[Slot(n)] = Null
      <4>1. n # o
        BY <3>2
      <4> QED
        BY <4>1, <1>1
    <3> QED
      BY <3>1, <3>2, <1>10
  <2> HIDE DEF In, Until
  <2>3. Predicted(ring)[Slot(n)] = origins[Slot(n)]
    BY <2>1, <1>8
  <2>4. origins[Slot(n)] = Result(n)
    BY <2>2
  <2>5. Result(n) = MovedAll(<<>>, SubSeq(t, 1, n))
    BY <2>2, <1>3
  <2>6. Predicted(ring)[Slot(n)] = MovedAll(<<>>, SubSeq(t, 1, n))
    <3> HIDE DEF Result, t
    <3> QED
      BY <2>3, <2>4, <2>5, Zenon
  <2> QED
    BY <2>6 DEF t
<1>11. CASE n \in Unacknowledged /\ ring[Slot(n)] # Null
  <2>1. In(Slot(n)) = {n}
    BY <1>9, <1>11
  <2>2. Max({n}) = n
    <3>1. n \in Nat
      BY <1>1
    <3> HIDE DEF a, o, Until, In
    <3> QED
      BY <3>1, MaxIs
  <2>3. /\ Cardinality({k \in Unacknowledged : k <= n}) = n - a
        /\ Min(Unacknowledged) = a + 1
    BY <1>1, <1>11, UnacknowledgedIs
  <2>4. n \in a + 1 .. o
    BY <1>7, <1>11
  <2>5. Until(n) = SubSeq(t, a + 1, n)
    <3>1. Until(n) = [i \in 1 .. n - a |-> ring[Slot(a + 1 + i - 1)]]
      BY <2>3
    <3>2. \A i \in 1 .. n - a : a + 1 + i - 1 \in a + 1 .. o
      BY <1>1, <2>4
    <3>3. Until(n) = [i \in 1 .. n - a |-> t[a + 1 + i - 1]]
      BY <3>1, <3>2, <1>4
    <3>4. \A i \in a + 1 .. n : t[i] \in Cmds
      BY <1>1, <1>2, <2>4
    <3>5. a + 1 \in Int /\ n \in Int /\ n - a \in Nat /\ a + 1 <= n
          /\ n - (a + 1) + 1 = n - a
      BY <1>1, <2>4
    <3>6. /\ SubSeq(t, a + 1, n) \in Seq(Cmds)
          /\ Len(SubSeq(t, a + 1, n)) = n - a
          /\ \A i \in 1 .. n - a : SubSeq(t, a + 1, n)[i] = t[a + 1 + i - 1]
      BY <3>4, <3>5, SubSeqProperties
    <3>7. \A i \in 1 .. n - a : t[a + 1 + i - 1] \in Cmds
      BY <3>2, <3>4, <3>5, <1>1, <1>2
    <3>8. Until(n) \in [1 .. n - a -> Cmds]
      BY <3>3, <3>7
    <3>9. \A i \in 1 .. n - a : Until(n)[i] = t[a + 1 + i - 1]
      BY <3>3
    <3> DEFINE u == Until(n)
               w == SubSeq(t, a + 1, n)
               l == n - a
    <3> HIDE DEF u, w, l, Until
    <3>10. u \in Seq(Cmds) /\ Len(u) = l
      BY <3>5, <3>8, FunctionSeq DEF u, l
    <3>11. w \in Seq(Cmds) /\ Len(w) = l /\ \A i \in 1 .. l : u[i] = w[i]
      BY <3>6, <3>9 DEF u, w, l
    <3>12. u = w
      BY <3>10, <3>11, SeqEqual
    <3> QED
      BY <3>12 DEF u, w
  <2> HIDE DEF In, Until
  <2>6. Predicted(ring)[Slot(n)] = MovedAll(frame, SubSeq(t, a + 1, n))
    BY <2>1, <2>2, <2>5, <1>8
  <2>7. frame = MovedAll(<<>>, SubSeq(t, 1, a))
    BY <1>1, <1>3
  <2>8. n \in 1 .. Len(t) /\ a \in 0 .. n
    BY <1>1, <1>2
  <2>9. MovedAll(MovedAll(<<>>, SubSeq(t, 1, a)), SubSeq(t, a + 1, n))
          = MovedAll(<<>>, SubSeq(t, 1, n))
    BY <2>8, <1>2, ResultMore
  <2> QED
    BY <2>6, <2>7, <2>9 DEF t
<1> QED
  BY <1>10, <1>11

-----------------------------------------------------------------------------
(* The invariant holds at the start and is kept by every step.              *)

LEMMA InitHolds ==
  ASSUME Init
  PROVE  UserCmdsInv
<1>1. /\ Null \in Cmds /\ <<>> \in Seq(Cmds)
      /\ 1 .. FirstMove - 1 = {1, 2}
      /\ outgoing_sequence = 3 /\ outgoing_sequence - 1 = 2
      /\ incoming_sequence \in {1, 2}
      /\ incoming_acknowledged = incoming_sequence
      /\ accepted = {incoming_sequence}
  BY Numbers DEF Init, Cmds, Null
<1>2. /\ sent \in Seq(Cmds) /\ Len(sent) = 2 /\ \A n \in {1, 2} : sent[n] = Null
  <2>1. sent = [n \in 1 .. 2 |-> Null]
    BY Numbers DEF Init
  <2>2. sent \in [1 .. 2 -> Cmds] /\ \A n \in {1, 2} : sent[n] = Null
    BY <1>1, <2>1
  <2> QED
    BY <2>2, FunctionSeq
<1>3. cmds \in [0 .. CmdBackup - 1 -> Cmds] /\ \A s \in 0 .. CmdBackup - 1 : cmds[s] = Null
  BY <1>1 DEF Init
<1>4. /\ origins \in [0 .. CmdBackup - 1 -> Seq(Cmds)]
      /\ \A s \in 0 .. CmdBackup - 1 : origins[s] = <<>>
  BY <1>1 DEF Init
<1>5. TypeOK
  <2>1. /\ outgoing_sequence \in FirstMove .. MaxSequence
        /\ incoming_acknowledged \in 1 .. outgoing_sequence - 1
        /\ incoming_sequence \in 1 .. outgoing_sequence - 1
        /\ received \in 1 .. sv_outgoing - 1
        /\ sv_outgoing \in 2 .. 2 * MaxFrames
        /\ frame_num \in 1 .. MaxFrames
        /\ accepted \subseteq 1 .. incoming_sequence
        /\ Len(sent) = outgoing_sequence - 1
    BY <1>1, <1>2, Numbers DEF Init
  <2>2. /\ frame \in Seq(Cmds) /\ player \in Seq(Cmds) /\ last_cmd \in Cmds
        /\ error \in BOOLEAN /\ disturbed \in BOOLEAN
        /\ uplink = {} /\ downlink = {}
    BY <1>1 DEF Init
  <2> HIDE DEF Cmds
  <2> QED
    BY <1>3, <1>4, <2>1, <2>2 DEF TypeOK
<1>6. NumbersOK
  BY <1>1 DEF Init, NumbersOK
<1>7. SentOK
  BY <1>1, <1>2, Numbers DEF SentOK, Null
<1>8. RingOK
  <2>1. \A n \in {1, 2, 3} : Slot(n) \in 0 .. CmdBackup - 1
    BY SlotType
  <2>2. \A n \in {1, 2, 3} : cmds[Slot(n)] = Null
    BY <1>3, <2>1
  <2>3. /\ \A n \in 1 .. outgoing_sequence - 1 : cmds[Slot(n)] = sent[n]
        /\ cmds[Slot(outgoing_sequence)] = {}
    <3>1. \A n \in 1 .. outgoing_sequence - 1 : n \in {1, 2}
      BY <1>1
    <3> QED
      BY <1>1, <1>2, <2>2, <3>1 DEF Null
  <2> QED
    BY <2>3 DEF RingOK
<1>9. UplinkOK /\ DownlinkOK
  BY DEF Init, UplinkOK, DownlinkOK
<1>10. AcceptedOK
  BY <1>1, <1>2, Numbers DEF Init, AcceptedOK
<1>11. StatesOK
  BY DEF Init, StatesOK, UpTo
<1>12. ASSUME NEW n \in {1, 2} PROVE Result(n) = <<>>
  <2>1. SubSeq(sent, 1, n) = [i \in 1 .. n |-> Null]
    <3>1. SubSeq(sent, 1, n) \in Seq(Cmds) /\ Len(SubSeq(sent, 1, n)) = n
          /\ \A i \in 1 .. n : SubSeq(sent, 1, n)[i] = sent[i]
      BY <1>2
    <3>2. \A i \in 1 .. n : sent[i] = Null
      BY <1>2
    <3> DEFINE z == [i \in 1 .. n |-> Null]
    <3>3. z \in [1 .. n -> Cmds] /\ \A i \in 1 .. n : z[i] = Null
      BY <1>1
    <3> HIDE DEF z
    <3>4. z \in Seq(Cmds) /\ Len(z) = n
      BY <3>3, FunctionSeq
    <3>5. SubSeq(sent, 1, n) = z
      BY <3>1, <3>2, <3>3, <3>4, SeqEqual
    <3> QED
      BY <3>5 DEF z
  <2>2. Without(SubSeq(sent, 1, n), {Null}) = <<>>
    <3>1. n \in Nat
      OBVIOUS
    <3> QED
      BY <2>1, <3>1, NothingLeft
  <2> QED
    BY <2>2 DEF Result, MovedAll
<1>13. RunAsSent
  <2>1. ASSUME NEW n \in 1 .. incoming_sequence PROVE Ran(n) = Null
    <3>1. Min(accepted) = incoming_sequence
      <4>1. /\ {incoming_sequence} \in SUBSET Nat
            /\ incoming_sequence \in {incoming_sequence}
            /\ \A y \in {incoming_sequence} : incoming_sequence <= y
        BY <1>1
      <4> QED
        BY <4>1, <1>1, MinIs
    <3>2. n \notin Due
      BY <3>1, <1>1 DEF Due
    <3> QED
      BY <3>2 DEF Ran
  <2>2. [n \in 1 .. incoming_sequence |-> Ran(n)] = [n \in 1 .. incoming_sequence |-> Null]
    BY <2>1
  <2>3. Without([n \in 1 .. incoming_sequence |-> Null], {Null}) = <<>>
    <3>1. incoming_sequence \in Nat
      BY <1>1
    <3> QED
      BY <3>1, NothingLeft
  <2> QED
    BY <2>2, <2>3 DEF RunAsSent, MovedAll, Init
<1>14. WindowOK
  BY <1>1, Numbers DEF WindowOK
<1>15. ForesightOK
  <2>1. \A n \in {1, 2} : origins[Slot(n)] = <<>>
    BY <1>4, SlotType
  <2>2. \A n \in incoming_acknowledged .. outgoing_sequence - 1 : n \in {1, 2}
    BY <1>1
  <2> QED
    BY <1>1, <1>12, <2>1, <2>2 DEF ForesightOK, Init
<1> QED
  BY <1>5, <1>6, <1>7, <1>8, <1>9, <1>10, <1>11, <1>13, <1>14, <1>15
     DEF UserCmdsInv

(* Cl_SendCmd, from a ring that holds what was sent, and a pending command  *)
(* of the frames up to this one.                                            *)
LEMMA SendKeeps ==
  ASSUME UserCmdsInv, NEW ring \in [0 .. CmdBackup - 1 -> Cmds],
         \A n \in 1 .. outgoing_sequence - 1 :
           outgoing_sequence - n < CmdBackup => ring[Slot(n)] = sent[n],
         \A k \in ring[Slot(outgoing_sequence)] : k <= outgoing_sequence,
         SendCmd(ring),
         origins' \in [0 .. CmdBackup - 1 -> Seq(Cmds)],
         disturbed' \in BOOLEAN
  PROVE  /\ (TypeOK /\ NumbersOK /\ SentOK /\ RingOK /\ UplinkOK /\ AcceptedOK)'
         /\ (DownlinkOK /\ StatesOK /\ RunAsSent)'
         /\ Invented' = Invented
         /\ sent' = Append(sent, Finalized(ring[Slot(outgoing_sequence)]))
<1>1. PICK o, x : o = outgoing_sequence /\ x = Finalized(ring[Slot(o)])
  OBVIOUS
<1>2. /\ o \in Nat /\ o >= 3 /\ o < MaxSequence /\ o <= MaxSequence
      /\ sent \in Seq(Cmds) /\ Len(sent) = o - 1
  BY <1>1, Numbers DEF UserCmdsInv, TypeOK, SentOK, SendCmd
<1>3. /\ outgoing_sequence' = o + 1 /\ sent' = Append(sent, x)
      /\ cmds' = RingAfterSend(ring) /\ uplink' = uplink \cup {Move(ring)}
      /\ UNCHANGED <<incoming_acknowledged, received, frame, error, incoming_sequence,
                     last_cmd, player, sv_outgoing, frame_num, downlink, accepted>>
  BY <1>1 DEF SendCmd, Move, server
<1>4. /\ Slot(o) \in 0 .. CmdBackup - 1 /\ Slot(o + 1) \in 0 .. CmdBackup - 1
      /\ Slot(o) # Slot(o + 1)
  <2>1. o + 1 \in Nat /\ o < o + 1 /\ o + 1 - o < CmdBackup
    BY <1>2, Numbers
  <2> QED
    <3>1. PICK p \in Nat : p = o + 1
      BY <2>1
    <3>2. Slot(o) # Slot(p)
      BY <1>2, <2>1, <3>1, SlotDistinct
    <3> QED
      BY <1>2, <3>1, <3>2, SlotType
<1>5. x \in Cmds /\ x # Null /\ \A k \in x : k <= o
  <2>1. ring[Slot(o)] \in Cmds /\ \A k \in ring[Slot(o)] : k <= o
    BY <1>1, <1>4
  <2>2. {Time} \in Cmds /\ \A k \in {Time} : k <= o
    BY <1>2, Numbers DEF Cmds, Time
  <2>3. {Time} # Null
    BY DEF Null
  <2> QED
    BY <1>1, <2>1, <2>2, <2>3 DEF Finalized
<1>6. /\ sent' \in Seq(Cmds) /\ Len(sent') = o /\ sent'[o] = x
      /\ \A n \in 1 .. o - 1 : sent'[n] = sent[n]
  <2>1. /\ sent' \in Seq(Cmds) /\ Len(sent') = Len(sent) + 1
        /\ sent'[Len(sent) + 1] = x
        /\ \A n \in 1 .. Len(sent) : sent'[n] = sent[n]
    BY <1>2, <1>3, <1>5
  <2>2. Len(sent) + 1 = o
    BY <1>2
  <2> QED
    BY <1>2, <2>1, <2>2
<1>7. /\ cmds' \in [0 .. CmdBackup - 1 -> Cmds]
      /\ cmds'[Slot(o)] = x /\ cmds'[Slot(o + 1)] = Null
      /\ \A s \in 0 .. CmdBackup - 1 :
           s # Slot(o) /\ s # Slot(o + 1) => cmds'[s] = ring[s]
  <2>1. cmds' = [ring EXCEPT ![Slot(o)] = x, ![Slot(o + 1)] = Null]
    BY <1>1, <1>3 DEF RingAfterSend
  <2>2. Null \in Cmds
    BY DEF Cmds, Null
  <2> QED
    BY <2>1, <2>2, <1>4, <1>5
<1>8. ASSUME NEW n \in 1 .. o, o + 1 - n < CmdBackup
      PROVE  cmds'[Slot(n)] = sent'[n]
  <2>1. CASE n = o
    BY <2>1, <1>6, <1>7
  <2>2. CASE n # o
    <3>1. n \in 1 .. o - 1 /\ o - n < CmdBackup /\ n \in Nat /\ n < o
      BY <1>2, <1>8, <2>2, Numbers
    <3>2. Slot(n) # Slot(o) /\ Slot(n) # Slot(o + 1) /\ Slot(n) \in 0 .. CmdBackup - 1
      <4>1. /\ n \in Nat /\ o + 1 \in Nat /\ n < o + 1 /\ o + 1 - n < CmdBackup
            /\ n < o /\ o - n < CmdBackup
        BY <1>2, <1>8, <3>1
      <4>2. PICK p \in Nat : p = o + 1
        BY <4>1
      <4>3. Slot(n) # Slot(o) /\ Slot(n) # Slot(p)
        BY <1>2, <4>1, <4>2, SlotDistinct
      <4> QED
        BY <4>1, <4>2, <4>3, SlotType
    <3> QED
      BY <3>1, <3>2, <1>1, <1>6, <1>7
  <2> QED
    BY <2>1, <2>2
<1>9. /\ Move(ring).sequence = o
      /\ Move(ring).new = sent'[o]
      /\ Move(ring).old = sent'[o - 1]
      /\ Move(ring).oldest = sent'[o - 2]
  <2>1. /\ o - 1 \in 1 .. o - 1 /\ o - (o - 1) < CmdBackup
        /\ o - 2 \in 1 .. o - 1 /\ o - (o - 2) < CmdBackup
    BY <1>2, Numbers
  <2>2. ring[Slot(o - 1)] = sent[o - 1] /\ ring[Slot(o - 2)] = sent[o - 2]
    BY <1>1, <2>1
  <2> QED
    BY <1>1, <1>6, <2>1, <2>2 DEF Move
<1>10. \A d \in uplink' : d \in uplink \/ d = Move(ring)
  BY <1>3
<1>11. incoming_sequence \in 1 .. o - 1 /\ incoming_acknowledged \in 1 .. o - 1
  BY <1>1 DEF UserCmdsInv, TypeOK
<1>12. TypeOK'
  <2>1. \A d \in uplink' : d.sequence \in incoming_sequence + 1 .. o
    <3>1. \A d \in uplink : d.sequence \in incoming_sequence + 1 .. o - 1
      BY <1>1 DEF UserCmdsInv, TypeOK
    <3> QED
      BY <3>1, <1>2, <1>9, <1>10, <1>11
  <2>2. outgoing_sequence' \in FirstMove .. MaxSequence /\ outgoing_sequence' - 1 = o
    BY <1>2, <1>3, Numbers
  <2>3. incoming_sequence' \in 1 .. o /\ incoming_acknowledged' \in 1 .. o
    BY <1>2, <1>3, <1>11
  <2>4. /\ received \in 1 .. sv_outgoing - 1 /\ frame \in Seq(Cmds)
        /\ error \in BOOLEAN /\ last_cmd \in Cmds /\ player \in Seq(Cmds)
        /\ sv_outgoing \in 2 .. 2 * MaxFrames /\ frame_num \in 1 .. MaxFrames
        /\ \A m \in downlink : m.sequence \in received + 1 .. sv_outgoing - 1
        /\ accepted \subseteq 1 .. incoming_sequence
    BY DEF UserCmdsInv, TypeOK
  <2> HIDE DEF Cmds
  <2> QED
    BY <1>3, <1>6, <1>7, <2>1, <2>2, <2>3, <2>4 DEF TypeOK
<1>13. NumbersOK'
  BY <1>3 DEF UserCmdsInv, NumbersOK
<1>14. SentOK'
  <2>1. outgoing_sequence' - 1 = o
    BY <1>2, <1>3
  <2>2. ASSUME NEW n \in 1 .. o
        PROVE  (\A k \in sent'[n] : k <= n) /\ (n < FirstMove <=> sent'[n] = Null)
    <3>1. CASE n = o
      BY <3>1, <1>2, <1>5, <1>6, Numbers
    <3>2. CASE n # o
      <4>1. n \in 1 .. o - 1
        BY <3>2, <1>2
      <4> QED
        BY <4>1, <1>1, <1>6 DEF UserCmdsInv, SentOK
    <3> QED
      BY <3>1, <3>2
  <2> QED
    BY <1>6, <2>1, <2>2 DEF SentOK
<1>15. RingOK'
  <2>1. outgoing_sequence' - 1 = o
    BY <1>2, <1>3
  <2>2. \A k \in cmds'[Slot(o + 1)] : k <= o + 1
    BY <1>7 DEF Null
  <2>3. /\ \A n \in 1 .. outgoing_sequence' - 1 :
             outgoing_sequence' - n < CmdBackup => cmds'[Slot(n)] = sent'[n]
        /\ \A k \in cmds'[Slot(outgoing_sequence')] : k <= outgoing_sequence'
    <3>1. PICK p : p = o + 1
      OBVIOUS
    <3>2. outgoing_sequence' = p /\ p - 1 = o
      BY <1>2, <1>3, <3>1
    <3>3. \A n \in 1 .. o : p - n < CmdBackup => cmds'[Slot(n)] = sent'[n]
      <4> SUFFICES ASSUME NEW n \in 1 .. o, p - n < CmdBackup
                   PROVE  cmds'[Slot(n)] = sent'[n]
        OBVIOUS
      <4>1. o + 1 - n < CmdBackup
        BY <1>2, <3>1
      <4> QED
        BY <4>1, <1>8
    <3>4. \A k \in cmds'[Slot(p)] : k <= p
      BY <2>2, <3>1
    <3> QED
      BY <3>2, <3>3, <3>4
  <2> QED
    BY <2>3 DEF RingOK
<1>16. UplinkOK'
  <2>1. outgoing_sequence' - 1 = o
    BY <1>2, <1>3
  <2>2. ASSUME NEW d \in uplink
        PROVE  /\ d.sequence \in FirstMove .. o
               /\ d.new = sent'[d.sequence]
               /\ d.old = sent'[d.sequence - 1]
               /\ d.oldest = sent'[d.sequence - 2]
    <3>1. PICK n : n = d.sequence
      OBVIOUS
    <3>2. /\ n \in FirstMove .. o - 1
          /\ d.new = sent[n] /\ d.old = sent[n - 1] /\ d.oldest = sent[n - 2]
      BY <1>1, <3>1 DEF UserCmdsInv, UplinkOK
    <3>3. /\ n \in 1 .. o - 1 /\ n - 1 \in 1 .. o - 1 /\ n - 2 \in 1 .. o - 1
          /\ n \in FirstMove .. o
      BY <3>2, <1>2, Numbers
    <3>4. /\ sent'[n] = sent[n] /\ sent'[n - 1] = sent[n - 1]
          /\ sent'[n - 2] = sent[n - 2]
      BY <3>3, <1>6
    <3> QED
      BY <3>1, <3>2, <3>3, <3>4
  <2>3. o \in FirstMove .. o
    BY <1>2, Numbers
  <2> QED
    BY <1>9, <1>10, <2>1, <2>2, <2>3 DEF UplinkOK
<1>17. AcceptedOK'
  BY <1>1, <1>3, <1>6, <1>11 DEF UserCmdsInv, AcceptedOK
<1>18. DownlinkOK'
  BY <1>3 DEF UserCmdsInv, DownlinkOK, UpTo
<1>19. StatesOK'
  BY <1>3 DEF UserCmdsInv, StatesOK, UpTo
<1>20. RunAsSent' /\ Invented' = Invented
  BY <1>3, <1>5, SendKeepsRun
<1> QED
  BY <1>1, <1>3, <1>12, <1>13, <1>14, <1>15, <1>16, <1>17, <1>18, <1>19, <1>20

(* The ring with the input of this frame.                                   *)
LEMMA UpdatedFacts ==
  ASSUME TypeOK, RingOK
  PROVE  /\ UpdatedCmds \in [0 .. CmdBackup - 1 -> Cmds]
         /\ UpdatedCmds[Slot(outgoing_sequence)] # Null
         /\ Finalized(UpdatedCmds[Slot(outgoing_sequence)])
              = UpdatedCmds[Slot(outgoing_sequence)]
         /\ \A k \in UpdatedCmds[Slot(outgoing_sequence)] : k <= outgoing_sequence
         /\ \A n \in 1 .. outgoing_sequence - 1 :
              outgoing_sequence - n < CmdBackup => UpdatedCmds[Slot(n)] = sent[n]
<1> DEFINE o == outgoing_sequence
<1>1. /\ o \in Nat /\ o \in 0 .. MaxSequence
      /\ cmds \in [0 .. CmdBackup - 1 -> Cmds]
  BY Numbers DEF TypeOK
<1>2. Slot(o) \in 0 .. CmdBackup - 1
  BY <1>1, SlotType
<1>3. /\ UpdatedCmds[Slot(o)] = cmds[Slot(o)] \cup {o}
      /\ \A s \in 0 .. CmdBackup - 1 : s # Slot(o) => UpdatedCmds[s] = cmds[s]
  BY <1>1, <1>2 DEF UpdatedCmds
<1>4. UpdatedCmds \in [0 .. CmdBackup - 1 -> Cmds]
  <2>1. cmds[Slot(o)] \cup {o} \in Cmds
    BY <1>1, <1>2 DEF Cmds
  <2> QED
    BY <1>1, <1>2, <2>1 DEF UpdatedCmds
<1>5. UpdatedCmds[Slot(o)] # Null
  BY <1>3 DEF Null
<1>6. \A k \in UpdatedCmds[Slot(o)] : k <= o
  BY <1>1, <1>3 DEF RingOK
<1>7. ASSUME NEW n \in 1 .. o - 1, o - n < CmdBackup
      PROVE  UpdatedCmds[Slot(n)] = sent[n]
  <2>1. n \in Nat /\ n < o
    BY <1>1
  <2>2. Slot(n) # Slot(o) /\ Slot(n) \in 0 .. CmdBackup - 1
    BY <1>1, <1>7, <2>1, SlotType, SlotDistinct
  <2> QED
    BY <1>3, <1>7, <2>2 DEF RingOK
<1> QED
  BY <1>4, <1>5, <1>6, <1>7 DEF Finalized

(* Cl_Frame that sends: what it predicts, it has sent.                      *)
LEMMA PacketFrameKeeps ==
  ASSUME UserCmdsInv, PacketFrame
  PROVE  UserCmdsInv'
<1>1. PICK o, x, ring : /\ o = outgoing_sequence /\ ring = UpdatedCmds
                        /\ x = ring[Slot(o)]
  OBVIOUS
<1>2. /\ SendCmd(ring) /\ origins' = Foreseen(ring)
      /\ disturbed' = (disturbed \/ TooFarOutOfDate)
  BY <1>1 DEF PacketFrame
<1>3. TypeOK /\ RingOK
  BY DEF UserCmdsInv
<1>4. /\ ring \in [0 .. CmdBackup - 1 -> Cmds]
      /\ x # Null /\ Finalized(x) = x
      /\ \A k \in ring[Slot(outgoing_sequence)] : k <= outgoing_sequence
      /\ \A n \in 1 .. outgoing_sequence - 1 :
           outgoing_sequence - n < CmdBackup => ring[Slot(n)] = sent[n]
  BY <1>1, <1>3, UpdatedFacts
<1>5. origins' \in [0 .. CmdBackup - 1 -> Seq(Cmds)]
  BY <1>2, <1>3, <1>4, ForeseenType
<1>6. disturbed' \in BOOLEAN
  BY <1>2
<1>7. /\ (TypeOK /\ NumbersOK /\ SentOK /\ RingOK /\ UplinkOK /\ AcceptedOK)'
      /\ (DownlinkOK /\ StatesOK /\ RunAsSent)'
      /\ Invented' = Invented
      /\ sent' = Append(sent, x)
  BY <1>1, <1>2, <1>4, <1>5, <1>6, SendKeeps
<1>8. /\ o \in Nat /\ outgoing_sequence' = o + 1
      /\ incoming_acknowledged' = incoming_acknowledged
      /\ incoming_acknowledged \in 1 .. o - 1 /\ incoming_sequence \in 1 .. o - 1
      /\ sent \in Seq(Cmds) /\ Len(sent) = o - 1
  BY <1>1, <1>2, Numbers DEF SendCmd, UserCmdsInv, TypeOK, SentOK
<1>9. TooFarOutOfDate <=> o - incoming_acknowledged >= CmdBackup
  BY <1>1 DEF TooFarOutOfDate
<1>10. WindowOK'
  <2>1. CASE TooFarOutOfDate
    BY <2>1, <1>2 DEF WindowOK
  <2>2. CASE ~TooFarOutOfDate
    <3>1. outgoing_sequence' - incoming_acknowledged' <= CmdBackup
      <4>1. /\ ~(o - incoming_acknowledged >= CmdBackup)
            /\ incoming_acknowledged \in Int
        BY <2>2, <1>8, <1>9
      <4> QED
        BY <4>1, <1>8, Numbers
    <3> QED
      BY <3>1 DEF WindowOK
  <2> QED
    BY <2>1, <2>2
<1>11. ForesightOK'
  <2> SUFFICES ASSUME ~disturbed', ~Invented'
               PROVE  /\ frame' = Result(incoming_acknowledged)'
                      /\ \A m \in downlink' : m.has_frame /\ m.state = Result(m.ack)'
                      /\ \A n \in incoming_acknowledged' .. outgoing_sequence' - 1 :
                           origins'[Slot(n)] = Result(n)'
                      /\ ~error'
    BY DEF ForesightOK
  <2>1. ~disturbed /\ ~Invented /\ ~TooFarOutOfDate
    BY <1>2, <1>7
  <2>2. /\ frame = Result(incoming_acknowledged)
        /\ \A m \in downlink : m.has_frame /\ m.state = Result(m.ack)
        /\ \A n \in incoming_acknowledged .. outgoing_sequence - 1 :
             origins[Slot(n)] = Result(n)
        /\ ~error
    BY <2>1 DEF UserCmdsInv, ForesightOK
  <2>3. UNCHANGED <<frame, downlink, error>>
    BY <1>2 DEF SendCmd
  <2>4. x \in Cmds
    BY <1>1, <1>4, <1>8, SlotType
  <2>5. \A n \in 0 .. o - 1 : Result(n)' = Result(n)
    BY <1>7, <1>8, <2>4, SentBefore DEF Result
  <2>6. \A n \in incoming_acknowledged .. o : origins'[Slot(n)] = Result(n)'
    <3> TAKE n \in incoming_acknowledged .. o
    <3>1. Predicted(ring)[Slot(n)] = MovedAll(<<>>, SubSeq(Append(sent, x), 1, n))
      BY <1>1, <1>4, <2>1, <2>2, <2>4, PredictedRight
    <3>2. origins' = Predicted(ring)
      BY <1>2, <2>1 DEF Foreseen
    <3> QED
      BY <3>1, <3>2, <1>7 DEF Result
  <2>7. outgoing_sequence' - 1 = o
    BY <1>8
  <2>8. \A m \in downlink : m.ack \in 0 .. o - 1
    BY <1>8 DEF UserCmdsInv, DownlinkOK
  <2> HIDE DEF Result
  <2>9. frame' = Result(incoming_acknowledged)'
    <3>1. PICK a : a = incoming_acknowledged
      OBVIOUS
    <3>2. a \in 0 .. o - 1
      BY <3>1, <1>8
    <3>3. Result(a)' = Result(a)
      BY <3>2, <2>5
    <3> QED
      BY <3>1, <3>3, <1>8, <2>2, <2>3 DEF Result
  <2>10. \A m \in downlink' : m.has_frame /\ m.state = Result(m.ack)'
    BY <2>2, <2>3, <2>5, <2>8
  <2> QED
    BY <1>8, <2>2, <2>3, <2>6, <2>7, <2>9, <2>10
<1> QED
  BY <1>7, <1>10, <1>11 DEF UserCmdsInv

(* Cl_Frame that renders only.                                              *)
LEMMA RenderFrameKeeps ==
  ASSUME UserCmdsInv, RenderFrame
  PROVE  UserCmdsInv'
<1>1. PICK o, x, ring : /\ o = outgoing_sequence /\ ring = UpdatedCmds
                        /\ x = ring[Slot(o)]
  OBVIOUS
<1>2. /\ cmds' = ring /\ origins' = Foreseen(ring)
      /\ UNCHANGED <<outgoing_sequence, incoming_acknowledged, received, frame, error,
                     incoming_sequence, last_cmd, player, sv_outgoing, frame_num,
                     uplink, downlink, sent, accepted, disturbed>>
  BY <1>1 DEF RenderFrame, server
<1>3. TypeOK /\ RingOK
  BY DEF UserCmdsInv
<1>4. /\ ring \in [0 .. CmdBackup - 1 -> Cmds]
      /\ x # Null
      /\ \A k \in ring[Slot(outgoing_sequence)] : k <= outgoing_sequence
      /\ \A n \in 1 .. outgoing_sequence - 1 :
           outgoing_sequence - n < CmdBackup => ring[Slot(n)] = sent[n]
  BY <1>1, <1>3, UpdatedFacts
<1>5. origins' \in [0 .. CmdBackup - 1 -> Seq(Cmds)]
  BY <1>2, <1>3, <1>4, ForeseenType
<1>6. TypeOK'
  BY <1>2, <1>3, <1>4, <1>5 DEF TypeOK
<1>7. RingOK'
  BY <1>2, <1>4 DEF RingOK
<1>8. (NumbersOK /\ SentOK /\ UplinkOK /\ AcceptedOK /\ DownlinkOK /\ StatesOK /\ WindowOK)'
  BY <1>2 DEF UserCmdsInv, NumbersOK, SentOK, UplinkOK, AcceptedOK, DownlinkOK, StatesOK,
              UpTo, WindowOK
<1>9. RunAsSent' /\ Invented' = Invented
  BY <1>2 DEF UserCmdsInv, RunAsSent, Ran, Due, Skipped, Copied, Upon, Before, Invented
<1>10. \A n : Result(n)' = Result(n)
  BY <1>2 DEF Result
<1>11. ForesightOK'
  <2>1. /\ o \in Nat /\ incoming_acknowledged \in 1 .. o - 1
        /\ sent \in Seq(Cmds) /\ Len(sent) = o - 1
    BY <1>1, Numbers DEF UserCmdsInv, TypeOK, SentOK
  <2>2. ASSUME ~disturbed, ~Invented,
               NEW n \in incoming_acknowledged .. outgoing_sequence - 1
        PROVE  origins'[Slot(n)] = Result(n)
    <3>1. origins[Slot(n)] = Result(n)
      BY <2>2 DEF UserCmdsInv, ForesightOK
    <3>2. CASE TooFarOutOfDate
      BY <3>1, <3>2, <1>2 DEF Foreseen
    <3>3. CASE ~TooFarOutOfDate
      <4>1. x \in Cmds
        BY <1>1, <1>4, <2>1, SlotType
      <4>2. /\ frame = Result(incoming_acknowledged)
            /\ \A m \in incoming_acknowledged .. outgoing_sequence - 1 :
                 origins[Slot(m)] = Result(m)
        BY <2>2 DEF UserCmdsInv, ForesightOK
      <4>3. n \in incoming_acknowledged .. outgoing_sequence /\ n \in 0 .. Len(sent)
        BY <1>1, <2>1
      <4>4. Predicted(ring)[Slot(n)] = MovedAll(<<>>, SubSeq(Append(sent, x), 1, n))
        BY <1>1, <1>4, <3>3, <4>1, <4>2, <4>3, PredictedRight
      <4>5. SubSeq(Append(sent, x), 1, n) = SubSeq(sent, 1, n)
        BY <2>1, <4>1, <4>3, SentBefore
      <4> QED
        BY <1>2, <3>3, <4>4, <4>5 DEF Foreseen, Result
    <3> QED
      BY <3>2, <3>3
  <2> HIDE DEF Result
  <2>3. Result(incoming_acknowledged)' = Result(incoming_acknowledged)
    BY <1>2 DEF Result
  <2> QED
    BY <1>2, <1>9, <1>10, <2>2, <2>3 DEF UserCmdsInv, ForesightOK
<1> QED
  BY <1>6, <1>7, <1>8, <1>9, <1>11 DEF UserCmdsInv

(* Cl_Frame that sends the user info, and the command as it is.             *)
LEMMA UserInfoFrameKeeps ==
  ASSUME UserCmdsInv, UserInfoFrame
  PROVE  UserCmdsInv'
<1>1. SendCmd(cmds) /\ disturbed' = TRUE /\ origins' = origins
  BY DEF UserInfoFrame
<1>2. /\ cmds \in [0 .. CmdBackup - 1 -> Cmds]
      /\ origins' \in [0 .. CmdBackup - 1 -> Seq(Cmds)]
      /\ \A n \in 1 .. outgoing_sequence - 1 :
           outgoing_sequence - n < CmdBackup => cmds[Slot(n)] = sent[n]
      /\ \A k \in cmds[Slot(outgoing_sequence)] : k <= outgoing_sequence
  BY <1>1 DEF UserCmdsInv, TypeOK, RingOK
<1>3. disturbed' \in BOOLEAN
  BY <1>1
<1>4. /\ (TypeOK /\ NumbersOK /\ SentOK /\ RingOK /\ UplinkOK /\ AcceptedOK)'
      /\ (DownlinkOK /\ StatesOK /\ RunAsSent)'
  BY <1>1, <1>2, <1>3, SendKeeps
<1> QED
  BY <1>1, <1>4 DEF UserCmdsInv, WindowOK, ForesightOK

(* Sv_ParseClientMessage.                                                   *)
LEMMA ParseMoveKeeps ==
  ASSUME UserCmdsInv, NEW d \in uplink, ParseMove(d)
  PROVE  UserCmdsInv'
<1>1. PICK inc, s : inc = incoming_sequence /\ s = d.sequence
  OBVIOUS
<1>2. /\ incoming_sequence' = s /\ s > inc
      /\ player' = MovedAll(player, Append(Replayed(d), d.new))
      /\ last_cmd' = d.new /\ accepted' = accepted \cup {s}
      /\ uplink' = {u \in uplink : u.sequence > s}
      /\ UNCHANGED <<outgoing_sequence, incoming_acknowledged, received, cmds, frame,
                     origins, error, sv_outgoing, frame_num, downlink, sent, disturbed>>
  BY <1>1 DEF ParseMove, client
<1>3. /\ sent \in Seq(Cmds) /\ Len(sent) = outgoing_sequence - 1
      /\ outgoing_sequence \in Nat
      /\ inc \in 1 .. outgoing_sequence - 1 /\ s \in 1 .. outgoing_sequence - 1
      /\ d.new = sent[s] /\ d.old = sent[s - 1] /\ d.oldest = sent[s - 2]
      /\ s - 1 \in 1 .. outgoing_sequence - 1 /\ s - 2 \in 1 .. outgoing_sequence - 1
      /\ last_cmd = sent[inc]
      /\ TypeOK /\ AcceptedOK
  <2>1. TypeOK /\ AcceptedOK
    BY DEF UserCmdsInv
  <2>2. /\ sent \in Seq(Cmds) /\ Len(sent) = outgoing_sequence - 1
        /\ outgoing_sequence \in Nat /\ inc \in 1 .. outgoing_sequence - 1
        /\ last_cmd = sent[inc]
    BY <1>1, Numbers DEF UserCmdsInv, TypeOK, SentOK, AcceptedOK
  <2>3. /\ s \in FirstMove .. outgoing_sequence - 1
        /\ d.new = sent[s] /\ d.old = sent[s - 1] /\ d.oldest = sent[s - 2]
    BY <1>1 DEF UserCmdsInv, UplinkOK
  <2>4. /\ s \in 1 .. outgoing_sequence - 1
        /\ s - 1 \in 1 .. outgoing_sequence - 1 /\ s - 2 \in 1 .. outgoing_sequence - 1
    BY <2>2, <2>3, Numbers
  <2> QED
    BY <2>1, <2>2, <2>3, <2>4
<1>4. /\ \A n \in 1 .. inc :
           /\ n \in Due' <=> n \in Due
           /\ Ran(n)' = Ran(n)
           /\ n \in Due => Skipped(n)' = Skipped(n) /\ Copied(n)' = Copied(n)
      /\ \A n \in inc + 1 .. s :
           n \in Due' /\ Upon(n)' = s /\ Before(n)' = incoming_sequence
      /\ \E f \in accepted' : f < FirstMove /\ \A m \in accepted' : f <= m
      /\ Due \subseteq Due'
  <2>1. s \in Nat
    BY <1>3
  <2> QED
    BY <1>1, <1>2, <1>3, <2>1, AcceptedNext
<1> DEFINE tail == [i \in 1 .. s - inc |-> Ran(inc + i)']
           run == Append(Replayed(d), d.new)
<1>5. /\ tail \in Seq(Cmds) /\ run \in Seq(Cmds)
      /\ Without(tail, {Null}) = Without(run, {Null})
  BY <1>1, ReplayedIsDue
<1>6. player' \in Seq(Cmds) /\ ToSet(player') \subseteq ToSet(player) \cup ToSet(run)
  <2>1. player \in Seq(Cmds)
    BY <1>3 DEF TypeOK
  <2> HIDE DEF run
  <2>2. /\ MovedAll(player, run) \in Seq(Cmds)
        /\ ToSet(MovedAll(player, run)) \subseteq ToSet(player) \cup ToSet(run)
    BY <2>1, <1>5, MovedFacts
  <2> QED
    BY <2>2, <1>2 DEF run
<1>7. TypeOK'
  <2>1. last_cmd' \in Cmds
    BY <1>2, <1>3
  <2>2. incoming_sequence' \in 1 .. outgoing_sequence' - 1
    BY <1>2, <1>3
  <2>3. \A u \in uplink' :
          u.sequence \in incoming_sequence' + 1 .. outgoing_sequence' - 1
    <3> TAKE u \in uplink'
    <3>1. u \in uplink /\ u.sequence > s
      BY <1>2
    <3>2. u.sequence \in incoming_sequence + 1 .. outgoing_sequence - 1
      BY <3>1 DEF UserCmdsInv, TypeOK
    <3> QED
      BY <3>1, <3>2, <1>2, <1>3
  <2>4. accepted' \subseteq 1 .. incoming_sequence'
    <3>1. accepted \subseteq 1 .. inc
      BY <1>1, <1>3 DEF TypeOK
    <3> QED
      BY <3>1, <1>2, <1>3
  <2> QED
    BY <1>2, <1>3, <1>6, <2>1, <2>2, <2>3, <2>4 DEF TypeOK
<1>8. (SentOK /\ RingOK /\ UplinkOK /\ WindowOK)'
  BY <1>2 DEF UserCmdsInv, SentOK, RingOK, UplinkOK, WindowOK
<1>9. NumbersOK' /\ DownlinkOK'
  <2>1. incoming_acknowledged <= inc /\ incoming_acknowledged \in Int
    BY <1>1 DEF UserCmdsInv, NumbersOK, TypeOK
  <2>2. NumbersOK'
    BY <1>2, <1>3, <2>1 DEF UserCmdsInv, NumbersOK
  <2>3. \A m \in downlink : m.ack \in incoming_acknowledged .. s
    <3> TAKE m \in downlink
    <3>1. m.ack \in incoming_acknowledged .. inc
      BY <1>1 DEF UserCmdsInv, DownlinkOK
    <3> QED
      BY <3>1, <2>1, <1>2, <1>3
  <2> QED
    BY <1>2, <2>2, <2>3 DEF UserCmdsInv, DownlinkOK, UpTo
<1>10. AcceptedOK'
  BY <1>2, <1>3, <1>4 DEF AcceptedOK
<1>11. StatesOK'
  <2>1. ASSUME NEW x \in ToSet(player'), NEW k \in x
        PROVE  k <= s
    <3>1. \A n \in 1 .. outgoing_sequence - 1 :
            sent[n] \in Cmds /\ \A j \in sent[n] : j <= n
      BY <1>3 DEF UserCmdsInv, SentOK
    <3>2. ASSUME NEW n \in 1 .. outgoing_sequence - 1, n <= s, x = sent[n]
          PROVE  k <= s
      <4>1. k <= n /\ k \in Int
        BY <3>1, <3>2 DEF Cmds
      <4> QED
        BY <4>1, <3>2, <1>3
    <3>3. CASE x \in ToSet(player)
      <4>1. PICK i \in 1 .. Len(player) : x = player[i]
        BY <3>3, <1>3 DEF ToSet, TypeOK
      <4>2. k <= inc /\ k \in Int
        <5>1. x \in Cmds
          BY <4>1, <1>3 DEF TypeOK
        <5> QED
          BY <5>1, <4>1, <1>1 DEF UserCmdsInv, StatesOK, UpTo, Cmds
      <4> QED
        BY <4>2, <1>2, <1>3
    <3>4. CASE x \in ToSet(run)
      <4>1. x = d.new \/ x = d.old \/ x = d.oldest \/ x = last_cmd
        <5> DEFINE r == Replayed(d)
        <5>1. PICK c : c = Lost(d)
          OBVIOUS
        <5>2. r = <<>> \/ r = [i \in 1 .. c |-> IF i = c THEN d.old
                                               ELSE IF i = c - 1 THEN d.oldest
                                               ELSE last_cmd]
          BY <5>1 DEF Replayed
        <5>3. c \in Nat
          BY <1>1, <1>2, <1>3, <5>1 DEF Lost
        <5>4. \A n \in 1 .. outgoing_sequence - 1 : sent[n] \in Cmds
          BY <1>3
        <5>5. d.new \in Cmds /\ d.old \in Cmds /\ d.oldest \in Cmds /\ last_cmd \in Cmds
          BY <1>3, <5>4
        <5>6. /\ r \in Seq(Cmds)
              /\ \A i \in 1 .. Len(r) : r[i] \in {d.old, d.oldest, last_cmd}
          <6>1. CASE r = <<>>
            BY <6>1
          <6>2. CASE r # <<>>
            <7>1. r \in [1 .. c -> Cmds]
              BY <5>2, <5>5, <6>2
            <7>2. \A i \in 1 .. c : r[i] \in {d.old, d.oldest, last_cmd}
              BY <5>2, <6>2
            <7> HIDE DEF r
            <7>3. r \in Seq(Cmds) /\ Len(r) = c
              BY <5>3, <7>1, FunctionSeq
            <7> QED
              BY <7>2, <7>3
          <6> QED
            BY <6>1, <6>2
        <5>7. run = Append(r, d.new)
          OBVIOUS
        <5> HIDE DEF r, run
        <5>8. /\ Len(run) = Len(r) + 1 /\ run[Len(r) + 1] = d.new
              /\ \A i \in 1 .. Len(r) : run[i] = r[i]
          BY <5>5, <5>6, <5>7
        <5>9. PICK i \in 1 .. Len(run) : x = run[i]
          BY <3>4, <1>5 DEF ToSet
        <5>10. i = Len(r) + 1 \/ i \in 1 .. Len(r)
          BY <5>6, <5>8, <5>9
        <5> QED
          BY <5>6, <5>8, <5>9, <5>10
      <4>2. /\ s - 1 <= s /\ s - 2 <= s /\ inc <= s /\ s <= s
        BY <1>2, <1>3
      <4> QED
        BY <4>1, <4>2, <3>2, <1>3
    <3> QED
      BY <3>3, <3>4, <1>6
  <2>2. UpTo(player, incoming_sequence)'
    <3>1. \A i \in 1 .. Len(player') : player'[i] \in ToSet(player')
      BY <1>6 DEF ToSet
    <3> QED
      BY <3>1, <2>1, <1>2 DEF UpTo
  <2> QED
    BY <2>2, <1>2 DEF UserCmdsInv, StatesOK, UpTo
<1>12. RunAsSent'
  <2> DEFINE before == [n \in 1 .. inc |-> Ran(n)]
             after == [n \in 1 .. s |-> Ran(n)']
  <2>1. \A n \in 1 .. s : n \in 1 .. inc \/ (n - inc \in 1 .. s - inc /\ inc + (n - inc) = n)
    BY <1>2, <1>3
  <2>2. s - inc \in Nat /\ inc \in Nat /\ s \in Nat /\ inc + (s - inc) = s
    BY <1>2, <1>3
  <2>3. \A n \in 1 .. inc : Ran(n) \in Cmds
    <3> TAKE n \in 1 .. inc
    <3>1. n \in 1 .. Len(sent) /\ Null \in Cmds
      BY <1>3 DEF Null, Cmds
    <3>2. CASE n \in Due
      <4>1. Before(n) \in accepted /\ accepted \subseteq 1 .. inc
        BY <3>2, <1>1, <1>3, Around DEF TypeOK
      <4>2. Before(n) \in 1 .. Len(sent)
        <5>1. \A b \in 1 .. inc : b \in 1 .. Len(sent)
          BY <1>3
        <5> QED
          BY <4>1, <5>1
      <4> QED
        BY <3>1, <4>2, <1>3 DEF Ran
    <3>3. CASE n \notin Due
      BY <3>1, <3>3 DEF Ran
    <3> QED
      BY <3>2, <3>3
  <2>4. \A i \in 1 .. s - inc : tail[i] = Ran(inc + i)'
    OBVIOUS
  <2>5. Len(tail) = s - inc /\ \A i \in 1 .. s - inc : tail[i] \in Cmds
    <3>1. DOMAIN tail = 1 .. s - inc
      OBVIOUS
    <3> HIDE DEF tail
    <3>2. DOMAIN tail = 1 .. Len(tail) /\ Len(tail) \in Nat
      BY <1>5
    <3>3. Len(tail) = s - inc
      BY <3>1, <3>2, <2>2
    <3> QED
      BY <3>3, <1>5
  <2>6. before \in [1 .. inc -> Cmds] /\ \A n \in 1 .. inc : before[n] = Ran(n)
    BY <2>3
  <2>7. \A n \in 1 .. s : Ran(n)' \in Cmds
    <3> TAKE n \in 1 .. s
    <3>1. CASE n \in 1 .. inc
      BY <3>1, <2>3, <1>4
    <3>2. CASE n \notin 1 .. inc
      <4>1. PICK i \in 1 .. s - inc : inc + i = n
        BY <3>2, <2>1
      <4> HIDE DEF tail
      <4>2. Ran(inc + i)' \in Cmds
        BY <4>1, <2>4, <2>5
      <4> QED
        BY <4>1, <4>2
    <3> QED
      BY <3>1, <3>2
  <2>8. after \in [1 .. s -> Cmds] /\ \A n \in 1 .. s : after[n] = Ran(n)'
    BY <2>7
  <2> HIDE DEF before, after, tail
  <2>9. /\ before \in Seq(Cmds) /\ Len(before) = inc
        /\ after \in Seq(Cmds) /\ Len(after) = s
    BY <2>2, <2>6, <2>8, FunctionSeq
  <2>10. after = before \o tail
    <3>1. /\ before \o tail \in Seq(Cmds)
          /\ Len(before \o tail) = s
          /\ \A n \in 1 .. s : (before \o tail)[n] = IF n <= inc THEN before[n]
                                                     ELSE tail[n - inc]
      <4>1. /\ before \o tail \in Seq(Cmds)
            /\ Len(before \o tail) = Len(before) + Len(tail)
            /\ \A n \in 1 .. Len(before) + Len(tail) :
                 (before \o tail)[n] = IF n <= Len(before) THEN before[n]
                                       ELSE tail[n - Len(before)]
        BY <2>9, <1>5, ConcatProperties
      <4>2. Len(before) = inc /\ Len(before) + Len(tail) = s
        BY <2>2, <2>5, <2>9
      <4> QED
        BY <4>1, <4>2
    <3>2. ASSUME NEW n \in 1 .. s PROVE after[n] = (before \o tail)[n]
      <4>1. CASE n \in 1 .. inc
        <5>1. n <= inc
          BY <4>1, <2>2
        <5> QED
          BY <4>1, <5>1, <3>1, <2>6, <2>8, <1>4
      <4>2. CASE n \notin 1 .. inc
        <5>1. PICK i \in 1 .. s - inc : inc + i = n /\ i = n - inc
          BY <4>2, <2>1, <2>2
        <5>2. ~(n <= inc)
          BY <4>2, <2>2
        <5>3. (before \o tail)[n] = tail[i]
          BY <3>1, <5>1, <5>2
        <5>4. tail[i] = Ran(inc + i)'
          BY <2>4
        <5> QED
          BY <5>1, <5>3, <5>4, <2>8
      <4> QED
        BY <4>1, <4>2
    <3> QED
      BY <3>1, <3>2, <2>9, SeqEqual
  <2>11. player = MovedAll(<<>>, before)
    BY <1>1 DEF UserCmdsInv, RunAsSent, before
  <2>12. MovedAll(player, tail) = MovedAll(<<>>, after)
    BY <2>9, <2>10, <2>11, <1>5, MovedMore
  <2>13. player' = MovedAll(player, tail)
    BY <1>2, <1>5 DEF MovedAll
  <2>14. MovedAll(<<>>, after) = MovedAll(<<>>, [n \in 1 .. incoming_sequence |-> Ran(n)])'
    BY <1>2 DEF after, MovedAll
  <2> QED
    BY <2>12, <2>13, <2>14 DEF RunAsSent
<1>13. ForesightOK'
  <2>1. Invented => Invented'
    <3> SUFFICES ASSUME Invented PROVE Invented'
      OBVIOUS
    <3>1. PICK n \in Due : Skipped(n) \/ ~Copied(n)
      BY DEF Invented
    <3>2. n \in 1 .. inc
      BY <1>1, <1>3, Around
    <3>3. n \in Due' /\ (Skipped(n) \/ ~Copied(n))'
      BY <3>1, <3>2, <1>4
    <3> QED
      BY <3>3 DEF Invented
  <2>2. \A n : Result(n)' = Result(n)
    BY <1>2 DEF Result
  <2>3. Result(incoming_acknowledged)' = Result(incoming_acknowledged)
    BY <1>2 DEF Result
  <2> QED
    BY <1>2, <2>1, <2>2, <2>3 DEF UserCmdsInv, ForesightOK
<1> QED
  BY <1>7, <1>8, <1>9, <1>10, <1>11, <1>12, <1>13 DEF UserCmdsInv

(* Sv_SendClientDatagram.                                                   *)
LEMMA SendDatagramKeeps ==
  ASSUME UserCmdsInv, NEW fits \in BOOLEAN, SendClientDatagram(fits)
  PROVE  UserCmdsInv'
<1> DEFINE Datagram(n, has_frame) ==
             [sequence |-> n, ack |-> incoming_sequence, has_frame |-> has_frame,
              state |-> player]
<1>1. PICK more : /\ more = IF fits THEN {Datagram(sv_outgoing, TRUE)}
                             ELSE {Datagram(sv_outgoing, TRUE),
                                   Datagram(sv_outgoing + 1, FALSE)}
                  /\ downlink' = downlink \cup more
  BY DEF SendClientDatagram
<1>2. /\ frame_num < MaxFrames /\ frame_num' = frame_num + 1
      /\ sv_outgoing' = sv_outgoing + (IF fits THEN 1 ELSE 2)
      /\ disturbed' = IF fits THEN disturbed ELSE TRUE
      /\ UNCHANGED <<outgoing_sequence, incoming_acknowledged, received, cmds, frame,
                     origins, error, incoming_sequence, last_cmd, player, uplink, sent,
                     accepted>>
  BY DEF SendClientDatagram, client
<1>3. /\ sv_outgoing \in Nat /\ sv_outgoing >= 2 /\ sv_outgoing <= 2 * frame_num
      /\ frame_num \in 1 .. MaxFrames
      /\ received \in 1 .. sv_outgoing - 1
      /\ \A m \in downlink : m.sequence \in received + 1 .. sv_outgoing - 1
      /\ incoming_sequence \in Nat /\ incoming_acknowledged \in Nat
      /\ incoming_acknowledged <= incoming_sequence
      /\ player \in Seq(Cmds)
  BY Numbers DEF UserCmdsInv, TypeOK, NumbersOK
<1>4. ASSUME NEW m \in more
      PROVE  /\ m.sequence \in sv_outgoing .. sv_outgoing' - 1
             /\ m.ack = incoming_sequence /\ m.state = player
             /\ m.has_frame \in BOOLEAN /\ (fits => m.has_frame)
  <2>1. CASE fits
    <3>1. m = Datagram(sv_outgoing, TRUE)
      BY <1>1, <2>1
    <3> QED
      BY <1>2, <1>3, <2>1, <3>1
  <2>2. CASE ~fits
    <3>1. m = Datagram(sv_outgoing, TRUE) \/ m = Datagram(sv_outgoing + 1, FALSE)
      BY <1>1, <2>2
    <3>2. m.sequence \in {sv_outgoing, sv_outgoing + 1}
      BY <3>1
    <3>3. m.sequence \in sv_outgoing .. sv_outgoing' - 1
      BY <3>2, <1>2, <1>3, <2>2
    <3>4. m.ack = incoming_sequence /\ m.state = player /\ m.has_frame \in BOOLEAN
      <4>1. CASE m = Datagram(sv_outgoing, TRUE)
        BY <4>1
      <4>2. CASE m = Datagram(sv_outgoing + 1, FALSE)
        BY <4>2
      <4> QED
        BY <3>1, <4>1, <4>2
    <3> HIDE DEF Datagram
    <3> QED
      BY <3>3, <3>4, <2>2
  <2> QED
    BY <2>1, <2>2
<1>5. TypeOK'
  <2>1. /\ sv_outgoing' \in 2 .. 2 * MaxFrames /\ frame_num' \in 1 .. MaxFrames
        /\ received' \in 1 .. sv_outgoing' - 1
    <3>1. /\ received' = received /\ frame_num + 1 <= MaxFrames
          /\ sv_outgoing' = sv_outgoing + 1 \/ sv_outgoing' = sv_outgoing + 2
      BY <1>2, <1>3, Numbers
    <3> QED
      BY <3>1, <1>2, <1>3, Numbers
  <2>2. \A m \in downlink' : m.sequence \in received' + 1 .. sv_outgoing' - 1
    <3> TAKE m \in downlink'
    <3>1. CASE m \in downlink
      <4>1. m.sequence \in received + 1 .. sv_outgoing - 1
        BY <3>1, <1>3
      <4> QED
        BY <4>1, <1>2, <1>3, <2>1
    <3>2. CASE m \in more
      <4>1. m.sequence \in sv_outgoing .. sv_outgoing' - 1
        BY <3>2, <1>4
      <4> QED
        BY <4>1, <1>2, <1>3, <2>1
    <3> QED
      BY <3>1, <3>2, <1>1
  <2>3. disturbed' \in BOOLEAN
    BY <1>2 DEF UserCmdsInv, TypeOK
  <2> QED
    BY <1>2, <2>1, <2>2, <2>3 DEF UserCmdsInv, TypeOK
<1>6. NumbersOK'
  <2>1. sv_outgoing' = sv_outgoing + 1 \/ sv_outgoing' = sv_outgoing + 2
    BY <1>2
  <2> QED
    BY <2>1, <1>2, <1>3 DEF NumbersOK
<1>7. (SentOK /\ RingOK /\ UplinkOK /\ AcceptedOK /\ StatesOK)'
  BY <1>2 DEF UserCmdsInv, SentOK, RingOK, UplinkOK, AcceptedOK, StatesOK, UpTo
<1>8. WindowOK'
  BY <1>2 DEF UserCmdsInv, WindowOK
<1>9. RunAsSent' /\ Invented' = Invented
  BY <1>2 DEF UserCmdsInv, RunAsSent, Ran, Due, Skipped, Copied, Upon, Before, Invented
<1>10. DownlinkOK'
  <2>1. \A m \in downlink : /\ m.ack \in incoming_acknowledged .. incoming_sequence
                             /\ m.has_frame \in BOOLEAN
                             /\ m.state \in Seq(Cmds)
                             /\ UpTo(m.state, m.ack)
    BY DEF UserCmdsInv, DownlinkOK
  <2>2. \A m \in more : /\ m.ack \in incoming_acknowledged .. incoming_sequence
                         /\ m.has_frame \in BOOLEAN
                         /\ m.state \in Seq(Cmds)
                         /\ UpTo(m.state, m.ack)
    BY <1>3, <1>4 DEF UserCmdsInv, StatesOK
  <2>3. ASSUME NEW m \in downlink', NEW l \in downlink', l.sequence < m.sequence
        PROVE  l.ack <= m.ack
    <3>1. CASE m \in downlink /\ l \in downlink
      BY <2>3, <3>1 DEF UserCmdsInv, DownlinkOK
    <3>2. CASE m \in more
      <4>1. m.ack = incoming_sequence /\ l.ack \in incoming_acknowledged .. incoming_sequence
        BY <3>2, <1>1, <1>4, <2>1, <2>2
      <4> QED
        BY <4>1, <1>3
    <3>3. CASE m \in downlink /\ l \in more
      <4>1. m.sequence \in received + 1 .. sv_outgoing - 1
        BY <3>3, <1>3
      <4>2. l.sequence \in sv_outgoing .. sv_outgoing' - 1
        BY <3>3, <1>4
      <4>3. sv_outgoing' \in Nat
        BY <1>2, <1>3
      <4> QED
        BY <2>3, <4>1, <4>2, <4>3, <1>3
    <3> QED
      BY <3>1, <3>2, <3>3, <1>1
  <2> QED
    BY <1>1, <1>2, <2>1, <2>2, <2>3 DEF DownlinkOK, UpTo
<1>11. ForesightOK'
  <2> SUFFICES ASSUME ~disturbed', ~Invented'
               PROVE  /\ frame' = Result(incoming_acknowledged)'
                      /\ \A m \in downlink' : m.has_frame /\ m.state = Result(m.ack)'
                      /\ \A n \in incoming_acknowledged' .. outgoing_sequence' - 1 :
                           origins'[Slot(n)] = Result(n)'
                      /\ ~error'
    BY DEF ForesightOK
  <2>1. ~disturbed /\ ~Invented /\ fits
    BY <1>2, <1>9
  <2>2. player = Result(incoming_sequence)
    BY <2>1, NothingInvented
  <2>3. \A n : Result(n)' = Result(n)
    BY <1>2 DEF Result
  <2>4. Result(incoming_acknowledged)' = Result(incoming_acknowledged)
    BY <1>2 DEF Result
  <2> HIDE DEF Result
  <2>5. \A m \in more : m.has_frame /\ m.state = Result(m.ack)'
    <3> TAKE m \in more
    <3>1. m.has_frame /\ m.ack = incoming_sequence /\ m.state = player
      BY <1>4, <2>1
    <3> QED
      BY <3>1, <2>2, <2>3
  <2>6. \A m \in downlink : m.has_frame /\ m.state = Result(m.ack)'
    BY <2>1, <2>3 DEF UserCmdsInv, ForesightOK
  <2> QED
    BY <1>1, <1>2, <2>1, <2>3, <2>4, <2>5, <2>6 DEF UserCmdsInv, ForesightOK
<1> QED
  BY <1>5, <1>6, <1>7, <1>8, <1>9, <1>10, <1>11 DEF UserCmdsInv

(* Netchan_Process and Cl_ParseFrame.                                       *)
LEMMA ParseServerKeeps ==
  ASSUME UserCmdsInv, NEW m \in downlink, ParseServerMessage(m)
  PROVE  UserCmdsInv'
<1>1. /\ m.sequence > received /\ received' = m.sequence
      /\ incoming_acknowledged' = m.ack
      /\ m.has_frame => /\ frame' = m.state
                        /\ error' = (m.state # origins[Slot(m.ack)])
      /\ ~m.has_frame => frame' = frame /\ error' = error
      /\ downlink' = {d \in downlink : d.sequence > m.sequence}
      /\ UNCHANGED <<outgoing_sequence, cmds, origins, incoming_sequence, last_cmd, player,
                     sv_outgoing, frame_num, uplink, sent, accepted, disturbed>>
  BY DEF ParseServerMessage, Acknowledges, server
<1>2. /\ m.ack \in incoming_acknowledged .. incoming_sequence
      /\ m.has_frame \in BOOLEAN
      /\ m.state \in Seq(Cmds) /\ UpTo(m.state, m.ack)
      /\ incoming_acknowledged \in 1 .. outgoing_sequence - 1
      /\ incoming_sequence \in 1 .. outgoing_sequence - 1
      /\ outgoing_sequence \in Nat
      /\ m.sequence \in received + 1 .. sv_outgoing - 1
      /\ received \in 1 .. sv_outgoing - 1 /\ sv_outgoing \in Nat
  BY Numbers DEF UserCmdsInv, TypeOK, DownlinkOK
<1>3. \A d \in downlink' : d \in downlink /\ d.sequence > m.sequence
  BY <1>1
<1>4. m.ack \in 1 .. outgoing_sequence - 1 /\ m.ack <= incoming_sequence
  BY <1>2
<1>5. TypeOK'
  <2>1. received' \in 1 .. sv_outgoing' - 1
    BY <1>1, <1>2
  <2>2. \A d \in downlink' : d.sequence \in received' + 1 .. sv_outgoing' - 1
    <3> TAKE d \in downlink'
    <3>1. d.sequence > m.sequence /\ d.sequence \in received + 1 .. sv_outgoing - 1
      BY <1>3 DEF UserCmdsInv, TypeOK
    <3> QED
      BY <3>1, <1>1, <1>2
  <2>3. frame' \in Seq(Cmds) /\ error' \in BOOLEAN
    BY <1>1, <1>2 DEF UserCmdsInv, TypeOK
  <2> QED
    BY <1>1, <1>4, <2>1, <2>2, <2>3 DEF UserCmdsInv, TypeOK
<1>6. NumbersOK'
  BY <1>1, <1>4 DEF UserCmdsInv, NumbersOK
<1>7. (SentOK /\ RingOK /\ UplinkOK /\ AcceptedOK)'
  BY <1>1 DEF UserCmdsInv, SentOK, RingOK, UplinkOK, AcceptedOK
<1>8. RunAsSent' /\ Invented' = Invented
  BY <1>1 DEF UserCmdsInv, RunAsSent, Ran, Due, Skipped, Copied, Upon, Before, Invented
<1>9. WindowOK'
  <2>1. outgoing_sequence - incoming_acknowledged <= CmdBackup
          => outgoing_sequence - m.ack <= CmdBackup
    BY <1>2, Numbers
  <2> QED
    BY <2>1, <1>1 DEF UserCmdsInv, WindowOK
<1>10. DownlinkOK'
  <2>1. \A d \in downlink' : d.ack \in m.ack .. incoming_sequence
    <3> TAKE d \in downlink'
    <3>1. d.ack \in incoming_acknowledged .. incoming_sequence /\ m.ack <= d.ack
      BY <1>3 DEF UserCmdsInv, DownlinkOK
    <3> QED
      BY <3>1, <1>2
  <2> QED
    BY <1>1, <1>3, <2>1 DEF UserCmdsInv, DownlinkOK, UpTo
<1>11. StatesOK'
  <2>1. ASSUME ~m.has_frame PROVE UpTo(frame, m.ack)
    <3>1. UpTo(frame, incoming_acknowledged) /\ frame \in Seq(Cmds)
      BY DEF UserCmdsInv, StatesOK, TypeOK
    <3> SUFFICES ASSUME NEW i \in 1 .. Len(frame), NEW k \in frame[i] PROVE k <= m.ack
      BY DEF UpTo
    <3>2. k <= incoming_acknowledged /\ frame[i] \in Cmds
      BY <3>1 DEF UpTo
    <3> QED
      BY <3>2, <1>2 DEF Cmds
  <2>2. UpTo(frame', m.ack)
    <3>1. CASE m.has_frame
      BY <3>1, <1>1, <1>2
    <3>2. CASE ~m.has_frame
      BY <3>2, <1>1, <2>1
    <3> QED
      BY <3>1, <3>2
  <2> QED
    BY <1>1, <2>2 DEF UserCmdsInv, StatesOK, UpTo
<1>12. ForesightOK'
  <2> SUFFICES ASSUME ~disturbed', ~Invented'
               PROVE  /\ frame' = Result(incoming_acknowledged)'
                      /\ \A d \in downlink' : d.has_frame /\ d.state = Result(d.ack)'
                      /\ \A n \in incoming_acknowledged' .. outgoing_sequence' - 1 :
                           origins'[Slot(n)] = Result(n)'
                      /\ ~error'
    BY DEF ForesightOK
  <2>1. ~disturbed /\ ~Invented
    BY <1>1, <1>8
  <2>2. /\ \A d \in downlink : d.has_frame /\ d.state = Result(d.ack)
        /\ \A n \in incoming_acknowledged .. outgoing_sequence - 1 :
             origins[Slot(n)] = Result(n)
    BY <2>1 DEF UserCmdsInv, ForesightOK
  <2>3. \A n : Result(n)' = Result(n)
    BY <1>1 DEF Result
  <2>4. Result(incoming_acknowledged)' = Result(m.ack)
    BY <1>1 DEF Result
  <2> HIDE DEF Result
  <2>5. m.ack \in incoming_acknowledged .. outgoing_sequence - 1
    BY <1>2
  <2>6. \A n \in m.ack .. outgoing_sequence - 1 :
          n \in incoming_acknowledged .. outgoing_sequence - 1
    BY <1>2
  <2>7. m.has_frame /\ m.state = Result(m.ack) /\ origins[Slot(m.ack)] = Result(m.ack)
    BY <2>2, <2>5
  <2> QED
    BY <1>1, <1>3, <2>2, <2>3, <2>4, <2>6, <2>7
<1> QED
  BY <1>5, <1>6, <1>7, <1>8, <1>9, <1>10, <1>11, <1>12 DEF UserCmdsInv

LEMMA NextKeeps ==
  ASSUME UserCmdsInv, Next
  PROVE  UserCmdsInv'
BY PacketFrameKeeps, RenderFrameKeeps, UserInfoFrameKeeps, ParseMoveKeeps, SendDatagramKeeps,
   ParseServerKeeps DEF Next

LEMMA StutterKeeps ==
  ASSUME UserCmdsInv, UNCHANGED vars
  PROVE  UserCmdsInv'
<1>1. UNCHANGED <<outgoing_sequence, incoming_acknowledged, received, cmds, frame, origins,
                  error, incoming_sequence, last_cmd, player, sv_outgoing, frame_num,
                  uplink, downlink, sent, accepted, disturbed>>
  BY DEF vars, client, server
<1>2. TypeOK'
  BY <1>1 DEF UserCmdsInv, TypeOK
<1>3. (NumbersOK /\ SentOK /\ RingOK /\ UplinkOK /\ AcceptedOK /\ DownlinkOK /\ StatesOK
        /\ WindowOK)'
  BY <1>1 DEF UserCmdsInv, NumbersOK, SentOK, RingOK, UplinkOK, AcceptedOK, DownlinkOK,
              StatesOK, UpTo, WindowOK
<1>4. RunAsSent' /\ Invented' = Invented
  BY <1>1 DEF UserCmdsInv, RunAsSent, Ran, Due, Skipped, Copied, Upon, Before, Invented
<1>5. ForesightOK'
  <2>1. (\A n : Result(n)' = Result(n))
        /\ Result(incoming_acknowledged)' = Result(incoming_acknowledged)
    BY <1>1 DEF Result
  <2> QED
    BY <1>1, <1>4, <2>1 DEF UserCmdsInv, ForesightOK
<1> QED
  BY <1>2, <1>3, <1>4, <1>5 DEF UserCmdsInv

THEOREM InvariantHolds == Spec => []UserCmdsInv
<1>1. UserCmdsInv /\ [Next]_vars => UserCmdsInv'
  BY NextKeeps, StutterKeeps
<1> QED
  BY InitHolds, <1>1, PTL DEF Spec

(* The rings keep their size, and every number and state is in its range:   *)
(* TypeOK, for any ring, any bound on replay and any number of datagrams.   *)
THEOREM TypeCorrect == Spec => []TypeOK
<1>1. UserCmdsInv => TypeOK
  BY DEF UserCmdsInv
<1> QED
  BY <1>1, InvariantHolds, PTL

(* Sv_ParseClientMessage has run every command that was due once and in     *)
(* order, as far as a copy of it arrived: RunAsSent.                        *)
THEOREM CommandsRunAsSent == Spec => []RunAsSent
<1>1. UserCmdsInv => RunAsSent
  BY DEF UserCmdsInv
<1> QED
  BY <1>1, InvariantHolds, PTL

(* Cl_PredictMovement starts from a state that has nothing of what it runs: *)
(* NeverRunAgain.                                                           *)
THEOREM NothingRunAgain == Spec => []NeverRunAgain
<1>1. UserCmdsInv => NeverRunAgain
  BY DEF UserCmdsInv, TypeOK, StatesOK, UpTo, NeverRunAgain
<1> QED
  BY <1>1, InvariantHolds, PTL

(* Cl_CheckPredictionError finds an error only in what the server made up,  *)
(* or when prediction had lost its basis: PredictionSound.                  *)
THEOREM PredictionIsSound == Spec => []PredictionSound
<1>1. UserCmdsInv => PredictionSound
  BY DEF UserCmdsInv, ForesightOK, PredictionSound
<1> QED
  BY <1>1, InvariantHolds, PTL
=============================================================================
