---------------------------- MODULE SimpleTcpProofs ---------------------------
(***************************************************************************)
(* Theorems about SimpleTcp, for every descriptor table and every length.  *)
(* The sockets: HoldsItsOwn and NothingLost are inductive together with    *)
(* the types.  WriteData: leastLen is at most what is left of the message, *)
(* so that 0 is reached, if at all, within the buffer.                     *)
(***************************************************************************)
EXTENDS SimpleTcp, TLAPS

\* The bytes first .. last of the memory that begins with the message.
Prefix(n) == [i \in 1 .. n |-> i]

SendingInv == pc = "sending" =>
                /\ Len(wire) = sendLen
                /\ leastLen <= dataLen - sendLen
                /\ ~cut => \/ sendLen = 0 /\ leastLen = dataLen
                           \/ sendLen = dataLen /\ leastLen = 0

ReturnedInv == result.of = "write" /\ result.value >= 0 /\ pc = "idle" =>
                 result.value <= dataLen /\ Len(wire) = result.value

WriteInv == /\ wire = Prefix(Len(wire))
            /\ ~cut => Len(wire) <= dataLen
            /\ SendingInv
            /\ ReturnedInv

\* A prefix continued where it ends is a longer prefix.
LEMMA PrefixGrows ==
  ASSUME NEW n \in Nat, NEW k \in Nat
  PROVE  /\ Prefix(n) \o [i \in 1 .. k |-> n + i] = Prefix(n + k)
         /\ Len(Prefix(n + k)) = n + k
<1> DEFINE more == [i \in 1 .. k |-> n + i]
           all == Prefix(n) \o more
<1>1. Prefix(n) \in Seq(Nat) /\ Len(Prefix(n)) = n
  BY DEF Prefix
<1>2. more \in Seq(Nat) /\ Len(more) = k
  OBVIOUS
<1>3. all \in Seq(Nat) /\ Len(all) = n + k
  BY <1>1, <1>2
<1>4. Prefix(n + k) \in Seq(Nat) /\ Len(Prefix(n + k)) = n + k
  BY DEF Prefix
<1>5. ASSUME NEW i \in 1 .. n + k PROVE all[i] = Prefix(n + k)[i]
  <2>1. i <= n => all[i] = Prefix(n + k)[i]
    BY <1>1, <1>2 DEF Prefix
  <2>2. i > n => all[i] = Prefix(n + k)[i]
    BY <1>1, <1>2 DEF Prefix
  <2>3. i <= n \/ i > n
    OBVIOUS
  <2> HIDE DEF all
  <2> QED BY <2>1, <2>2, <2>3
<1> HIDE DEF all
<1>6. all = [i \in 1 .. n + k |-> all[i]]
  BY <1>3
<1>7. all = Prefix(n + k)
  BY <1>5, <1>6 DEF Prefix
<1> QED BY <1>4, <1>7 DEF all

-------------------------------------------------------------------------------

LEMMA ResultType ==
  ASSUME NEW v \in Int, NEW m \in {"init", "accept", "connect", "read", "write", "disconnect"},
         Returns(m, v)
  PROVE  result' \in [of : {"none", "init", "accept", "connect", "read", "write",
                            "disconnect"}, value : Int]
BY DEF Returns

\* The types of all variables are kept.
THEOREM TypeCorrect == Spec => []TypeOK
<1>1. Init => TypeOK
  <2> SUFFICES ASSUME Init PROVE TypeOK
    OBVIOUS
  <2>1. wire \in Seq(Nat) /\ desc \in [Fds -> {"free"}]
    BY DEF Init
  <2>2. result \in [of : {"none"}, value : Int]
    BY DEF Init
  <2> QED BY <2>1, <2>2 DEF Init, TypeOK
<1>2. TypeOK /\ [Next]_vars => TypeOK'
  <2> SUFFICES ASSUME TypeOK, [Next]_vars PROVE TypeOK'
    OBVIOUS
  <2> USE SimpleAssumption DEF TypeOK, NoFd
  <2>1. CASE InitTcpClient
    <3>1. again' \in BOOLEAN
      BY <2>1, Zenon DEF InitTcpClient, InitBegins
    <3>2. PICK f \in Fds : desc' = [desc EXCEPT ![f] = "new"] /\ sockfd' = f
      BY <2>1 DEF InitTcpClient
    <3>3. desc' \in [Fds -> {"free", "other", "new", "listening", "connected", "accepted"}]
      BY <3>2
    <3>4. result' \in [of : {"none", "init", "accept", "connect", "read", "write",
                             "disconnect"}, value : Int]
      BY <2>1, ResultType DEF InitTcpClient
    <3>5. UNCHANGED <<pc, fd, dataLen, leastLen, sendLen, wire, cut>> /\ disconnected' = FALSE
      BY <2>1 DEF InitTcpClient, args
    <3>6. sockfd' \in Fds \cup {NoFd}
      BY <3>2
    <3> QED BY <3>1, <3>3, <3>4, <3>5, <3>6, Zenon
  <2>2. CASE InitTcpServer
    <3>1. again' \in BOOLEAN
      BY <2>2, Zenon DEF InitTcpServer, InitBegins
    <3>2. PICK f \in Fds, kind \in {"listening", "new"} :
             desc' = [desc EXCEPT ![f] = kind] /\ sockfd' = f
      BY <2>2 DEF InitTcpServer
    <3>3. desc' \in [Fds -> {"free", "other", "new", "listening", "connected", "accepted"}]
      BY <3>2
    <3>4. result' \in [of : {"none", "init", "accept", "connect", "read", "write",
                             "disconnect"}, value : Int]
      BY <2>2, ResultType DEF InitTcpServer
    <3>5. UNCHANGED <<pc, fd, dataLen, leastLen, sendLen, wire, cut>> /\ disconnected' = FALSE
      BY <2>2 DEF InitTcpServer, args
    <3>6. sockfd' \in Fds \cup {NoFd}
      BY <3>2
    <3> QED BY <3>1, <3>3, <3>4, <3>5, <3>6, Zenon
  <2>12. CASE InitClientFails \/ InitServerFails
    <3>1. again' \in BOOLEAN
      BY <2>12, Zenon DEF InitClientFails, InitServerFails, InitBegins
    <3>2. result' \in [of : {"none", "init", "accept", "connect", "read", "write",
                             "disconnect"}, value : Int]
      BY <2>12, ResultType DEF InitClientFails, InitServerFails
    <3> QED BY <2>12, <3>1, <3>2 DEF InitClientFails, InitServerFails, args
  <2>3. CASE Accept
    BY <2>3 DEF Accept, IsLowestFree, Free, Returns, args, history
  <2>4. CASE AcceptFails \/ Connect \/ ConnectFails \/ ReadData
    BY <2>4 DEF AcceptFails, Connect, ConnectFails, ReadData, Returns, args, history
  <2>5. CASE Disconnect
    BY <2>5 DEF Disconnect, Returns, args
  <2>6. CASE WriteRefused
    BY <2>6 DEF WriteRefused, Returns, args
  <2>7. ASSUME NEW f \in Targets, NEW len \in 0 .. MaxLen, WriteBegins(f, len)
        PROVE  TypeOK'
    <3>1. f \in Fds \cup {NoFd} /\ len \in Nat /\ wire' = <<>>
      BY <2>7 DEF WriteBegins, Targets
    <3>2. wire' \in Seq(Nat)
      BY <3>1
    <3>3. /\ desc' = desc /\ sockfd' = sockfd /\ result' = result
          /\ pc' = "sending" /\ fd' = f /\ dataLen' = len /\ leastLen' = len
          /\ sendLen' = 0 /\ cut' = FALSE
      BY <2>7 DEF WriteBegins
    <3>4. disconnected' \in BOOLEAN /\ again' \in BOOLEAN
      BY <2>7 DEF WriteBegins
    <3>5. /\ sockfd' \in Fds \cup {NoFd} /\ fd' \in Fds \cup {NoFd}
          /\ dataLen' \in Nat /\ leastLen' \in Int /\ sendLen' \in Nat
      BY <3>1, <3>3
    <3> QED BY <3>2, <3>3, <3>4, <3>5, Zenon
  <2>8. ASSUME NEW k \in 1 .. MaxLen + Behind, Sends(k) PROVE TypeOK'
    <3>1. [i \in 1 .. k |-> sendLen + i] \in Seq(Nat)
      OBVIOUS
    <3>2. wire' \in Seq(Nat)
      BY <2>8, <3>1 DEF Sends
    <3> QED BY <2>8, <3>2 DEF Sends
  <2>9. CASE SendFails \/ WriteReturns
    BY <2>9 DEF SendFails, WriteReturns, Returns, args, history
  <2>10. CASE OthersOpen \/ OthersClose
    BY <2>10 DEF OthersOpen, OthersClose, args, history
  <2>11. CASE UNCHANGED vars
    BY <2>11 DEF vars, args, history
  <2> QED
    BY <2>1, <2>2, <2>3, <2>4, <2>5, <2>6, <2>7, <2>8, <2>9, <2>10, <2>11, <2>12
       DEF Next, WriteData
<1> QED BY <1>1, <1>2, PTL DEF Spec

-------------------------------------------------------------------------------

\* Steps that leave sockfd and the object's own sockets as they are.
SocketsKept == /\ Own' = Own /\ sockfd' = sockfd
               /\ again' = again /\ disconnected' = disconnected

\* Only the inits and Disconnect change which sockets the object has.
LEMMA OthersKeepSockets ==
  ASSUME TypeOK, Next
  PROVE  SocketsKept \/ InitTcpClient \/ InitTcpServer
           \/ InitClientFails \/ InitServerFails \/ Disconnect
<1> USE DEF TypeOK, SocketsKept, Own
<1>1. CASE Accept
  BY <1>1 DEF Accept, IsLowestFree, Free, history
<1>2. CASE AcceptFails \/ ConnectFails \/ ReadData
  BY <1>2 DEF AcceptFails, ConnectFails, ReadData, history
<1>3. CASE Connect
  BY <1>3 DEF Connect, history, NoFd
<1>4. CASE WriteData
  BY <1>4 DEF WriteData, WriteRefused, WriteBegins, Sends, SendFails, WriteReturns, history
<1>5. CASE OthersOpen
  BY <1>5 DEF OthersOpen, IsLowestFree, Free, history
<1>6. CASE OthersClose
  BY <1>6 DEF OthersClose, history
<1> QED BY <1>1, <1>2, <1>3, <1>4, <1>5, <1>6 DEF Next

\* The number in sockfd stays that of the object's own socket until Disconnect.
THEOREM SockfdIsOwn == Spec => []HoldsItsOwn
<1>1. Init => HoldsItsOwn
  BY DEF Init, HoldsItsOwn
<1>2. TypeOK /\ HoldsItsOwn /\ [Next]_vars => HoldsItsOwn'
  <2> SUFFICES ASSUME TypeOK, HoldsItsOwn, [Next]_vars PROVE HoldsItsOwn'
    OBVIOUS
  <2> USE DEF HoldsItsOwn
  <2>1. CASE SocketsKept
    BY <2>1 DEF SocketsKept
  <2>2. CASE InitTcpClient \/ InitTcpServer
    BY <2>2 DEF InitTcpClient, InitTcpServer, IsLowestFree, Free, Own, TypeOK
  <2>3. CASE InitClientFails
    BY <2>3 DEF InitClientFails
  <2>4. CASE InitServerFails
    BY <2>4 DEF InitServerFails, Own
  <2>5. CASE Disconnect
    BY <2>5 DEF Disconnect
  <2>6. CASE UNCHANGED vars
    BY <2>6 DEF vars, history, Own
  <2> QED BY <2>1, <2>2, <2>3, <2>4, <2>5, <2>6, OthersKeepSockets
<1> QED BY <1>1, <1>2, TypeCorrect, PTL DEF Spec

\* No socket is lost, except by an init with one open and by number 0.
THEOREM NoSocketLost == Spec => []NothingLost
<1>1. Init => NothingLost
  BY DEF Init, NothingLost, Own
<1>2. TypeOK /\ NothingLost /\ [Next]_vars => NothingLost'
  <2> SUFFICES ASSUME TypeOK, NothingLost, [Next]_vars PROVE NothingLost'
    OBVIOUS
  <2> USE DEF NothingLost
  <2>1. CASE SocketsKept
    BY <2>1 DEF SocketsKept
  <2>2. CASE InitTcpClient \/ InitTcpServer
    <3> SUFFICES ASSUME ~again' PROVE Own' \subseteq {sockfd'}
      BY <2>2 DEF InitTcpClient, InitTcpServer
    <3>1. Own = {}
      BY <2>2 DEF InitTcpClient, InitTcpServer, InitBegins
    <3>2. PICK f \in Fds : /\ sockfd' = f
                           /\ \/ desc' = [desc EXCEPT ![f] = "new"]
                              \/ desc' = [desc EXCEPT ![f] = "listening"]
      BY <2>2 DEF InitTcpClient, InitTcpServer
    <3>3. \A o \in Fds : o # f => desc'[o] = desc[o]
      BY <3>2 DEF TypeOK
    <3>4. \A o \in Fds : o # f => o \notin Own'
      BY <3>1, <3>3, Zenon DEF Own
    <3>5. \A o \in Own' : o \in Fds
      BY DEF Own
    <3>6. \A o \in Own' : o = sockfd'
      BY <3>2, <3>4, <3>5, Zenon
    <3> QED BY <3>6, Zenon
  <2>3. CASE InitClientFails \/ InitServerFails
    <3>1. Own' = Own /\ (~again' => Own = {})
      BY <2>3 DEF InitClientFails, InitServerFails, InitBegins, Own
    <3> QED BY <3>1
  <2>5. CASE Disconnect
    <3> SUFFICES ASSUME ~again PROVE Own' \subseteq {0}
      BY <2>5 DEF Disconnect
    <3>1. Own \subseteq {0, sockfd}
      OBVIOUS
    <3>2. ASSUME NEW f \in Own' PROVE f = 0
      <4>1. f \in Fds
        BY <3>2 DEF Own
      <4>2. f \in Own
        BY <2>5, <4>1 DEF Disconnect, Own, TypeOK
      <4>3. sockfd \notin Own' \/ sockfd = 0
        BY <2>5, SimpleAssumption DEF Disconnect, Own, TypeOK, NoFd
      <4>. QED
        BY <3>1, <3>2, <4>2, <4>3
    <3> QED BY <3>2
  <2>6. CASE UNCHANGED vars
    BY <2>6 DEF vars, history, Own
  <2> QED BY <2>1, <2>2, <2>3, <2>5, <2>6, OthersKeepSockets
<1> QED BY <1>1, <1>2, TypeCorrect, PTL DEF Spec

-------------------------------------------------------------------------------

\* The invariant of the loop of WriteData.
LEMMA WriteInvHolds == Spec => []WriteInv
<1> USE DEF WriteInv, SendingInv, ReturnedInv
<1>1. Init => WriteInv
  BY DEF Init, Prefix
<1>2. TypeOK /\ WriteInv /\ [Next]_vars => WriteInv'
  <2> SUFFICES ASSUME TypeOK, WriteInv, [Next]_vars PROVE WriteInv'
    OBVIOUS
  <2> USE DEF TypeOK
  <2>1. CASE InitTcpClient \/ InitTcpServer \/ InitClientFails \/ InitServerFails
              \/ Accept \/ AcceptFails \/ Connect \/ ConnectFails \/ ReadData \/ Disconnect
    <3>1. /\ UNCHANGED <<args, wire, cut>> /\ pc = "idle" /\ pc' = "idle"
          /\ result'.of # "write"
      BY <2>1 DEF InitTcpClient, InitTcpServer, InitClientFails, InitServerFails, Accept,
         AcceptFails, Connect, ConnectFails, ReadData, Disconnect, InitBegins, Returns, history
    <3> QED BY <3>1 DEF args, Prefix
  <2>2. CASE WriteRefused
    BY <2>2 DEF WriteRefused, Returns, args, Prefix
  <2>3. ASSUME NEW f \in Targets, NEW len \in 0 .. MaxLen, WriteBegins(f, len)
        PROVE  WriteInv'
    BY <2>3, SimpleAssumption DEF WriteBegins, Prefix
  <2>4. ASSUME NEW k \in 1 .. MaxLen + Behind, Sends(k) PROVE WriteInv'
    <3>1. /\ pc = "sending" /\ pc' = "sending" /\ k \in Nat /\ leastLen # 0 /\ k <= Asked
          /\ sendLen' = sendLen + k /\ leastLen' = leastLen - (sendLen + k)
          /\ dataLen' = dataLen /\ cut' = (cut \/ k < leastLen)
      BY <2>4 DEF Sends
    <3>2. wire' = Prefix(sendLen) \o [i \in 1 .. k |-> sendLen + i]
      BY <2>4, <3>1 DEF Sends
    <3>3. wire' = Prefix(sendLen + k) /\ Len(wire') = sendLen + k
      BY <3>1, <3>2, PrefixGrows
    <3>4. leastLen' <= dataLen' - sendLen'
      BY <3>1
    <3>5. ASSUME ~cut' PROVE sendLen' = dataLen' /\ leastLen' = 0
      <4>1. ~cut /\ k >= leastLen
        <5>1. ~(cut \/ k < leastLen)
          BY <3>1, <3>5, Zenon
        <5> QED BY <5>1, <3>1
      <4>2. sendLen = 0 /\ leastLen = dataLen
        BY <4>1, <3>1
      <4>3. k <= dataLen
        BY <4>2, <3>1 DEF Asked
      <4> QED BY <4>1, <4>2, <4>3, <3>1
    <3> QED BY <3>1, <3>3, <3>4, <3>5
  <2>5. CASE SendFails \/ WriteReturns
    <3>1. /\ pc = "sending" /\ pc' = "idle" /\ UNCHANGED <<dataLen, wire, cut>>
          /\ \/ result'.value = -2
             \/ leastLen = 0 /\ result'.value = sendLen
      BY <2>5 DEF SendFails, WriteReturns, Returns, args, history
    <3> QED BY <3>1 DEF Prefix
  <2>6. CASE OthersOpen \/ OthersClose \/ UNCHANGED vars
    BY <2>6 DEF OthersOpen, OthersClose, vars, args, history, Prefix
  <2> QED
    BY <2>1, <2>2, <2>3, <2>4, <2>5, <2>6 DEF Next, WriteData
<1> QED BY <1>1, <1>2, TypeCorrect, PTL DEF Spec

\* What WriteData returns, if it is not an error, is what it has sent.
THEOREM WritesAreTrue == Spec => []WriteIsTrue
<1>1. TypeOK /\ WriteInv => WriteIsTrue
  BY DEF TypeOK, WriteInv, ReturnedInv, WriteIsTrue, Prefix
<1> QED BY <1>1, TypeCorrect, WriteInvHolds, PTL
===============================================================================
