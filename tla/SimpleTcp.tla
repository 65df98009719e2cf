------------------------------- MODULE SimpleTcp ------------------------------
(***************************************************************************)
(* One SimpleTcpBase object, the thread that uses it, and the rest of the  *)
(* process, which opens and closes descriptors of the same table.  Every   *)
(* method is one action, except WriteData, whose calls of send are steps.  *)
(*                                                                         *)
(* Byte i of a message is the number i; numbers above the length of the    *)
(* message are what lies in memory behind the caller's buffer.  Left out:  *)
(* SIGPIPE, and lengths that do not fit an int.                            *)
(***************************************************************************)
EXTENDS Descriptors, Integers, Sequences

CONSTANTS MaxLen,    \* bound: the longest message
          Behind     \* bound: bytes behind a buffer that send can read

ASSUME SimpleAssumption == MaxLen \in Nat /\ Behind \in Nat /\ Fds \subseteq Nat

NoFd == -1

VARIABLES desc,      \* desc[fd]: what the process's descriptor stands for
          sockfd,    \* the member
          pc,        \* "idle", or "sending": in the loop of WriteData
          fd, dataLen, leastLen, sendLen,   \* WriteData: arguments and locals
          result,    \* the method called last, and what it returned
          wire,      \* history: the bytes this WriteData has sent
          cut,       \* history: one of its sends took less than it was given
          disconnected, again   \* history: Disconnect, or an init with a socket open

args == <<fd, dataLen, leastLen, sendLen>>
history == <<wire, cut, disconnected, again>>
vars == <<desc, sockfd, pc, args, result, history>>

Init == /\ desc = [f \in Fds |-> "free"]
        /\ sockfd = NoFd
        /\ pc = "idle"
        /\ fd = NoFd /\ dataLen = 0 /\ leastLen = 0 /\ sendLen = 0
        /\ result = [of |-> "none", value |-> 0]
        /\ wire = <<>> /\ cut = FALSE
        /\ disconnected = FALSE /\ again = FALSE

Free == {f \in Fds : desc[f] = "free"}
IsLowestFree(f) == f \in Free /\ \A other \in Free : f <= other

Own == {f \in Fds : desc[f] \in {"new", "listening", "connected"}}

Returns(method, v) == result' = [of |-> method, value |-> v]

-------------------------------------------------------------------------------
(* InitTcpClient and InitTcpServer *)

InitBegins == pc = "idle" /\ again' = (again \/ Own # {})

InitTcpClient == /\ InitBegins
                 /\ \E f \in Fds : /\ IsLowestFree(f)
                                   /\ desc' = [desc EXCEPT ![f] = "new"]
                                   /\ sockfd' = f
                 /\ disconnected' = FALSE
                 /\ Returns("init", 0)
                 /\ UNCHANGED <<pc, args, wire, cut>>

\* Mutant: the socket is closed, and sockfd keeps its number.
ClientFailsKept == /\ InitBegins
                   /\ \E f \in Free : IsLowestFree(f) /\ sockfd' = f
                   /\ disconnected' = FALSE
                   /\ Returns("init", -1)
                   /\ UNCHANGED <<desc, pc, args, wire, cut>>

\* No socket, or one that setsockopt refuses and that is closed at once.
InitClientFails == /\ InitBegins
                   /\ sockfd' = NoFd
                   /\ disconnected' = FALSE
                   /\ Returns("init", -1)
                   /\ UNCHANGED <<desc, pc, args, wire, cut>>

\* Whether listen succeeds is ignored.
InitTcpServer == /\ InitBegins
                 /\ \E f \in Fds, kind \in {"listening", "new"} :
                      /\ IsLowestFree(f)
                      /\ desc' = [desc EXCEPT ![f] = kind]
                      /\ sockfd' = f
                 /\ disconnected' = FALSE
                 /\ Returns("init", 0)
                 /\ UNCHANGED <<pc, args, wire, cut>>

\* Mutant: the path on which bind fails does not close the socket.
ServerFailsOpen == /\ InitBegins
                   /\ \E f \in Fds : /\ IsLowestFree(f)
                                     /\ desc' = [desc EXCEPT ![f] = "new"]
                   /\ Returns("init", -1)
                   /\ UNCHANGED <<sockfd, pc, args, wire, cut, disconnected>>

\* socket, setsockopt or bind fails, the new socket is closed, and sockfd keeps
\* what it was.
InitServerFails == /\ InitBegins
                   /\ Returns("init", -1)
                   /\ UNCHANGED <<desc, sockfd, pc, args, wire, cut, disconnected>>

-------------------------------------------------------------------------------
(* Accept, Connect, ReadData, Disconnect *)

Accept == /\ pc = "idle"
          /\ sockfd # NoFd /\ desc[sockfd] = "listening"
          /\ \E f \in Fds : /\ IsLowestFree(f)
                            /\ desc' = [desc EXCEPT ![f] = "accepted"]
                            /\ Returns("accept", f)
          /\ UNCHANGED <<sockfd, pc, args, history>>

AcceptFails == /\ pc = "idle"
               /\ Returns("accept", -1)
               /\ UNCHANGED <<desc, sockfd, pc, args, history>>

Connect == /\ pc = "idle"
           /\ sockfd # NoFd /\ desc[sockfd] = "new"
           /\ desc' = [desc EXCEPT ![sockfd] = "connected"]
           /\ Returns("connect", 0)
           /\ UNCHANGED <<sockfd, pc, args, history>>

ConnectFails == /\ pc = "idle"
                /\ Returns("connect", -1)
                /\ UNCHANGED <<desc, sockfd, pc, args, history>>

\* Both methods take a descriptor: sockfd, or what Accept returned.
Targets == {sockfd} \cup {f \in Fds : desc[f] = "accepted"}

\* A descriptor send and recv can work on; after Disconnect, anybody's.
CarriesData(f) == f \in Fds /\ desc[f] \in {"connected", "accepted", "other"}

\* One recv: data, the end, or an error.
ReadData == /\ pc = "idle"
            /\ \/ Returns("read", -1)
               \/ \E f \in Targets, len \in 0 .. 1 : CarriesData(f) /\ Returns("read", len)
            /\ UNCHANGED <<desc, sockfd, pc, args, history>>

\* sockfd > 0 leaves the socket with the number 0 open, and sockfd keeps its
\* value in any case.
Disconnect == /\ pc = "idle"
              /\ desc' = [f \in Fds |-> IF f = sockfd /\ f > 0 THEN "free" ELSE desc[f]]
              /\ disconnected' = TRUE
              /\ Returns("disconnect", 0)
              /\ UNCHANGED <<sockfd, pc, args, wire, cut, again>>

-------------------------------------------------------------------------------
(* WriteData *)

\* No socket (-1), or no buffer (-2).
WriteRefused == /\ pc = "idle"
                /\ \/ sockfd = NoFd /\ Returns("write", -1)
                   \/ Returns("write", -2)
                /\ wire' = <<>>
                /\ UNCHANGED <<desc, sockfd, pc, args, cut, disconnected, again>>

WriteBegins(f, len) == /\ pc = "idle"
                       /\ f # NoFd
                       /\ pc' = "sending"
                       /\ fd' = f /\ dataLen' = len
                       /\ leastLen' = len /\ sendLen' = 0
                       /\ wire' = <<>> /\ cut' = FALSE
                       /\ UNCHANGED <<desc, sockfd, result, disconnected, again>>

\* leastLen becomes a size_t: when it is negative send may take anything.
Asked == IF leastLen > 0 THEN leastLen ELSE dataLen + Behind - sendLen

\* Mutant: buf in place of buf + sendLen.
SendsFromStart(k) ==
  /\ pc = "sending" /\ leastLen # 0
  /\ CarriesData(fd)
  /\ k <= Asked
  /\ sendLen' = sendLen + k
  /\ leastLen' = leastLen - (sendLen + k)
  /\ wire' = wire \o [i \in 1 .. k |-> i]
  /\ cut' = (cut \/ k < leastLen)
  /\ UNCHANGED <<desc, sockfd, pc, fd, dataLen, result, disconnected, again>>

\* leastLen is reduced by all that was sent so far, not by this send.
Sends(k) == /\ pc = "sending" /\ leastLen # 0
            /\ CarriesData(fd)
            /\ k <= Asked
            /\ sendLen' = sendLen + k
            /\ leastLen' = leastLen - (sendLen + k)
            /\ wire' = wire \o [i \in 1 .. k |-> sendLen + i]
            /\ cut' = (cut \/ k < leastLen)
            /\ UNCHANGED <<desc, sockfd, pc, fd, dataLen, result, disconnected, again>>

SendFails == /\ pc = "sending" /\ leastLen # 0
             /\ pc' = "idle"
             /\ Returns("write", -2)
             /\ UNCHANGED <<desc, sockfd, args, history>>

WriteReturns == /\ pc = "sending" /\ leastLen = 0
                /\ pc' = "idle"
                /\ Returns("write", sendLen)
                /\ UNCHANGED <<desc, sockfd, args, history>>

-------------------------------------------------------------------------------
(* The rest of the process *)

OthersOpen == /\ \E f \in Fds : /\ IsLowestFree(f)
                                /\ desc' = [desc EXCEPT ![f] = "other"]
              /\ UNCHANGED <<sockfd, pc, args, result, history>>

\* Also the caller, with what Accept returned, as in test/testSimpleTcpServer.cpp.
OthersClose == /\ \E f \in Fds : /\ desc[f] \in {"other", "accepted"}
                                 /\ desc' = [desc EXCEPT ![f] = "free"]
               /\ UNCHANGED <<sockfd, pc, args, result, history>>

WriteData == \/ WriteRefused
             \/ \E f \in Targets, len \in 0 .. MaxLen : WriteBegins(f, len)
             \/ \E k \in 1 .. MaxLen + Behind : Sends(k)
             \/ SendFails \/ WriteReturns

Next == \/ InitTcpClient \/ InitClientFails \/ InitTcpServer \/ InitServerFails
        \/ Accept \/ AcceptFails \/ Connect \/ ConnectFails \/ ReadData \/ Disconnect
        \/ WriteData
        \/ OthersOpen \/ OthersClose

Spec == Init /\ [][Next]_vars

-------------------------------------------------------------------------------
(* Correctness *)

TypeOK == /\ desc \in [Fds -> {"free", "other", "new", "listening", "connected", "accepted"}]
          /\ sockfd \in Fds \cup {NoFd}
          /\ pc \in {"idle", "sending"}
          /\ fd \in Fds \cup {NoFd}
          /\ dataLen \in Nat /\ leastLen \in Int /\ sendLen \in Nat
          /\ result \in [of : {"none", "init", "accept", "connect", "read", "write",
                               "disconnect"}, value : Int]
          /\ wire \in Seq(Nat)
          /\ cut \in BOOLEAN /\ disconnected \in BOOLEAN /\ again \in BOOLEAN

\* Until Disconnect the number in sockfd is that of the object's own socket,
\* whatever fails and whatever the rest of the process opens and closes.  After
\* it the number is stale, and a second Disconnect closes somebody else's.
HoldsItsOwn == sockfd # NoFd /\ ~disconnected => sockfd \in Own

\* No socket of the object is lost: it has the one in sockfd, and none after
\* Disconnect, except number 0; unless an init was called with a socket open.
NothingLost == ~again => Own \subseteq IF disconnected THEN {0} ELSE {sockfd}

\* WriteData that returns r >= 0 has sent the first r bytes of the buffer and
\* nothing else (r may be less than the length); what lies behind the buffer
\* goes out only in a call of which a send took less than it was given.
WriteIsTrue ==
  /\ result.of = "write" /\ result.value >= 0 /\ pc = "idle"
       => result.value <= dataLen /\ wire = [i \in 1 .. result.value |-> i]
  /\ ~cut => Len(wire) <= dataLen
===============================================================================
