----------------------------- MODULE MCAlgorithms -----------------------------
(* Four algorithms for TLC.  They share no state, so a behaviour exercises   *)
(* one of them while the others have finished.  Of the peer names two       *)
(* differ in their spelling only, and one has two labels, the last of which *)
(* is the name of those.                                                    *)
EXTENDS Addr, Ecn, Names, Retry

MCLabels == {"alice", "Alice", "home", "p2p", "P2P"}
MCLower  == [l \in MCLabels |-> CASE l = "Alice" -> "alice"
                                  [] l = "P2P"   -> "p2p"
                                  [] OTHER       -> l]
MCSuffix == <<"p2p">>
MCPeers  == {<<"Alice">>, <<"alice">>, <<"home", "Alice">>}

AddrDone ==
  /\ input = vpn_subnet(0) /\ signer = 1 /\ rnd = 0
  /\ claim = own /\ pubkey = 2

EcnDone ==
  /\ sent = [version |-> "malformed", ecn |-> NotEct, rest |-> CHOOSE r \in Rest : TRUE,
             checksum |-> 0]
  /\ packet = sent /\ action = "Drop" /\ fill = One

NamesDone ==
  /\ serving = FALSE /\ gone = Peers
  /\ addresses = << >> /\ reachable = [p \in Peers |-> {}]
  /\ query = << >> /\ reply = NotMine

RetryDone == now = 0 /\ ready = 0 /\ pc = "returned" /\ until = 0 /\ result = "Ok"

AlgorithmsInit ==
  \/ AddrInit /\ EcnDone /\ NamesDone /\ RetryDone
  \/ AddrDone /\ EcnInit /\ NamesDone /\ RetryDone
  \/ AddrDone /\ EcnDone /\ NamesInit /\ RetryDone
  \/ AddrDone /\ EcnDone /\ NamesDone /\ RetryInit

AlgorithmsNext ==
  \/ Receive /\ UNCHANGED <<ecnVars, namesVars, retryVars>>
  \/ EcnNext /\ UNCHANGED <<addrVars, namesVars, retryVars>>
  \/ NamesNext /\ UNCHANGED <<addrVars, ecnVars, retryVars>>
  \/ RetryNext /\ UNCHANGED <<addrVars, ecnVars, namesVars>>

AlgorithmsSpec ==
  AlgorithmsInit /\ [][AlgorithmsNext]_<<addrVars, ecnVars, namesVars, retryVars>>
=============================================================================
