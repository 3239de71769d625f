--------------------------------- MODULE Legacy -------------------------------
(***************************************************************************)
(* HandleMessage and ServerHandler as the two halves of a loop: what is    *)
(* read goes through handle_incoming_message, connections to origins are   *)
(* opened by initiate_server_connection and forgotten by remove_list_node  *)
(* when they close.  The loop is reconstructed from the headers' comments; *)
(* the repository builds neither file into the proxy.                      *)
(***************************************************************************)
EXTENDS HandleMessage, ServerHandler

VARIABLES
  url_of         \* history: the origin each descriptor is connected to

vars == <<msgVars, listVars, url_of>>

Running == ~ended /\ ~hung

Free(fd) == fd \notin master_fd_set /\ \A g \in Fds : g < fd => g \in master_fd_set

Init ==
  /\ MsgInit /\ ListInit
  /\ url_of = [fd \in Fds |-> NULL]

AcceptClient ==
  /\ Running
  /\ \E fd \in Fds : Free(fd) /\ Accept(fd)
  /\ UNCHANGED <<listVars, url_of>>

\* initiate_server_connection; the caller watches the connection and gives it a
\* buffer, as the proxy's handleClient does.
initiate_server_connection(url) ==
  /\ Running
  /\ \E fd \in Fds :
       /\ Free(fd) /\ Accept(fd) /\ add_node(url, fd)
       /\ url_of' = [url_of EXCEPT ![fd] = url]

Messages == UNION {[1..n -> Bytes \cup {0}] : n \in 1..BUFFSIZE}

Arrive ==
  /\ Running
  /\ \E fd \in Fds, msg \in Messages : Receive(fd, msg)
  /\ UNCHANGED <<listVars, url_of>>

TakeHeader ==
  /\ Running
  /\ \E fd \in Fds, n \in 1..MaxRead : ClearHeader(fd, n)
  /\ UNCHANGED <<listVars, url_of>>

Hangup(fd) ==
  /\ Running
  /\ Closed(fd) /\ remove_list_node(fd)
  /\ url_of' = [url_of EXCEPT ![fd] = NULL]

Next ==
  \/ AcceptClient
  \/ \E url \in Urls : initiate_server_connection(url)
  \/ Arrive
  \/ TakeHeader
  \/ \E fd \in Fds : Hangup(fd)

Spec == Init /\ [][Next]_vars

-------------------------------------------------------------------------------
LegacyTypeOK ==
  /\ master_fd_set \subseteq Fds /\ max_sock \in ListenFd..MaxFd
  /\ \A fd \in Fds : /\ got[fd] \in Seq(Bytes \cup {0})
                     /\ buf_array[fd].buffer \in Seq(Bytes \cup {0, Junk})
  /\ moved \in [Fds -> BOOLEAN] /\ ended \in BOOLEAN /\ hung \in BOOLEAN
  /\ url_of \in [Fds -> Urls \cup {NULL}]

\* As long as the process runs, is_server names the origin a descriptor is connected
\* to now, and none for a client, however often descriptors are reused.
PresentOrigin == Running => \A fd \in Fds : is_server(fd) = url_of[fd]

\* ServerHandler.h says that remove_list_node "Removes a node from the server list":
\* once an origin has closed, the call returns and the list has no node for it.
NodeRemoved ==
  [][\A fd \in Fds : Hangup(fd) => ~hung' /\ First(server_list', fd) = 0]_vars

===============================================================================
