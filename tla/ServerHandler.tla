----------------------------- MODULE ServerHandler ----------------------------
(***************************************************************************)
(* ServerHandler.c, the list of origins the proxy had before serverNode.   *)
(***************************************************************************)
EXTENDS Integers, Sequences, SequencesExt

CONSTANTS Urls, NULL

ASSUME ServerHandlerAssumption == NULL \notin Urls

VARIABLES
  server_list,   \* the nodes in order, [sockfd, url]
  hung           \* remove_list_node does not return

listVars == <<server_list, hung>>

\* create_server_list: a head that stands for no connection.
create_server_list == <<[sockfd |-> -1, url |-> NULL]>>

ListInit == server_list = create_server_list /\ hung = FALSE

First(list, fd) == SelectInSeq(list, LAMBDA node : node.sockfd = fd)

\* add_node: behind the last one.
add_node(url, sockfd) ==
  server_list' = Append(server_list, [sockfd |-> sockfd, url |-> url]) /\ UNCHANGED hung

\* Mutant of remove_list_node: the node stays.
remove_nothing(sockfd) == UNCHANGED listVars

(***************************************************************************)
(* A node that is found is not stepped over.  The last node is found for   *)
(* ever.  Any other one is unlinked and freed, and then read again: what   *)
(* it holds then decides whether it is passed, freed a second time, which  *)
(* ends the process, or found for ever.                                    *)
(***************************************************************************)
remove_list_node(sockfd) ==
  LET at == First(server_list, sockfd) IN
  \/ at = 0 /\ UNCHANGED listVars
  \/ at # 0 /\ hung' = TRUE /\ UNCHANGED server_list
  \/ /\ at # 0 /\ at < Len(server_list)
     /\ server_list' = RemoveAt(server_list, at) /\ UNCHANGED hung

is_server(sockfd) ==
  LET at == First(server_list, sockfd)
  IN  IF at = 0 THEN NULL ELSE server_list[at].url

===============================================================================
