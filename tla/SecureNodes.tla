------------------------------ MODULE SecureNodes -----------------------------
(***************************************************************************)
(* The secureNodeList of proxy.c: the tunnels opened for CONNECT requests, *)
(* an array of pairs of descriptors that is searched from its start.       *)
(***************************************************************************)
EXTENDS ProxyBase

VARIABLE secure_list    \* node_list->nodes, its first node_list->length

Node == [client_fd : Fds, server_fd : Fds]

SecureInit == secure_list = <<>>

Involves(node, fd) == fd \in {node.client_fd, node.server_fd}

Tunnels(fd) == {i \in DOMAIN secure_list : Involves(secure_list[i], fd)}

\* The other end of a node; server_fd is compared first.
OtherEnd(node, fd) ==
  IF fd = node.server_fd THEN node.client_fd ELSE node.server_fd

\* findNodeBySockfd returns dest: the other end in the first node, or 0.
FindNode(fd, dest) ==
  \/ Tunnels(fd) = {} /\ dest = 0
  \/ \E i \in Tunnels(fd) :
       /\ \A j \in Tunnels(fd) : i <= j
       /\ dest = OtherEnd(secure_list[i], fd)

InsertSecureNode(client, server) ==
  secure_list' = Append(secure_list, [client_fd |-> client, server_fd |-> server])

\* Mutant of DeleteSecureNode: only the tunnels a client closes are deleted.
DeleteClientNode(sockfd) ==
  secure_list' = SelectSeq(secure_list, LAMBDA node : node.client_fd # sockfd)

(***************************************************************************)
(* deleteSecureNode picks the last node of sockfd, copies it over every    *)
(* node after it, and frees the last one.                                  *)
(***************************************************************************)
DeleteSecureNode(sockfd) ==
  IF Tunnels(sockfd) = {} THEN UNCHANGED secure_list
  ELSE \E d \in Tunnels(sockfd) :
         /\ \A j \in Tunnels(sockfd) : j <= d
         /\ secure_list' = [i \in 1..(Len(secure_list) - 1) |->
                              IF i <= d THEN secure_list[i] ELSE secure_list[d]]

------------------------------------------------------------------------------
\* Every node is a pair of connections' descriptors.
SecureTypeOK == secure_list \in Seq(Node)

==============================================================================
