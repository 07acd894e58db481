----------------------------- MODULE ServiceTree -----------------------------
(***************************************************************************)
(* The service tree and the assets bound to its nodes:                      *)
(* web/view_server/api_resource_stree.go and the bind and unbind handlers   *)
(* of api_resource_{ecs,elb,rds,dns}.go.                                    *)
(*                                                                         *)
(* A bind or an unbind request reads the asset with its nodes and then      *)
(* replaces the whole set of nodes (gorm's Association.Replace), so two     *)
(* requests, or a request and the cloud synchronisation, may interleave.    *)
(* The handlers take lists of assets one by one; a request here has one.    *)
(* The callers are allowed to do what they ask for.                         *)
(***************************************************************************)
EXTENDS Integers, FiniteSets

CONSTANTS
  TreeNodes, (* the ids of tree nodes: the database never uses one twice    *)
  Assets,    (* the keys of the rows of machines, load balancers, databases *)
             (* and DNS records                                             *)
  KindOfAsset(_), (* "ecs", "elb", "rds" or "dns"                           *)
  TreeRequests (* the requests that come in                                 *)

Root == 0

ASSUME ServiceTreeAssumption ==
  /\ TreeNodes \subseteq Nat \ {Root}
  /\ "none" \notin Assets
  /\ \A u \in Assets : KindOfAsset(u) \in {"ecs", "elb", "rds", "dns"}

VARIABLES
  rows,   (* the keys of the rows that exist                                *)
  born,   (* the nodes ever created                                         *)
  nodes,  (* the nodes that have a row                                      *)
  pid,    (* the parent of each node                                        *)
  bound,  (* the nodes each row is bound to: resource_stree_bind_*          *)
  req     (* the local variables of the handlers                            *)

treeVars == <<rows, born, nodes, pid, bound, req>>

NoRequest == [op |-> "none", asset |-> "none", node |-> Root, read |-> {}]

Ended == [NoRequest EXCEPT !.op = "ended"]

TreeTypeOK ==
  /\ rows \subseteq Assets
  /\ nodes \subseteq born /\ born \subseteq TreeNodes
  /\ pid \in [TreeNodes -> TreeNodes \cup {Root}]
  /\ bound \in [Assets -> SUBSET nodes]
  /\ \A u \in Assets \ rows : bound[u] = {}
  /\ \A r \in TreeRequests :
       /\ req[r].op \in {"none", "bind", "unbind", "delete", "ended"}
       /\ req[r].op \in {"bind", "unbind"} => req[r].asset \in rows
       /\ req[r].read \subseteq born

TreeInit ==
  /\ rows = {}
  /\ born = {} /\ nodes = {}
  /\ pid = [n \in TreeNodes |-> Root]
  /\ bound = [u \in Assets |-> {}]
  /\ req = [r \in TreeRequests |-> NoRequest]

(* A row goes and takes its bindings along (clause.Associations).  What a   *)
(* request has read of it is of no use: its key is not given out again and  *)
(* the foreign key of the join table refuses it.                            *)
(* Another row of the asset may be left.                                    *)
DropRow(u, another) ==
  /\ rows' = IF another THEN rows ELSE rows \ {u}
  /\ bound' = [bound EXCEPT ![u] = {}]
  /\ req' = [r \in TreeRequests |-> IF req[r].asset = u THEN Ended ELSE req[r]]

-----------------------------------------------------------------------------
(* A node is created under the parent that the caller names, whether it     *)
(* still exists or not.                                                     *)
createStreeNode(n, p) ==
  /\ n \notin born
  /\ p \in born \cup {Root}
  /\ born' = born \cup {n}
  /\ nodes' = nodes \cup {n}
  /\ pid' = [pid EXCEPT ![n] = p]
  /\ UNCHANGED <<rows, bound, req>>

(* An update may move the node; nobody looks whether under itself.          *)
updateStreeNode(n, p) ==
  /\ n \in nodes
  /\ p \in born
  /\ pid' = [pid EXCEPT ![n] = p]
  /\ UNCHANGED <<rows, born, nodes, bound, req>>

(* A node without children may be deleted.                                  *)
deleteStreeNode(r, n) ==
  /\ req[r] = NoRequest
  /\ n \in nodes
  /\ \A c \in nodes : pid[c] # n
  /\ req' = [req EXCEPT ![r] = [NoRequest EXCEPT !.op = "delete", !.node = n]]
  /\ UNCHANGED <<rows, born, nodes, pid, bound>>

(* The delete itself: the children are not looked at again.                 *)
DeleteOne(r) ==
  /\ req[r].op = "delete"
  /\ nodes' = nodes \ {req[r].node}
  /\ bound' = [u \in Assets |-> bound[u] \ {req[r].node}]
  /\ req' = [req EXCEPT ![r] = Ended]
  /\ UNCHANGED <<rows, born, pid>>

(* The nodes of the asset are read, with the new one or without it.         *)
Ask(r, kind, op, u, n) ==
  /\ req[r] = NoRequest
  /\ KindOfAsset(u) = kind
  /\ n \in nodes
  /\ u \in rows
  /\ req' = [req EXCEPT ![r] =
               [op |-> op, asset |-> u, node |-> n, read |-> bound[u]]]
  /\ UNCHANGED <<rows, born, nodes, pid, bound>>

bindEcsToStreeNode(r, u, n)   == Ask(r, "ecs", "bind", u, n)
unBindEcsToStreeNode(r, u, n) == Ask(r, "ecs", "unbind", u, n)
bindElbToStreeNode(r, u, n)   == Ask(r, "elb", "bind", u, n)
unBindElbToStreeNode(r, u, n) == Ask(r, "elb", "unbind", u, n)
bindRdsToStreeNode(r, u, n)   == Ask(r, "rds", "bind", u, n)
unBindRdsToStreeNode(r, u, n) == Ask(r, "rds", "unbind", u, n)
bindDnsToStreeNode(r, u, n)   == Ask(r, "dns", "bind", u, n)
unBindDnsToStreeNode(r, u, n) == Ask(r, "dns", "unbind", u, n)

thisNode(q) == IF q.op = "bind" THEN q.read \cup {q.node} ELSE q.read \ {q.node}

(* The nodes read replace those that are there now.  gorm saves the nodes   *)
(* first: one deleted in between comes back.                                *)
UpdateBindNodes(r) ==
  /\ req[r].op \in {"bind", "unbind"}
  /\ nodes' = nodes \cup thisNode(req[r])
  /\ bound' = [bound EXCEPT ![req[r].asset] = thisNode(req[r])]
  /\ req' = [req EXCEPT ![r] = Ended]
  /\ UNCHANGED <<rows, born, pid>>

TreeNext ==
  \/ \E n \in TreeNodes, p \in TreeNodes \cup {Root} :
       createStreeNode(n, p) \/ updateStreeNode(n, p)
  \/ \E r \in TreeRequests : DeleteOne(r) \/ UpdateBindNodes(r)
  \/ \E r \in TreeRequests, n \in TreeNodes :
       \/ deleteStreeNode(r, n)
       \/ \E u \in rows :
            \/ bindEcsToStreeNode(r, u, n) \/ unBindEcsToStreeNode(r, u, n)
            \/ bindElbToStreeNode(r, u, n) \/ unBindElbToStreeNode(r, u, n)
            \/ bindRdsToStreeNode(r, u, n) \/ unBindRdsToStreeNode(r, u, n)
            \/ bindDnsToStreeNode(r, u, n) \/ unBindDnsToStreeNode(r, u, n)
=============================================================================
