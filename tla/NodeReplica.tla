---------------------------- MODULE NodeReplica ----------------------------
(* What synchronisation promises, whatever fails and however little of it is *)
(* done: the node serves nothing, or one inbound built from the last          *)
(* description it has read of the panel, to users of the last list it has     *)
(* read or of the last it has accepted.  It never changes the description     *)
(* of what it serves, nor gives access by any other list, without having      *)
(* stopped serving in between.                                                *)
EXTENDS Integers

CONSTANTS Nodes, Lists, Down

VARIABLES
    publishedNode, publishedUsers,  \* at the panel
    readNode, readUsers,            \* what the client has last read of them
    acceptedUsers,                  \* the list the node goes by
    served                          \* Down, or a description and its users

panelVars == <<publishedNode, publishedUsers>>
readVars  == <<readNode, readUsers>>
vars      == <<panelVars, readVars, acceptedUsers, served>>

Serving(node, users) == [node |-> node, users |-> users]

Init ==
    /\ publishedNode \in Nodes /\ publishedUsers \in Lists
    /\ readNode = publishedNode
    /\ readUsers = publishedUsers /\ acceptedUsers = publishedUsers
    /\ served = Serving(publishedNode, publishedUsers)

Publish ==
    /\ publishedNode' \in Nodes /\ publishedUsers' \in Lists
    /\ UNCHANGED <<readVars, acceptedUsers, served>>

ReadNode ==
    /\ readNode' = publishedNode
    /\ UNCHANGED <<panelVars, readUsers, acceptedUsers, served>>

ReadUsers ==
    /\ readUsers' = publishedUsers
    /\ UNCHANGED <<panelVars, readNode, acceptedUsers, served>>

Stop ==
    /\ served' = Down
    /\ UNCHANGED <<panelVars, readVars, acceptedUsers>>

Start ==
    /\ served = Down
    /\ served' = Serving(readNode, {})
    /\ UNCHANGED <<panelVars, readVars, acceptedUsers>>

Accept == acceptedUsers' \in {acceptedUsers, readUsers}

Grant ==
    /\ IF served = Down THEN served' = Down
       ELSE \E U \in SUBSET (readUsers \cup acceptedUsers) :
              served' = Serving(served.node, served.users \cup U)
    /\ Accept
    /\ UNCHANGED <<panelVars, readVars>>

Revoke ==
    /\ served # Down
    /\ \E U \in SUBSET served.users :
          served' = Serving(served.node, served.users \ U)
    /\ UNCHANGED <<panelVars, readVars, acceptedUsers>>

Next == \/ Publish \/ ReadNode \/ ReadUsers \/ Stop \/ Start \/ Grant \/ Revoke

Spec == Init /\ [][Next]_vars
=============================================================================
