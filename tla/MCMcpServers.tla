---------------------------- MODULE MCMcpServers ----------------------------
(* Small instances of McpServers for TLC. *)
EXTENDS McpServers, TLC
CONSTANTS mail, wiki, here, there

Mail == [url |-> here, oauth |-> TRUE]
Wiki == [url |-> there, oauth |-> TRUE]

SomeLists == {mail :> Mail @@ wiki :> None, mail :> Mail @@ wiki :> Wiki,
              mail :> Local @@ wiki :> Mail}

Command(op, name) == [op |-> op, name |-> name, entry |-> None]

SomeCommands ==
  {[op |-> "add", name |-> n, entry |-> e] : n \in {mail, wiki}, e \in {Wiki, Local}}
  \cup {Command(op, n) : op \in {"remove", "auth", "reset"}, n \in {mail, wiki}}
  \cup {Command(op, mail) : op \in {"list", "test", "agent"}}
=============================================================================
