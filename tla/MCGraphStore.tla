---------------------------- MODULE MCGraphStore ----------------------------
(***************************************************************************)
(* Instances of GraphStore for TLC.  The events are those of the tests of  *)
(* ingest.rs: an exec that names its parent only as the source of the      *)
(* edge, a write by the child, the exit of the child, and a process        *)
(* without a token.                                                        *)
(***************************************************************************)
EXTENDS GraphStore

CONSTANTS Argv, ExitStatus

Process(id, args, exit) == [key |-> <<"process", id>>, args |-> args, exit |-> exit]
File(path) == [key |-> <<"file", path>>, args |-> None, exit |-> None]
Edge(src, dst) == [src |-> src, dst |-> dst]

Child == <<"process", "child">>

ExecEvent ==
    [time |-> 1,
     nodes |-> <<Process("child", Argv, None)>>,
     edges |-> <<Edge(<<"process", "parent">>, Child)>>]

WriteEvent ==
    [time |-> 2,
     nodes |-> <<Process("child", None, None), File("f")>>,
     edges |-> <<Edge(Child, <<"file", "f">>)>>]

ExitEvent ==
    [time |-> 3,
     nodes |-> <<Process("child", None, ExitStatus)>>,
     edges |-> <<Edge(Child, Child)>>]

NoTokenEvent ==
    [time |-> 2,
     nodes |-> <<File("f"), Process(NoToken, None, None)>>,
     edges |-> << >>]

MCEvent == {ExecEvent, WriteEvent, ExitEvent, NoTokenEvent}
=============================================================================
