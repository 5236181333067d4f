---------------------------- MODULE MCCollector -----------------------------
(* A machine with two pids, two users and two file names, and a configuration *)
(* of every sort: the defaults, everything, repeated names, and mistakes.     *)
EXTENDS Collector

Store(absolute, parts) == [absolute |-> absolute, parts |-> parts]
Conf(process, file, network, path, batchSize, mutes) ==
    [process |-> process, file |-> file, network |-> network,
     path |-> path, batchSize |-> batchSize, mutes |-> mutes]

Lifecycle == <<"notify_exec", "notify_fork", "notify_exit">>
Files == <<"notify_create", "notify_write", "notify_unlink", "notify_rename">>
Sockets == <<"notify_uipc_bind", "notify_uipc_connect">>

\* config/default.toml: a directory below the working directory.
Default == Conf(Lifecycle, Files, Sockets, Store(FALSE, <<"data", "events.lbug">>),
                500, <<<<"System">>, <<"private", "var", "db">>>>)

\* Everything there is, AUTH included, and the store below a link.
Everything ==
    Conf(Lifecycle \o <<"notify_remote_thread_create", "notify_get_task", "auth_exec">>,
         Files \o <<"notify_open", "notify_close", "auth_open">>, Sockets,
         Store(TRUE, <<"tmp", "data", "events.lbug">>), 1, << >>)

\* Names given twice, in one group and in two, and a prefix that is listed.
Repeated == Conf(<<"notify_fork", "notify_exec", "notify_fork">>,
                 <<"auth_open", "notify_rename", "notify_exec", "notify_create">>, << >>,
                 Store(TRUE, <<"opt", "esgraph", "data", "events.lbug">>), 500,
                 <<<<"opt", "esgraph", "data">>, <<"opt", "esgraph", "data">>>>)

Mistakes ==
    {Conf(<<"not_a_real_event">>, << >>, << >>, Store(TRUE, <<"tmp", "x.graph">>), 500, << >>),
     Conf(Lifecycle, << >>, << >>, Store(TRUE, <<"tmp", "x.graph">>), 0, << >>),
     Conf(Lifecycle, << >>, << >>, Store(FALSE, << >>), 500, << >>)}

\* Nothing to subscribe to; the store is what differs.
Quiet(path) == Conf(<<"notify_exec">>, << >>, << >>, path, 500, << >>)
Stores == {Quiet(Store(FALSE, <<"events.lbug">>)),
           Quiet(Store(TRUE, <<"tmp", "sim", "data", "events.lbug">>))}

\* An exec is asked for and not told of.
AuthOnly == {Conf(<<"auth_exec">>, << >>, << >>, Store(TRUE, <<"tmp", "x.graph">>), 500, << >>)}

MCConfig == {Default, Everything, Repeated} \cup Mistakes
StoreConfig == Stores
MCCwd == <<"opt", "esgraph">>
MCLink == [tmp |-> <<"private", "tmp">>]
MCDirectories == {<< >>, <<"opt">>, <<"opt", "esgraph">>, <<"private">>, <<"private", "tmp">>}
MCSymmetry == Permutations(Pid) \cup Permutations(Name) \cup Permutations(User)

\* Once the client is active the writer's opening of the store changes nothing
\* that the machine or the handler look at: let it come first.
StoreOpened == ops # << >> => writer

MCHome == <<"home">>
=============================================================================
