------------------------------- MODULE Events -------------------------------
(***************************************************************************)
(* The event registry.  One kind of event has three names: the one a       *)
(* configuration gives it, the EsEventName it parses to, and the type      *)
(* Endpoint Security knows (ES_EVENT_TYPE_ is left out here).  The code    *)
(* keeps a table for each step, written by hand; so does this module, for  *)
(* an event is stored under the name that comes out at the far end.        *)
(***************************************************************************)

\* EsEventName::from_str: a name outside the domain is an error.
FromStr ==
    [notify_exec                 |-> "NotifyExec",
     notify_fork                 |-> "NotifyFork",
     notify_exit                 |-> "NotifyExit",
     notify_remote_thread_create |-> "NotifyRemoteThreadCreate",
     notify_get_task             |-> "NotifyGetTask",
     auth_exec                   |-> "AuthExec",
     notify_create               |-> "NotifyCreate",
     notify_write                |-> "NotifyWrite",
     notify_unlink               |-> "NotifyUnlink",
     notify_rename               |-> "NotifyRename",
     notify_open                 |-> "NotifyOpen",
     notify_close                |-> "NotifyClose",
     auth_open                   |-> "AuthOpen",
     notify_uipc_bind            |-> "NotifyUipcBind",
     notify_uipc_connect         |-> "NotifyUipcConnect"]

AllNames == DOMAIN FromStr

\* es_event_name_to_type.
EsType ==
    [NotifyExec               |-> "NOTIFY_EXEC",
     NotifyFork               |-> "NOTIFY_FORK",
     NotifyExit               |-> "NOTIFY_EXIT",
     NotifyRemoteThreadCreate |-> "NOTIFY_REMOTE_THREAD_CREATE",
     NotifyGetTask            |-> "NOTIFY_GET_TASK",
     AuthExec                 |-> "AUTH_EXEC",
     NotifyCreate             |-> "NOTIFY_CREATE",
     NotifyWrite              |-> "NOTIFY_WRITE",
     NotifyUnlink             |-> "NOTIFY_UNLINK",
     NotifyRename             |-> "NOTIFY_RENAME",
     NotifyOpen               |-> "NOTIFY_OPEN",
     NotifyClose              |-> "NOTIFY_CLOSE",
     AuthOpen                 |-> "AUTH_OPEN",
     NotifyUipcBind           |-> "NOTIFY_UIPC_BIND",
     NotifyUipcConnect        |-> "NOTIFY_UIPC_CONNECT"]

\* es_type_to_event_name: a type outside the domain is None.
EventNameOf ==
    [NOTIFY_EXEC                 |-> "notify_exec",
     NOTIFY_FORK                 |-> "notify_fork",
     NOTIFY_EXIT                 |-> "notify_exit",
     NOTIFY_REMOTE_THREAD_CREATE |-> "notify_remote_thread_create",
     NOTIFY_GET_TASK             |-> "notify_get_task",
     AUTH_EXEC                   |-> "auth_exec",
     NOTIFY_CREATE               |-> "notify_create",
     NOTIFY_WRITE                |-> "notify_write",
     NOTIFY_UNLINK               |-> "notify_unlink",
     NOTIFY_RENAME               |-> "notify_rename",
     NOTIFY_OPEN                 |-> "notify_open",
     NOTIFY_CLOSE                |-> "notify_close",
     AUTH_OPEN                   |-> "auth_open",
     NOTIFY_UIPC_BIND            |-> "notify_uipc_bind",
     NOTIFY_UIPC_CONNECT         |-> "notify_uipc_connect"]
=============================================================================
