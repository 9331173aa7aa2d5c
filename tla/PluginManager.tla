--------------------------- MODULE PluginManager ---------------------------
(***************************************************************************)
(* services/plugin_framework.py behind services/plugin_registry.py: plugins *)
(* are loaded, switched on and off while calls to them are under way. A    *)
(* call holds the record and the instance it found when it began.          *)
(***************************************************************************)
EXTENDS Naturals, Sequences, FiniteSets

CONSTANTS
  PluginNames, BuiltinPlugins,   \* the built-in ones are there from the start
  PluginCalls,                   \* calls of execute() under way at a time
  MaxRecords,                    \* at most so many records
  MaxStarts,                     \* at most so many executions of one record
  NoCall

ASSUME PluginConstants ==
  /\ BuiltinPlugins \subseteq PluginNames /\ IsFiniteSet(PluginCalls)
  /\ MaxRecords \in Nat \ {0} /\ MaxStarts \in Nat
  /\ NoCall \notin [name : PluginNames, record : Nat, instance : Nat]

PluginStatuses == {"enabled", "disabled", "error"}

VARIABLES
  records,     \* the FaultPlugin objects a name has had; the last is in _plugins
  instances,   \* _instances: with which record the instance came, 0 for none
  calls,       \* what each call under way holds
  lastEvent    \* _event_log: the last entry about each name

pluginVars == <<records, instances, calls, lastEvent>>

Known(n)   == records[n] # <<>>
Newest(n)  == Len(records[n])
Current(n) == records[n][Newest(n)]
RecordCount == Cardinality(UNION {{n} \X DOMAIN records[n] : n \in PluginNames})

\* executions is execution_count. History: calls started, and failed.
Fresh == [status |-> "enabled", executions |-> 0, started |-> 0, failed |-> 0]
--------------------------------------------------------------------------
PluginInit ==
  /\ records = [n \in PluginNames |-> IF n \in BuiltinPlugins THEN <<Fresh>> ELSE <<>>]
  /\ instances = [n \in PluginNames |-> IF n \in BuiltinPlugins THEN 1 ELSE 0]
  /\ calls = [c \in PluginCalls |-> NoCall]
  /\ lastEvent = [n \in PluginNames |-> "none"]

\* The manifests of a directory that can be read: their names get new records
\* and keep the instances they have.
LoadFromDirectory(names) ==
  /\ RecordCount + Cardinality(names) <= MaxRecords
  /\ records' = [n \in PluginNames |-> IF n \in names THEN Append(records[n], Fresh) ELSE records[n]]
  /\ lastEvent' = [n \in PluginNames |-> IF n \in names THEN "loaded" ELSE lastEvent[n]]
  /\ UNCHANGED <<instances, calls>>

\* A class that can be imported and has the interface.
LoadFromEntrypoint(n) ==
  /\ RecordCount < MaxRecords
  /\ records' = [records EXCEPT ![n] = Append(@, Fresh)]
  /\ instances' = [instances EXCEPT ![n] = Newest(n) + 1]
  /\ lastEvent' = [lastEvent EXCEPT ![n] = "loaded"]
  /\ UNCHANGED calls

Enable(n) ==
  /\ Known(n)
  /\ records' = [records EXCEPT ![n][Newest(n)].status = "enabled"]
  /\ lastEvent' = [lastEvent EXCEPT ![n] = "enabled"]
  /\ UNCHANGED <<instances, calls>>

Disable(n) ==
  /\ Known(n)
  /\ records' = [records EXCEPT ![n][Newest(n)].status = "disabled"]
  /\ lastEvent' = [lastEvent EXCEPT ![n] = "disabled"]
  /\ UNCHANGED <<instances, calls>>

\* execute() up to the await. A plugin that is not found or not enabled, and a
\* config its instance refuses, are answered at once and change nothing.
StartExecute(c, n) ==
  /\ calls[c] = NoCall
  /\ Known(n) /\ instances[n] # 0
  /\ Current(n).status = "enabled" /\ Current(n).started < MaxStarts
  /\ calls' = [calls EXCEPT ![c] = [name |-> n, record |-> Newest(n), instance |-> instances[n]]]
  /\ records' = [records EXCEPT ![n][Newest(n)].started = @ + 1]
  /\ UNCHANGED <<instances, lastEvent>>

\* Fault variant: a success clears an earlier error.
ExecuteSucceedsEnabling(c) ==
  /\ calls[c] # NoCall
  /\ records' = [records EXCEPT ![calls[c].name][calls[c].record].executions = @ + 1,
                                ![calls[c].name][calls[c].record].status = "enabled"]
  /\ calls' = [calls EXCEPT ![c] = NoCall]
  /\ UNCHANGED <<instances, lastEvent>>

\* After the await: the record the call holds, replaced or not.
ExecuteSucceeds(c) ==
  /\ calls[c] # NoCall
  /\ records' = [records EXCEPT ![calls[c].name][calls[c].record].executions = @ + 1]
  /\ calls' = [calls EXCEPT ![c] = NoCall]
  /\ UNCHANGED <<instances, lastEvent>>

\* A failure is no event of the registry.
ExecuteFails(c) ==
  /\ calls[c] # NoCall
  /\ records' = [records EXCEPT ![calls[c].name][calls[c].record].status = "error",
                                ![calls[c].name][calls[c].record].failed = @ + 1]
  /\ calls' = [calls EXCEPT ![c] = NoCall]
  /\ UNCHANGED <<instances, lastEvent>>

PluginNext ==
  \/ \E names \in SUBSET PluginNames \ {{}} : LoadFromDirectory(names)
  \/ \E n \in PluginNames : LoadFromEntrypoint(n) \/ Enable(n) \/ Disable(n)
  \/ \E c \in PluginCalls, n \in PluginNames : StartExecute(c, n)
  \/ \E c \in PluginCalls : ExecuteSucceeds(c) \/ ExecuteFails(c)
===========================================================================
