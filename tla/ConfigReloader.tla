--------------------------- MODULE ConfigReloader ---------------------------
(***************************************************************************)
(* core/config_reloader.py: a thread that hashes the configuration file,   *)
(* loads it when the hash is new, swaps the settings and calls back. The   *)
(* file changes at any time. A watcher that a stop() did not wait out      *)
(* lives on beside the next one.                                           *)
(***************************************************************************)
EXTENDS Naturals, FiniteSets

CONSTANTS
  Watchers,
  Sections,          \* of the configuration, with one value each
  Environment,       \* the values the process starts with
  Contents,          \* of the file: [good, sets], sets the sections it names
  MaxWrites,         \* at most so many changes of the file
  NoFile, Nothing

ASSUME ConfigConstants ==
  /\ Environment \in [Sections -> {Environment[s] : s \in Sections}]
  /\ \A content \in Contents : content.good \in BOOLEAN /\ DOMAIN content.sets \subseteq Sections
  /\ NoFile \notin Contents /\ Nothing \notin Contents \cup {NoFile} /\ MaxWrites \in Nat

VARIABLES
  file,
  hash,        \* _hash: no two contents have the same
  settings,    \* config.settings
  told,        \* what the callback of each section was last given
  watcher,     \* where each thread is, what it has seen, and its new and old settings
  control,     \* the caller of start() and stop(): "stopped", "running" or "joining"
  thread,      \* _thread
  running,     \* _running
  writes,
  applied,     \* history: what the last load read
  doubled      \* history: whether two watchers ran at a time

configVars == <<file, hash, settings, told, watcher, control, thread, running, writes, applied, doubled>>

Off == [at |-> "off", seen |-> Nothing, new |-> Environment, old |-> Environment]
Idle == [Off EXCEPT !.at = "idle"]
Sleep(w) == watcher' = [watcher EXCEPT ![w] = Idle]
Alive(w) == watcher[w].at # "off"

Merge(base, sets) == [s \in Sections |-> IF s \in DOMAIN sets THEN sets[s] ELSE base[s]]
--------------------------------------------------------------------------
\* Somebody saves, truncates or deletes the file.
WriteFile(content) ==
  /\ writes < MaxWrites /\ content # file
  /\ file' = content
  /\ writes' = writes + 1
  /\ UNCHANGED <<hash, settings, told, watcher, control, thread, running, applied, doubled>>

Start(w) ==
  /\ control = "stopped" /\ ~Alive(w)
  /\ control' = "running" /\ running' = TRUE /\ thread' = w
  /\ Sleep(w)
  /\ doubled' = (doubled \/ \E v \in Watchers : Alive(v))
  /\ UNCHANGED <<file, hash, settings, told, writes, applied>>

\* stop() waits ten seconds. A watcher sleeps for five, so only one that was at
\* work when it was told can outlast them.
Stop ==
  /\ control = "running"
  /\ running' = FALSE
  /\ control' = IF watcher[thread].at = "idle" THEN "joining" ELSE "joining_busy"
  /\ UNCHANGED <<file, hash, settings, told, watcher, thread, writes, applied, doubled>>

StopReturns ==
  /\ control \in {"joining", "joining_busy"}
  /\ ~Alive(thread) \/ control = "joining_busy"
  /\ control' = "stopped" /\ thread' = Nothing
  /\ UNCHANGED <<file, hash, settings, told, watcher, running, writes, applied, doubled>>
--------------------------------------------------------------------------
Exit(w) ==
  /\ watcher[w].at = "idle" /\ ~running
  /\ watcher' = [watcher EXCEPT ![w] = Off]
  /\ UNCHANGED <<file, hash, settings, told, control, thread, running, writes, applied, doubled>>

ComputeHash(w) ==
  /\ watcher[w].at = "idle" /\ running
  /\ watcher' = [watcher EXCEPT ![w].at = "hashed", ![w].seen = file]
  /\ UNCHANGED <<file, hash, settings, told, control, thread, running, writes, applied, doubled>>

\* The new hash is kept before the file is loaded.
CheckAndReload(w) ==
  /\ watcher[w].at = "hashed"
  /\ hash' = watcher[w].seen
  /\ watcher' = [watcher EXCEPT ![w] = IF @.seen = hash THEN Idle ELSE [Off EXCEPT !.at = "loading"]]
  /\ UNCHANGED <<file, settings, told, control, thread, running, writes, applied, doubled>>

\* _load_config takes the settings first: what another watcher swaps in from
\* here on is lost to the swap of this one.
TakeSettings(w) ==
  /\ watcher[w].at = "loading"
  /\ watcher' = [watcher EXCEPT ![w] = [Off EXCEPT !.at = "reading", !.new = settings]]
  /\ UNCHANGED <<file, hash, settings, told, control, thread, running, writes, applied, doubled>>

\* Then the file is read again. What it does not name keeps its value; without a
\* file everything does; one that cannot be parsed is left until it changes.
LoadConfig(w) ==
  /\ watcher[w].at = "reading"
  /\ applied' = file
  /\ watcher' = [watcher EXCEPT ![w] =
       IF file = NoFile   THEN [@ EXCEPT !.at = "loaded"]
       ELSE IF file.good  THEN [@ EXCEPT !.at = "loaded", !.new = Merge(watcher[w].new, file.sets)]
       ELSE Idle]
  /\ UNCHANGED <<file, hash, settings, told, control, thread, running, writes, doubled>>

\* Fault variant: the old settings are read after the swap.
SwapThenRead(w) ==
  /\ watcher[w].at = "loaded"
  /\ settings' = watcher[w].new
  /\ watcher' = [watcher EXCEPT ![w].at = "telling", ![w].old = settings']
  /\ UNCHANGED <<file, hash, told, control, thread, running, writes, applied, doubled>>

\* _notify, under its lock.
Swap(w) ==
  /\ watcher[w].at = "loaded"
  /\ settings' = watcher[w].new
  /\ watcher' = [watcher EXCEPT ![w].at = "telling", ![w].old = settings]
  /\ UNCHANGED <<file, hash, told, control, thread, running, writes, applied, doubled>>

\* _notify, after it: the callbacks of the sections that changed. One that
\* raises does not keep the others from being called.
Notify(w) ==
  /\ watcher[w].at = "telling"
  /\ told' = [s \in Sections |-> IF watcher[w].old[s] # watcher[w].new[s] THEN watcher[w].new[s] ELSE told[s]]
  /\ Sleep(w)
  /\ UNCHANGED <<file, hash, settings, control, thread, running, writes, applied, doubled>>

\* The file there is when the reloader is made is hashed and not loaded.
ConfigInit ==
  /\ file \in Contents \cup {NoFile} /\ hash = file
  /\ settings = Environment /\ told = Environment
  /\ watcher = [w \in Watchers |-> Off]
  /\ control = "stopped" /\ thread = Nothing /\ running = FALSE
  /\ writes = 0
  /\ applied = Nothing /\ doubled = FALSE

ConfigNext ==
  \/ \E content \in Contents \cup {NoFile} : WriteFile(content)
  \/ Stop \/ StopReturns
  \/ \E w \in Watchers :
       \/ Start(w) \/ Exit(w) \/ ComputeHash(w) \/ CheckAndReload(w)
       \/ TakeSettings(w) \/ LoadConfig(w) \/ Swap(w) \/ Notify(w)
===========================================================================
