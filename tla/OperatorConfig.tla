--------------------------- MODULE OperatorConfig ---------------------------
(***************************************************************************)
(* How the configuration file, the configuration in memory and the stored  *)
(* keys are kept in step (plug-core/src/engine.rs, operator.rs,            *)
(* secrets/mod.rs, watcher.rs).                                            *)
(*                                                                         *)
(* An operator change runs under reload_lock: the key typed into the       *)
(* server is put in the key store, the file is read, changed and replaced, *)
(* the new file is loaded and applied, and keys nobody refers to are       *)
(* removed; a refused change puts the key back.  Reloads (the IPC request  *)
(* and the file watcher) load the file BEFORE they wait for the lock.  The *)
(* command line (`plug tools disable`, commands/tools.rs) is another       *)
(* process: it reads the file, asks the user, and later truncates and      *)
(* rewrites the file in place, without any lock.                           *)
(*                                                                         *)
(* A server's entry is abstracted to its credential.  The key made for     *)
(* server s is named s: name_for gives two servers two names.              *)
(***************************************************************************)
EXTENDS Naturals, Sequences, FiniteSets

CONSTANTS
    Servers,     \* server names
    CopyOf,      \* the account copies among them, each with its base server
    Values,      \* what a person types as a key
    ChanCap,     \* room in the watcher's channel (16 in the code)
    MaxChanges,  \* bound: operator changes asked for
    MaxReloads,  \* bound: IPC reloads asked for
    MaxSaves,    \* bound: saves by the command line
    MaxTrouble,  \* bound: store and disk failures, daemon crashes, and
                 \* events for other files of the directory, together
    MaxEvents    \* bound: all of these together

\* A key name that holds no value.
Nothing == "nothing"

ASSUME ConstantsAssumption ==
    /\ Servers # {} /\ Nothing \notin Values
    /\ DOMAIN CopyOf \subseteq Servers
    /\ \A c \in DOMAIN CopyOf : CopyOf[c] \in Servers \ {c}
    /\ ChanCap \in Nat \ {0}
    /\ {MaxChanges, MaxReloads, MaxSaves, MaxTrouble, MaxEvents}
           \subseteq Nat
    /\ Values # {}

VARIABLES
    file,      \* config.toml: a configuration, or Torn while half written
    mem,       \* Engine.config
    store,     \* the key store: what each key name holds
    queue,     \* reload_lock's waiters, first come first served
    job,       \* what holds reload_lock
    cli,       \* the command line between its read and its write
    daemon,    \* "down", "blind" (the watch is not armed yet) or "up"
    dirty,     \* a write of the file waits in the debouncer
    chan,      \* the watcher's channel
    accepted,  \* history: the value last accepted for each key
    spoiled,   \* history: keys whose undo failed or was cut short
    crossed,   \* history: keys of servers the command line saved mid-change
    missed,    \* history: a write no watcher event is under way for
    used       \* how much of each bound is spent

configVars == <<file, mem, store, queue, job, cli, daemon, dirty, chan,
                accepted, spoiled, crossed, missed, used>>

NoKey == [none |-> TRUE]
Redacted == [redacted |-> TRUE]
Torn == [torn |-> TRUE]
Idle == [pc |-> "idle"]

Key(s) == [key |-> s]
Text(v) == [text |-> v]
IsText(ref) == ref \in {Text(v) : v \in Values}
Refs == {Key(s) : s \in Servers} \cup {Text(v) : v \in Values} \cup {NoKey}

Entries == UNION {[S -> Refs] : S \in SUBSET Servers}
Configs == [servers : Entries, misc : BOOLEAN]

\* An empty file parses: it is the default configuration.
Default == [servers |-> <<>>, misc |-> FALSE]

KeysOf(config) ==
    {s \in Servers : \E t \in DOMAIN config.servers : config.servers[t] = Key(s)}

FileKeys == IF file = Torn THEN {} ELSE KeysOf(file)

With(config, s, ref) ==
    [config EXCEPT !.servers =
        [t \in DOMAIN config.servers \cup {s} |->
            IF t = s THEN ref ELSE config.servers[t]]]

ServersWithout(config, s) ==
    [config EXCEPT !.servers =
        [t \in DOMAIN config.servers \ {s} |-> config.servers[t]]]

\* restore_redacted_secrets: an untouched key is what the file holds for it.
Restored(ref, config, s) ==
    IF ref # Redacted THEN ref
    ELSE IF s \in DOMAIN config.servers THEN config.servers[s]
    ELSE NoKey

Mutations ==
    [op : {"add"}, name : Servers, ref : {NoKey} \cup {Text(v) : v \in Values}]
        \cup
    [op : {"update"}, name : Servers,
        ref : {NoKey, Redacted} \cup {Text(v) : v \in Values}]
        \cup
    [op : {"remove"}, name : Servers, ref : {NoKey}]
        \cup
    [op : {"account"}, name : DOMAIN CopyOf, ref : {NoKey}]
        \cup
    [op : {"toggle"}, name : {CHOOSE t \in Servers : TRUE}, ref : {NoKey}]

Waiters == [by : {"change"}] \cup [by : {"ipc", "watcher"}, reload : Configs]

Spend(field, bound) ==
    /\ used[field] < bound
    /\ used.changes + used.reloads + used.saves + used.trouble < MaxEvents
    /\ used' = [used EXCEPT ![field] = @ + 1]

Trouble == Spend("trouble", MaxTrouble)

(***************************************************************************)
(* The file and who hears of a write                                       *)
(***************************************************************************)

\* Every write marks the file for the debouncer of an armed watch.
Written(content) ==
    /\ file' = content
    /\ dirty' = (dirty \/ daemon = "up")
    /\ missed' = (missed \/ daemon = "blind")

MidSave == cli.pc \in {"truncated", "torn"}

\* persist_config_atomic gives the name a new inode: what the command line
\* still writes goes to the old one.
Renamed(content) ==
    /\ Written(content)
    /\ cli' = IF MidSave THEN [cli EXCEPT !.linked = FALSE] ELSE cli

(***************************************************************************)
(* The lock                                                                *)
(***************************************************************************)

\* What is asked for is chosen when the lock is taken: nobody looks at it
\* before.
AskChange ==
    /\ daemon # "down" /\ Spend("changes", MaxChanges)
    /\ queue' = Append(queue, [by |-> "change"])
    /\ UNCHANGED <<file, mem, store, job, cli, daemon, dirty, chan, accepted,
                   spoiled, crossed, missed>>

\* IpcRequest::Reload loads the file and then waits.
AskReload ==
    /\ daemon # "down" /\ Spend("reloads", MaxReloads) /\ file # Torn
    /\ queue' = Append(queue, [by |-> "ipc", reload |-> file])
    /\ UNCHANGED <<file, mem, store, job, cli, daemon, dirty, chan, accepted,
                   spoiled, crossed, missed>>

\* The lock is free and a change is its first waiter.  It reads the file to
\* compare with later, remembers the server as memory has it, and restores
\* the key the client left untouched.
BeginChange(m) ==
    /\ job = Idle /\ queue # <<>> /\ Head(queue).by = "change"
    /\ queue' = Tail(queue)
    /\ job' = [pc |-> "stage", by |-> "change", op |-> m.op, name |-> m.name,
               ref |-> IF m.op = "update" /\ file # Torn
                       THEN Restored(m.ref, file, m.name) ELSE m.ref,
               seen |-> file,
               was |-> IF m.op \in {"update", "remove"}
                             /\ m.name \in DOMAIN mem.servers
                       THEN mem.servers[m.name] ELSE NoKey,
               staged |-> <<>>, next |-> Default]
    /\ crossed' = IF MidSave THEN crossed \cup KeysOf(cli.config) ELSE crossed
    /\ UNCHANGED <<file, mem, store, cli, daemon, dirty, chan, accepted,
                   spoiled, missed, used>>

\* The first waiter is a reload: it brings the configuration it loaded.
BeginReload ==
    /\ job = Idle /\ queue # <<>> /\ Head(queue).by # "change"
    /\ queue' = Tail(queue)
    /\ job' = [pc |-> "apply", by |-> Head(queue).by,
               next |-> Head(queue).reload]
    /\ UNCHANGED <<file, mem, store, cli, daemon, dirty, chan, accepted,
                   spoiled, crossed, missed, used>>

(***************************************************************************)
(* One operator change                                                     *)
(***************************************************************************)

Step(pc) == job' = [job EXCEPT !.pc = pc]

\* keep_staged: a typed key goes to the store and the entry refers to it.
KeepStaged ==
    /\ job.pc = "stage" /\ IsText(job.ref)
    /\ store' = [store EXCEPT ![job.name] = job.ref.text]
    /\ job' = [job EXCEPT !.pc = "read", !.ref = Key(job.name),
                          !.staged = <<store[job.name]>>]
    /\ UNCHANGED used

\* Nothing was typed, or the store cannot be read or written: the key stays
\* in the configuration file.
StageNothing ==
    /\ job.pc = "stage"
    /\ \/ ~IsText(job.ref) /\ UNCHANGED used
       \/ IsText(job.ref) /\ Trouble
    /\ Step("read")
    /\ UNCHANGED store

Stage ==
    /\ KeepStaged \/ StageNothing
    /\ UNCHANGED <<file, mem, queue, cli, daemon, dirty, chan, accepted,
                   spoiled, crossed, missed>>

\* Whether the mutation applies to the file as read.
Applies(config) ==
    CASE job.op = "add" -> job.name \notin DOMAIN config.servers
      [] job.op \in {"update", "remove"} -> job.name \in DOMAIN config.servers
      [] job.op = "account" -> /\ CopyOf[job.name] \in DOMAIN config.servers
                               /\ job.name \notin DOMAIN config.servers
      [] OTHER -> TRUE

Mutated(config) ==
    CASE job.op = "add" -> With(config, job.name, job.ref)
      [] job.op = "update" ->
             With(config, job.name, Restored(job.ref, config, job.name))
      [] job.op = "remove" -> ServersWithout(config, job.name)
      [] job.op = "account" ->
             With(config, job.name, config.servers[CopyOf[job.name]])
      [] OTHER -> [config EXCEPT !.misc = ~@]

\* apply_operator_mutation_knowing up to the save.  A draft that does not
\* validate is refused as one that does not apply.
ReadAndMutate ==
    /\ job.pc = "read"
    /\ \/ /\ file # Torn /\ Applies(file)
          /\ job' = [job EXCEPT !.pc = "persist", !.next = Mutated(file)]
       \/ /\ \/ file = Torn
             \/ file # Torn /\ ~Applies(file)
             \/ job.op \in {"add", "update"}
          /\ Step("refused")
    /\ UNCHANGED <<file, mem, store, queue, cli, daemon, dirty, chan,
                   accepted, spoiled, crossed, missed, used>>

\* The value a saved change leaves behind its key is accepted.
Accept ==
    IF job.staged = <<>> THEN UNCHANGED <<accepted, spoiled, crossed>>
    ELSE /\ accepted' = [accepted EXCEPT ![job.name] = store[job.name]]
         /\ spoiled' = spoiled \ {job.name}
         /\ crossed' = crossed \ {job.name}

\* persist_config_atomic: the rename can fail, and so can the permissions or
\* the sync of the directory once the new file is in place.
PersistConfigAtomic ==
    /\ job.pc = "persist"
    /\ \/ /\ Renamed(job.next) /\ Step("load") /\ Accept /\ UNCHANGED used
       \/ /\ Trouble /\ Step("refused")
          /\ Renamed(job.next)
          /\ UNCHANGED <<accepted, spoiled, crossed>>
       \/ /\ Trouble /\ Step("refused")
          /\ UNCHANGED <<file, dirty, missed, cli, accepted, spoiled, crossed>>
    /\ UNCHANGED <<mem, store, queue, daemon, chan>>

\* On an error the file is compared with the one read first: a file that
\* differs is taken for the saved change, whose references need their keys.
Verdict ==
    /\ job.pc = "refused"
    /\ IF file # job.seen
       THEN /\ job' = Idle
            /\ IF file = job.next THEN Accept
               ELSE /\ crossed' = IF job.staged = <<>> THEN crossed
                                  ELSE crossed \cup {job.name}
                    /\ UNCHANGED <<accepted, spoiled>>
       ELSE /\ Step("undo")
            /\ UNCHANGED <<accepted, spoiled, crossed>>
    /\ UNCHANGED <<file, mem, store, queue, cli, daemon, dirty, chan, missed,
                   used>>

\* put_back: the key holds again what it held, unless the store fails.
PutBack ==
    /\ job.pc = "undo"
    /\ job' = Idle
    /\ \/ /\ store' = IF job.staged = <<>> THEN store
                      ELSE [store EXCEPT ![job.name] = job.staged[1]]
          /\ UNCHANGED <<spoiled, used>>
       \/ /\ job.staged # <<>> /\ Trouble
          /\ spoiled' = spoiled \cup {job.name}
          /\ UNCHANGED store
    /\ UNCHANGED <<file, mem, queue, cli, daemon, dirty, chan, accepted,
                   crossed, missed>>

\* The saved file is loaded again; a failure ends the change there.
LoadConfig ==
    /\ job.pc = "load"
    /\ job' = IF file = Torn THEN Idle
              ELSE [job EXCEPT !.pc = "apply", !.next = file]
    /\ UNCHANGED <<file, mem, store, queue, cli, daemon, dirty, chan,
                   accepted, spoiled, crossed, missed, used>>

\* apply_reload swaps the configuration; a reload is then done, a change
\* goes on to forget.
ApplyReload ==
    /\ job.pc = "apply"
    /\ mem' = job.next
    /\ IF job.by = "change" THEN Step("forget") ELSE job' = Idle
    /\ UNCHANGED <<file, store, queue, cli, daemon, dirty, chan, accepted,
                   spoiled, crossed, missed, used>>

\* The names forget looks at: the server's own and, for a copy, its base's.
Owners(s) == {s} \cup (IF s \in DOMAIN CopyOf THEN {CopyOf[s]} ELSE {})

\* Mutant: the key goes whoever else refers to it.
ForgottenAnyway == {k \in Owners(job.name) : job.was = Key(k)}

\* The key the server referred to goes when no server in memory still does.
Forgotten ==
    {k \in Owners(job.name) : job.was = Key(k) /\ k \notin KeysOf(mem)}

\* forget; a store that fails keeps the key.
Forget ==
    /\ job.pc = "forget"
    /\ job' = Idle
    /\ \/ /\ store' = [k \in Servers |->
                          IF k \in Forgotten THEN Nothing ELSE store[k]]
          /\ UNCHANGED used
       \/ /\ Forgotten # {} /\ Trouble
          /\ UNCHANGED store
    /\ UNCHANGED <<file, mem, queue, cli, daemon, dirty, chan, accepted,
                   spoiled, crossed, missed>>

(***************************************************************************)
(* The file watcher                                                        *)
(***************************************************************************)

Recorded(path) ==
    IF Len(chan) < ChanCap THEN Append(chan, path) ELSE chan

\* The debouncer fires: try_send, and a full channel drops the event.
Debounce ==
    /\ daemon = "up" /\ dirty
    /\ dirty' = FALSE
    /\ chan' = Recorded("config")
    /\ missed' = ("config" \notin {chan'[i] : i \in 1..Len(chan')})
    /\ UNCHANGED <<file, mem, store, queue, job, cli, daemon, accepted,
                   spoiled, crossed, used>>

\* Other files of the directory share the channel.
Noise ==
    /\ daemon = "up" /\ Trouble
    /\ chan' = Recorded("other")
    /\ UNCHANGED <<file, mem, store, queue, job, cli, daemon, dirty,
                   accepted, spoiled, crossed, missed>>

\* The watcher waits for the reload it asked for before it takes another
\* event.
WatcherBusy ==
    \/ \E i \in 1..Len(queue) :
           queue[i].by = "watcher"
    \/ job # Idle /\ job.by = "watcher"

\* Mutant: an event that finds the lock taken is dropped, for
\* its holder will load the file.
WatcherTakeIfFree ==
    /\ daemon = "up" /\ chan # <<>> /\ ~WatcherBusy
    /\ chan' = Tail(chan)
    /\ queue' = IF Head(chan) = "config" /\ file # Torn /\ job = Idle
                THEN Append(queue, [by |-> "watcher", reload |-> file])
                ELSE queue
    /\ UNCHANGED <<file, mem, store, job, cli, daemon, dirty, accepted,
                   spoiled, crossed, missed, used>>

\* An event for another file, or for a file that does not load, is dropped;
\* any other loads the file and waits for the lock.
WatcherTake ==
    /\ daemon = "up" /\ chan # <<>> /\ ~WatcherBusy
    /\ chan' = Tail(chan)
    /\ queue' = IF Head(chan) = "config" /\ file # Torn
                THEN Append(queue, [by |-> "watcher", reload |-> file])
                ELSE queue
    /\ UNCHANGED <<file, mem, store, job, cli, daemon, dirty, accepted,
                   spoiled, crossed, missed, used>>

(***************************************************************************)
(* The command line                                                        *)
(***************************************************************************)

\* cmd_tool_disable and cmd_tool_enable read the file and ask the user.
CliLoad ==
    /\ cli.pc = "idle" /\ Spend("saves", MaxSaves) /\ file # Torn
    /\ cli' = [pc |-> "loaded", config |-> [file EXCEPT !.misc = ~@],
               linked |-> FALSE]
    /\ UNCHANGED <<file, mem, store, queue, job, daemon, dirty, chan,
                   accepted, spoiled, crossed, missed>>

\* save_config opens the file with truncate.
CliTruncate ==
    /\ cli.pc = "loaded"
    /\ cli' = [cli EXCEPT !.pc = "truncated", !.linked = TRUE]
    /\ Written(Default)
    /\ crossed' = IF \/ file # [cli.config EXCEPT !.misc = ~@]
                     \/ job # Idle /\ job.by = "change"
                  THEN crossed \cup KeysOf(cli.config) ELSE crossed
    /\ UNCHANGED <<mem, store, queue, job, daemon, chan, accepted, spoiled,
                   used>>

\* write_all: a reader may find the text half written.
CliWrite ==
    /\ MidSave
    /\ \/ /\ cli.pc = "truncated"
          /\ cli' = [cli EXCEPT !.pc = "torn"]
          /\ IF cli.linked THEN Written(Torn)
             ELSE UNCHANGED <<file, dirty, missed>>
       \/ /\ cli' = Idle
          /\ IF cli.linked THEN Written(cli.config)
             ELSE UNCHANGED <<file, dirty, missed>>
    /\ UNCHANGED <<mem, store, queue, job, daemon, chan, accepted, spoiled,
                   crossed, used>>

(***************************************************************************)
(* Crash and restart                                                       *)
(***************************************************************************)

\* A change cut short between the stored key and the saved file leaves the
\* key replaced: nothing of it is on disk.
Crash ==
    /\ daemon # "down" /\ Trouble
    /\ daemon' = "down"
    /\ queue' = <<>> /\ job' = Idle /\ chan' = <<>>
    /\ dirty' = FALSE /\ missed' = FALSE
    /\ mem' = Default
    /\ spoiled' = IF job.pc \in {"read", "persist", "refused", "undo"}
                        /\ job.staged # <<>>
                  THEN spoiled \cup {job.name} ELSE spoiled
    /\ UNCHANGED <<file, store, cli, accepted, crossed>>

\* The configuration is loaded before the watch is armed.
DaemonRestart ==
    /\ daemon = "down" /\ file # Torn
    /\ daemon' = "blind"
    /\ mem' = file
    /\ UNCHANGED <<file, store, queue, job, cli, dirty, chan, accepted,
                   spoiled, crossed, missed, used>>

ArmWatch ==
    /\ daemon = "blind"
    /\ daemon' = "up"
    /\ UNCHANGED <<file, mem, store, queue, job, cli, dirty, chan, accepted,
                   spoiled, crossed, missed, used>>

-----------------------------------------------------------------------------

\* A configuration that adding servers and accounts, and removing some,
\* leaves: a server has its own key, a copy its base's.
ConfigInit ==
    /\ \E S \in SUBSET Servers :
        LET owner(s) == IF s \in DOMAIN CopyOf THEN CopyOf[s] ELSE s
            typed == CHOOSE v \in Values : TRUE
        IN  /\ file = [servers |-> [s \in S |-> Key(owner(s))], misc |-> FALSE]
            /\ store = [k \in Servers |->
                           IF k \in {owner(s) : s \in S} THEN typed ELSE Nothing]
    /\ accepted = store
    /\ mem = file
    /\ queue = <<>> /\ job = Idle /\ cli = Idle
    /\ daemon = "up" /\ dirty = FALSE /\ chan = <<>>
    /\ spoiled = {} /\ crossed = {} /\ missed = FALSE
    /\ used = [changes |-> 0, reloads |-> 0, saves |-> 0, trouble |-> 0]

\* What the holder of reload_lock does next.
Change ==
    \/ \E m \in Mutations : BeginChange(m)
    \/ BeginReload \/ Stage \/ ReadAndMutate \/ PersistConfigAtomic \/ Verdict
    \/ PutBack \/ LoadConfig \/ ApplyReload \/ Forget

ConfigNext ==
    \/ AskChange \/ AskReload
    \/ Change
    \/ Debounce \/ Noise \/ WatcherTake
    \/ CliLoad \/ CliTruncate \/ CliWrite
    \/ Crash \/ DaemonRestart \/ ArmWatch

ConfigSpec == ConfigInit /\ [][ConfigNext]_configVars

\* The daemon's tasks run, a write that began goes on, and the service
\* manager starts the daemon again.  Nobody has to ask for anything.
ConfigFairSpec ==
    /\ ConfigSpec
    /\ WF_configVars(Change) /\ WF_configVars(Debounce) /\ WF_configVars(WatcherTake)
    /\ WF_configVars(CliWrite) /\ WF_configVars(DaemonRestart) /\ WF_configVars(ArmWatch)

-----------------------------------------------------------------------------

Counts ==
    [changes : 0..MaxChanges, reloads : 0..MaxReloads, saves : 0..MaxSaves,
     trouble : 0..MaxTrouble]

Jobs ==
    [pc : {"apply"}, next : Configs, by : {"ipc", "watcher"}]
        \cup
    [pc : {"stage", "read", "persist", "refused", "undo", "load", "apply",
           "forget"},
     op : {"add", "update", "remove", "account", "toggle"}, name : Servers,
     ref : Refs \cup {Redacted}, seen : Configs \cup {Torn}, was : Refs,
     staged : {<<>>} \cup {<<v>> : v \in Values \cup {Nothing}},
     next : Configs, by : {"change"}]

\* The types, and that a daemon that is down holds nothing in memory.
ConfigTypeOK ==
    /\ file \in Configs \cup {Torn}
    /\ mem \in Configs
    /\ store \in [Servers -> Values \cup {Nothing}]
    /\ accepted \in [Servers -> Values \cup {Nothing}]
    /\ \A i \in 1..Len(queue) : queue[i] \in Waiters
    /\ job \in Jobs \cup {Idle}
    /\ cli \in [pc : {"loaded", "truncated", "torn"}, config : Configs,
                linked : BOOLEAN] \cup {Idle}
    /\ daemon \in {"down", "blind", "up"}
    /\ {dirty, missed} \subseteq BOOLEAN
    /\ chan \in UNION {[1..n -> {"config", "other"}] : n \in 0..ChanCap}
    /\ spoiled \subseteq Servers /\ crossed \subseteq Servers
    /\ used \in Counts
    /\ daemon = "down" => job = Idle /\ queue = <<>> /\ chan = <<>> /\ ~dirty

\* The key a change has replaced and not yet answered for.
InHand ==
    IF job.pc \in {"read", "persist", "refused", "undo"} /\ job.staged # <<>>
    THEN {job.name} ELSE {}

\* A key the file refers to is in the store, with the value of the last
\* change of it that was saved: a refused change puts the old key back, and
\* a removed server takes no key an account copy still refers to
\* (apply_operator_mutation_keeping, put_back, forget).  Not counted are keys
\* whose undo failed or was cut short by a crash, and keys the command line
\* saved the file over in the middle of a change.
KeyIsAccepted ==
    /\ ConfigTypeOK
    /\ \A k \in FileKeys \ (spoiled \cup crossed \cup InHand) :
          store[k] # Nothing /\ store[k] = accepted[k]

\* Whatever the order of changes, reloads that loaded the file before they
\* got the lock, saves by the command line and restarts, memory ends up with
\* what the file says, unless no watcher event was left for the last write
\* (run_watcher, reload_config).
MemoryFollowsFile ==
    <>[](daemon = "up" /\ file # Torn /\ ~missed => mem = file)

=============================================================================
