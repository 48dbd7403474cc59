------------------------------ MODULE Startup ------------------------------
(* main.go, config.go and the configurations of the modules: what main loads, *)
(* in which order, and the databases it opens on the way. A configuration     *)
(* says for each group of its fields whose value it has: "operator",          *)
(* "default", or "zero", the zero of the type.                                *)
EXTENDS BinFile, Sequences

CONSTANTS
    StartFiles,     \* what a node may find at first: module -> file
    FullFiles       \* the one of them in which nothing is missing

VARIABLES
    stage,      \* how far main is
    exited,     \* main called os.Exit or panicked
    step,       \* inside a stage: "load", or the two halves of a save and what follows it
    config,     \* the configurations in memory
    files,      \* and on disk
    first,      \* history: the files at the very start
    db,         \* the databases: "closed", "open", or "nil" when they could not be opened
    tries,      \* attempts to open the database of this stage
    flag,       \* where a goroutine is in Config.Flag
    faulty      \* disk and databases may fail in this behaviour

startupVars == <<stage, exited, step, config, files, first, db, tries, flag, faulty>>

Order == <<"global", "abi", "client", "addresses.db", "address", "transactions.db", "subscriptions",
           "subscribers", "txcache.db", "txcache", "watchdog", "security", "serving">>

Databases == {"addresses.db", "transactions.db", "txcache.db"}

\* Load returns the error of a text that does not parse; address and security drop it and
\* fill in what is missing
Strict == {"global", "abi", "client", "subscriptions", "txcache", "watchdog"}
Modules == Strict \cup {"address", "security"}

\* MinFreePoolSize, GeneratePoolUpTo and EnableAddressGenerate are the "pool" of the address
\* module; BurnAddress stands for the attributes of config.hcl that a cold start leaves empty
Fields(m) ==
    CASE m = "global" -> {"node", "burnAddress", "flags"}
      [] m = "address" -> {"pool", "derivation"}
      [] OTHER -> {"settings"}
Required == {"node", "burnAddress"}         \* hcl:"...,attr"
Checked(m) == IF m = "address" THEN {"derivation"} ELSE {"settings"}

Unset(m) == [f \in Fields(m) |-> "zero"]
ColdConfig(m) == [f \in Fields(m) |-> IF f = "flags" THEN "zero" ELSE "default"]

At(s) == Order[stage] = s /\ ~exited
Serving == At("serving")

StartupInit ==
    /\ stage = 1 /\ exited = FALSE /\ step = [at |-> "load", then |-> "load"]
    /\ files \in StartFiles /\ first = files
    /\ config = [m \in Modules |-> Unset(m)]
    /\ db = [d \in Databases |-> "closed"] /\ tries = 0
    /\ flag = "idle" /\ faulty \in BOOLEAN

Exit == exited' = TRUE /\ UNCHANGED <<stage, step>>

Advance == stage' = stage + 1 /\ step' = [at |-> "load", then |-> "load"] /\ UNCHANGED exited

-----------------------------------------------------------------------------
(* Files                                                                      *)

\* Save: the JSON of a module has every field, config.hcl every attribute, the empty ones
\* too, and the maps that are not empty
SaveText(m, c) ==
    [format |-> IF m = "global" THEN "hcl" ELSE "json",
     values |-> [f \in {g \in Fields(m) : m = "global" => g \in Required \/ c[g] # "zero"} |-> c[f]]]

\* A text that opens with a brace is JSON, in which anything may be missing; the rest is HCL
Parses(data) ==
    /\ data # Nothing
    /\ data.format = "hcl" => Required \subseteq DOMAIN data.values

\* a file that is there at first is one the node can read
ASSUME StartupAssumption ==
    /\ FullFiles \in StartFiles
    /\ \A found \in StartFiles :
           /\ DOMAIN found = Modules
           /\ \A m \in Modules :
                  \/ found[m] = NoFile
                  \/ found[m] = SavedFile(found[m].data, found[m].size) /\ Parses(found[m].data)

\* json.Unmarshal and hclsimple.Decode leave alone what the text does not have
Unmarshal(m, data) ==
    [f \in Fields(m) |-> IF f \in DOMAIN data.values THEN data.values[f] ELSE config[m][f]]

checkDefaults(m, c) == [f \in Fields(m) |-> IF f \in Checked(m) /\ c[f] = "zero" THEN "default" ELSE c[f]]

-----------------------------------------------------------------------------
(* main                                                                       *)

\* Config.Load without a file
coldStart(m) ==
    /\ At(m) /\ step.at = "load" /\ ~IsExists(files[m])
    /\ config' = [config EXCEPT ![m] = ColdConfig(m)]
    /\ step' = [at |-> "open", then |-> "load"]
    /\ UNCHANGED <<stage, exited, files, first, db, tries, flag, faulty>>

\* Config.Load of a module that returns the error
Load(m) ==
    /\ At(m) /\ m \in Strict /\ step.at = "load" /\ IsExists(files[m])
    /\ IF Parses(files[m].data)
       THEN config' = [config EXCEPT ![m] = Unmarshal(m, files[m].data)] /\ Advance
       ELSE Exit /\ UNCHANGED config
    /\ UNCHANGED <<files, first, db, tries, flag, faulty>>

\* Config.Load of address and of security; without its database the address pool panics
LoadLenient(m) ==
    LET loaded == IF Parses(files[m].data) THEN Unmarshal(m, files[m].data) ELSE config[m]
    IN  /\ At(m) /\ m \notin Strict /\ step.at = "load" /\ IsExists(files[m])
        /\ config' = [config EXCEPT ![m] = checkDefaults(m, loaded)]
        /\ IF checkDefaults(m, loaded) # loaded
           THEN step' = [at |-> "open", then |-> "next"] /\ UNCHANGED <<stage, exited>>
           ELSE IF m = "address" /\ db["addresses.db"] = "nil" THEN Exit ELSE Advance
        /\ UNCHANGED <<files, first, db, tries, flag, faulty>>

ConfigOpen(m) ==
    /\ At(m) /\ step.at = "open"
    /\ files' = [files EXCEPT ![m] = Opened(files[m])]
    /\ step' = [step EXCEPT !.at = "write"]
    /\ UNCHANGED <<stage, exited, config, first, db, tries, flag, faulty>>

ConfigWrite(m) ==
    /\ At(m) /\ step.at = "write"
    /\ files' = [files EXCEPT ![m] = Written(files[m], SaveText(m, config[m]), 1)]
    /\ IF step.then = "load" THEN step' = [step EXCEPT !.at = "load"] /\ UNCHANGED <<stage, exited>>
       ELSE IF m = "address" /\ db["addresses.db"] = "nil" THEN Exit ELSE Advance
    /\ UNCHANGED <<config, first, db, tries, flag, faulty>>

\* the file cannot be opened: the modules that drop the error find no file a moment later
ConfigFails(m) ==
    /\ At(m) /\ step.at = "open" /\ faulty
    /\ Exit
    /\ UNCHANGED <<config, files, first, db, tries, flag, faulty>>

\* connect: one attempt and three more; then the manager's error is dropped by the module's
\* storage, which keeps a storage without a database
connect(d) ==
    /\ At(d)
    /\ \/ db' = [db EXCEPT ![d] = "open"] /\ tries' = 0 /\ Advance
       \/ /\ faulty
          /\ IF tries < 3 THEN tries' = tries + 1 /\ UNCHANGED <<db, stage, exited, step>>
             ELSE tries' = 0 /\ db' = [db EXCEPT ![d] = "nil"] /\ Advance
    /\ UNCHANGED <<config, files, first, flag, faulty>>

GetNewBadgerStorage == connect("addresses.db")
GetNewBadgerHoldStorage == \E d \in {"transactions.db", "txcache.db"} : connect(d)

\* the goroutines and the memory are gone; the files and what was in them stay
Restarted ==
    /\ stage' = 1 /\ exited' = FALSE /\ step' = [at |-> "load", then |-> "load"]
    /\ config' = [m \in Modules |-> Unset(m)]
    /\ db' = [d \in Databases |-> "closed"] /\ tries' = 0 /\ flag' = "idle"
    /\ UNCHANGED <<files, first, faulty>>

-----------------------------------------------------------------------------
(* Config.Flag("debug"), from a goroutine of gatherMoneys: a flag nobody set  *)
(* is added and the configuration is saved                                    *)

Flag ==
    /\ Serving /\ flag = "idle" /\ config["global"]["flags"] = "zero"
    /\ config' = [config EXCEPT !["global"]["flags"] = "default"]
    /\ flag' = "open"
    /\ UNCHANGED <<stage, exited, step, files, first, db, tries, faulty>>

FlagOpen ==
    /\ Serving /\ flag = "open"
    /\ files' = [files EXCEPT !["global"] = Opened(files["global"])]
    /\ flag' = "write"
    /\ UNCHANGED <<stage, exited, step, config, first, db, tries, faulty>>

FlagWrite ==
    /\ Serving /\ flag = "write"
    /\ files' = [files EXCEPT !["global"] = Written(files["global"], SaveText("global", config["global"]), 1)]
    /\ flag' = "idle"
    /\ UNCHANGED <<stage, exited, step, config, first, db, tries, faulty>>

StartupStep ==
    \/ \E m \in Modules : \/ coldStart(m) \/ Load(m) \/ LoadLenient(m)
                          \/ ConfigOpen(m) \/ ConfigWrite(m) \/ ConfigFails(m)
    \/ GetNewBadgerStorage \/ GetNewBadgerHoldStorage
    \/ Flag \/ FlagOpen \/ FlagWrite

-----------------------------------------------------------------------------
(* Properties                                                                 *)

Torn(f) == IsExists(f) /\ f.data = Nothing

\* What the operator wrote in the file of m, or the defaults when there was none.
Given(m) ==
    IF IsExists(first[m])
    THEN [f \in Fields(m) |-> IF f \in DOMAIN first[m].data.values THEN first[m].data.values[f] ELSE "zero"]
    ELSE ColdConfig(m)

\* A node that serves works with the settings it was given, through restarts, crashes inside
\* a save, the conversion of an old JSON file and the flags it adds itself: a module whose
\* file was cut off keeps the node from starting instead of running on zeros (Config.Load of
\* every module but address and security, which only get their checked fields back).
SettingsKept ==
    Serving =>
        /\ \A m \in Strict : \A f \in Fields(m) \ {"flags"} : config[m][f] = Given(m)[f]
        /\ \A m \in Modules \ Strict : \A f \in Checked(m) : config[m][f] # "zero"

\* Files that the node wrote itself never keep it from starting: unless the disk or a
\* database fails, main gives up only over a file that a crash cut off in the middle of a
\* save (Config.Save and Config.Load agree on what has to be in the text).
ReadsWhatItWrites(others) ==
    exited => faulty \/ others \/ \E m \in Modules : Torn(files[m])
=============================================================================
