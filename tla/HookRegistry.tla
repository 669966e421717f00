---------------------------- MODULE HookRegistry ----------------------------
(***************************************************************************)
(* The life of the module around its ini settings: MINIT hooks what the     *)
(* enable_* switches say, MSHUTDOWN gives back what the switches say then.   *)
(* A hook keeps the pointer it replaces and passes every call on to it.      *)
(* Other extensions hook the engine's callbacks the same way, some loaded    *)
(* before this one and some after it; modules are shut down in the reverse   *)
(* order of their loading, and unloaded.                                     *)
(***************************************************************************)
EXTENDS IniGlobals, FiniteSets

CONSTANT MaxAltered     \* settings a pool changes: a bound of the model

ASSUME MaxAlteredAssumption == MaxAltered \in Nat

VARIABLES
    neighbours,     \* the other extensions that hook the callbacks
    late,           \* the extension with the hooked classes is loaded after this one
    enable,         \* the switches
    modules,        \* the loaded modules, in the order of their loading
    running,        \* scripts run; after them modules are shut down
    slot,           \* where every hookable pointer points
    saved,          \* what every module keeps of it; null at first
    collected,      \* the tables whose list of keys is not empty
    enabled_at,     \* history: the switches in MINIT
    crashed         \* the engine called where nothing is

hookVars == <<neighbours, late, enable, modules, running, slot, saved, collected, enabled_at, crashed>>
registryVars == <<vars, hookVars>>

Self == "opentelemetry"
Modules == {"before", Self, "after"}

(* The callbacks of the engine, functions whose handlers are kept in static  *)
(* variables, and functions and methods kept in a map by their names.        *)
Callbacks == {"zend_error_cb", "zend_throw_exception_hook"}
Tables == {"mysqli", "redis"}
Slots == Callbacks \cup {"curl"} \cup Tables

Base == [s \in Slots |-> IF s = "zend_throw_exception_hook" THEN "null" ELSE "engine"]

Switches == {"enable", "cli_enable", "enable_error", "enable_exception", "enable_curl",
             "enable_mysql", "enable_redis"}

SwitchOf == [zend_error_cb |-> "enable_error", zend_throw_exception_hook |-> "enable_exception",
             curl |-> "enable_curl", mysqli |-> "enable_mysql", redis |-> "enable_redis"]

IsLoaded(module) == \E i \in DOMAIN modules : modules[i] = module

RegistryInit ==
    /\ Init
    /\ neighbours \in SUBSET (Modules \ {Self})
    /\ late \in BOOLEAN
    /\ enable \in [Switches -> BOOLEAN]
    /\ modules = <<>>
    /\ running = FALSE
    /\ slot = Base
    /\ saved = [m \in Modules |-> [s \in Slots |-> "null"]]
    /\ collected = {}
    /\ enabled_at = enable
    /\ crashed = FALSE

-----------------------------------------------------------------------------
(* Loading. *)

Skipped == ~enable["enable"] \/ (cli /\ ~enable["cli_enable"])

(* Classes of an extension that is loaded later are not found. *)
Found(s) == s = "redis" => ~late

(* mutant: the old pointer is saved after it was replaced. *)
HookSwapped(module, hooked) ==
    /\ slot' = [s \in Slots |-> IF s \in hooked THEN module ELSE slot[s]]
    /\ saved' = [saved EXCEPT ![module] = [s \in Slots |-> IF s \in hooked THEN slot'[s] ELSE @[s]]]

Hook(module, hooked) ==
    /\ saved' = [saved EXCEPT ![module] = [s \in Slots |-> IF s \in hooked THEN slot[s] ELSE @[s]]]
    /\ slot' = [s \in Slots |-> IF s \in hooked THEN module ELSE slot[s]]

LoadNeighbour(module) ==
    /\ ~running /\ module \in neighbours /\ ~IsLoaded(module) /\ ~crashed
    /\ IF module = "before" THEN registered = 0 ELSE started
    /\ modules' = Append(modules, module)
    /\ Hook(module, Callbacks)
    /\ UNCHANGED <<vars, neighbours, late, enable, running, collected, enabled_at, crashed>>

RegisterIni ==
    /\ "before" \in neighbours => IsLoaded("before")
    /\ Register
    /\ UNCHANGED hookVars

(* register_zend_hook, as the last of opentelemetry_module_init. *)
RegisterZendHook ==
    /\ Hook(Self, {s \in Slots : enable[SwitchOf[s]] /\ Found(s)})
    /\ collected' = {s \in Tables : enable[SwitchOf[s]]}

OpentelemetryModuleInit ==
    /\ registered = Len(Order) /\ ~started
    /\ modules' = Append(modules, Self)
    /\ IF Skipped
       THEN /\ started' = TRUE
            /\ UNCHANGED <<cli, memory, given, registered, updated, slot, saved, collected>>
       ELSE ModuleInit /\ RegisterZendHook
    /\ UNCHANGED <<neighbours, late, enable, running, enabled_at, crashed>>

Serve ==
    /\ started /\ ~running /\ {modules[i] : i \in DOMAIN modules} = neighbours \cup {Self}
    /\ running' = TRUE
    /\ UNCHANGED <<vars, neighbours, late, enable, modules, slot, saved, collected, enabled_at, crashed>>

-----------------------------------------------------------------------------
(* Scripts run. *)

Serving == running /\ IsLoaded(Self) /\ Len(modules) = Cardinality(neighbours) + 1 /\ ~crashed

AlteredSwitches == {e \in Switches : enable[e] # enabled_at[e]}

(* A switch is PHP_INI_PERDIR like the numbers: a pool may change it in the  *)
(* worker, which was forked when the hooks were installed.                   *)
AlterSwitch(e) ==
    /\ Serving /\ ~cli
    /\ enable' = [enable EXCEPT ![e] = ~@]
    /\ Cardinality(AlteredSwitches \cup {e}) + Cardinality(updated) <= MaxAltered
    /\ UNCHANGED <<vars, neighbours, late, modules, running, slot, saved, collected, enabled_at, crashed>>

AlterSetting ==
    /\ Serving
    /\ \/ \E e \in Longs, value \in Values : Alter(e, value)
       \/ InitConsumers /\ ~Skipped
    /\ Cardinality(AlteredSwitches) + Cardinality(updated') <= MaxAltered
    /\ UNCHANGED hookVars

-----------------------------------------------------------------------------
(* Following a pointer: every hook that is reached passes on to the one it   *)
(* saved.                                                                    *)

Depth == Cardinality(Modules)

Chain(s) ==
    LET visit[n \in 0 .. Depth] ==
            IF n = 0 THEN slot[s]
            ELSE IF visit[n - 1] \in Modules THEN saved[visit[n - 1]][s] ELSE visit[n - 1]
    IN visit

(* An error or an exception is raised, in a script or while modules are     *)
(* loaded and shut down.  The engine and the hooks test the hook of          *)
(* exceptions for null, zend_error_cb is called as it is.                    *)
Raise(s) ==
    LET chain == Chain(s)
        unmapped == \E n \in DOMAIN chain : chain[n] \in Modules /\ ~IsLoaded(chain[n])
    IN /\ ~crashed
       /\ crashed' = (unmapped \/ (s = "zend_error_cb" /\ chain[Depth] # "engine"))
       /\ UNCHANGED <<vars, neighbours, late, enable, modules, running, slot, saved, collected,
                      enabled_at>>

-----------------------------------------------------------------------------
(* Shutting down. *)

(* A function or method is given back when its list is not empty; its map    *)
(* holds null for what was not found in MINIT.                               *)
GivenBack == {s \in Slots : enable[SwitchOf[s]] /\ (s \in Tables => s \in collected)}

(* mutant: what was installed is given back in part. *)
UnregisterZendHookShort ==
    slot' = [s \in Slots |-> IF s \in GivenBack \ {"zend_throw_exception_hook"} THEN saved[Self][s]
                                                                               ELSE slot[s]]

UnregisterZendHook ==
    slot' = [s \in Slots |-> IF s \in GivenBack THEN saved[Self][s] ELSE slot[s]]

Unload == modules' = SubSeq(modules, 1, Len(modules) - 1)

OpentelemetryModuleShutdown ==
    /\ running /\ modules # <<>> /\ modules[Len(modules)] = Self /\ ~crashed
    /\ IF Skipped THEN UNCHANGED slot ELSE UnregisterZendHook
    /\ collected' = {}
    /\ Unload
    /\ UNCHANGED <<vars, neighbours, late, enable, running, saved, enabled_at, crashed>>

UnloadNeighbour ==
    /\ running /\ modules # <<>> /\ ~crashed
    /\ LET module == modules[Len(modules)]
       IN /\ module # Self
          /\ slot' = [s \in Slots |-> IF s \in Callbacks THEN saved[module][s] ELSE slot[s]]
    /\ Unload
    /\ UNCHANGED <<vars, neighbours, late, enable, running, saved, collected, enabled_at, crashed>>

RegistryNext ==
    \/ \E module \in Modules : LoadNeighbour(module)
    \/ RegisterIni
    \/ OpentelemetryModuleInit
    \/ Serve
    \/ \E e \in Switches : AlterSwitch(e)
    \/ AlterSetting
    \/ \E s \in Callbacks : Raise(s)
    \/ OpentelemetryModuleShutdown
    \/ UnloadNeighbour

RegistrySpec == RegistryInit /\ [][RegistryNext]_registryVars

-----------------------------------------------------------------------------
(* A link of a chain, if it is there. *)
Only(m, present) == IF present THEN <<m>> ELSE <<>>

(* While scripts run, a call of every pointer passes each hook installed     *)
(* exactly once, the last loaded first, and reaches the engine's own: this    *)
(* module is in the chain exactly when it was enabled in MINIT, whatever a    *)
(* pool switched since (zend_hook.cc:17-48).                                 *)
HooksChained ==
    Serving => \A s \in Slots :
        LET others == IF s \in Callbacks THEN neighbours ELSE {}
            skipped == ~enabled_at["enable"] \/ (cli /\ ~enabled_at["cli_enable"])
            hooked == ~skipped /\ enabled_at[SwitchOf[s]] /\ (s = "redis" => ~late)
            order == Only("after", "after" \in others) \o Only(Self, hooked)
                                                     \o Only("before", "before" \in others)
            chain == Chain(s)
        IN \A n \in 0 .. Depth :
               chain[n] = IF n < Len(order) THEN order[n + 1] ELSE Base[s]

(* Once this module is unloaded every pointer is what it would be without    *)
(* it, and an error raised from then on reaches the engine, unless a switch   *)
(* was changed since MINIT.  The one exception are methods that were not      *)
(* found in MINIT: their handlers become null when scripts are over          *)
(* (zend_hook.cc:50-81, core.cc:176-189).                                    *)
HooksGivenBack ==
    AlteredSwitches = {} =>
        /\ ~crashed
        /\ running /\ ~IsLoaded(Self) =>
             \A s \in Slots :
                 LET chain == Chain(s)
                 IN \/ chain[Depth] = Base[s] /\ \A n \in 0 .. Depth : chain[n] # Self
                    \/ s = "redis" /\ late /\ slot[s] = "null"
=============================================================================
