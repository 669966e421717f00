----------------------------- MODULE HookProofs -----------------------------
(***************************************************************************)
(* Two results about HookRegistry.  The registration and every later update  *)
(* of the settings leave all of them intact but the word behind an updated   *)
(* one, for all values, with and without the hooks: the one step that        *)
(* IniGlobals does not have is the MINIT of a disabled extension, which      *)
(* starts nothing.  And the hooks of this module and its neighbours form     *)
(* complete chains while scripts run, and let go of this module after it.    *)
(***************************************************************************)
EXTENDS HookRegistry, TLAPS, FiniteSetTheorems, SequenceTheorems

USE ValuesAssumption

Settings == Longs \cup Pointers

(* Settings whose entry is still to be registered. *)
Later(n) == {Order[i] : i \in n + 1 .. Len(Order)}

IniTypeOK ==
    /\ cli \in BOOLEAN /\ started \in BOOLEAN
    /\ memory \in [Words -> Nat] /\ given \in [Words -> Nat]
    /\ registered \in 0 .. Len(Order)
    /\ started => registered = Len(Order)
    /\ updated \subseteq Longs

(* Until MINIT is over, and under the cli SAPI for good, every setting holds *)
(* what it was given, and what is not registered yet is 0 in both.           *)
IniInv ==
    /\ IniTypeOK
    /\ ~started \/ cli => updated = {} /\ \A w \in Settings : memory[w] = given[w]
    /\ ~started => \A w \in Later(registered) \cup {"message_queue_name"} : given[w] = 0
    /\ OnlyWordBehindSpoilt

(* MINIT of a disabled extension. *)
SkippedInit ==
    /\ registered = Len(Order) /\ ~started /\ started' = TRUE
    /\ UNCHANGED <<cli, memory, given, registered, updated>>

-----------------------------------------------------------------------------
(* What the two tables say of each other. *)

LEMMA OrderLength == Len(Order) = 10
BY DEF Order

(* Every number is registered before the word behind it. *)
LEMMA OrderFacts ==
  ASSUME NEW n \in 0 .. Len(Order) - 1
  PROVE  /\ Order[n + 1] \in Settings /\ Order[n + 1] # "message_queue_name"
         /\ Order[n + 1] \in Later(n) /\ Order[n + 1] \notin Later(n + 1)
         /\ Later(n + 1) \subseteq Later(n)
         /\ Order[n + 1] \in Longs =>
              /\ Behind[Order[n + 1]] \in Words /\ Behind[Order[n + 1]] # Order[n + 1]
              /\ Behind[Order[n + 1]] \in Later(n + 1) \cup {"message_queue_name", "padding"}
<1>1. n \in 0 .. 9
  BY OrderLength
<1>2. Later(n) = {Order[i] : i \in n + 1 .. 10} /\ Later(n + 1) = {Order[i] : i \in n + 2 .. 10}
  BY <1>1, OrderLength DEF Later
<1>3. /\ Order[n + 1] \in Settings /\ Order[n + 1] # "message_queue_name"
      /\ \A i \in n + 2 .. 10 : Order[i] # Order[n + 1]
  BY <1>1 DEF Order, Settings, Longs, Pointers
<1>4. ASSUME Order[n + 1] \in Longs
      PROVE  /\ Behind[Order[n + 1]] \in Words /\ Behind[Order[n + 1]] # Order[n + 1]
             /\ \/ Behind[Order[n + 1]] \in {"message_queue_name", "padding"}
                \/ Behind[Order[n + 1]] = Order[n + 2] /\ n + 2 \in n + 2 .. 10
  BY <1>1, <1>4 DEF Order, Behind, Words, Longs, Pointers
<1>5. QED
  BY <1>1, <1>2, <1>3, <1>4

LEMMA BehindFacts ==
  ASSUME NEW e \in Longs
  PROVE  Behind[e] \in Words /\ Behind[e] # e
BY DEF Behind, Longs, Words, Pointers

-----------------------------------------------------------------------------
LEMMA OrderedSettings ==
  ASSUME NEW n \in 0 .. Len(Order)
  PROVE  Later(n) \cup {"message_queue_name"} \subseteq Settings /\ Settings \subseteq Words
BY OrderLength DEF Settings, Words, Later, Order, Longs, Pointers

LEMMA IniEstablished == Init => IniInv
<1> SUFFICES ASSUME Init PROVE IniInv
  OBVIOUS
<1>1. registered \in 0 .. Len(Order) /\ registered = 0
  BY OrderLength DEF Init
<1>2. IniTypeOK
  BY <1>1 DEF Init, IniTypeOK
<1>3. \A w \in Words : memory[w] = 0 /\ given[w] = 0
  BY DEF Init
<1>4. QED
  BY <1>1, <1>2, <1>3, OrderedSettings DEF Init, IniInv, OnlyWordBehindSpoilt

LEMMA RegisterPreserves ==
  ASSUME IniInv, Register
  PROVE  IniInv'
<1> DEFINE n == registered
           e == Order[n + 1]
<1>1. /\ n \in 0 .. Len(Order) - 1 /\ registered' = n + 1 /\ n + 1 \in 0 .. Len(Order)
      /\ UNCHANGED <<cli, started, updated>>
  BY OrderLength DEF Register, IniInv, IniTypeOK
<1>2. /\ e \in Settings /\ e # "message_queue_name" /\ e \in Later(n) /\ e \notin Later(n + 1)
      /\ Later(n + 1) \subseteq Later(n)
      /\ e \in Longs => /\ Behind[e] \in Words /\ Behind[e] # e
                        /\ Behind[e] \in Later(n + 1) \cup {"message_queue_name", "padding"}
  BY <1>1, OrderFacts
<1>3. IF e \in Pointers THEN OnUpdateString(e) ELSE \E value \in Values : OnUpdateLong(e, value)
  BY DEF Register
<1> HIDE DEF e, n
<1>4. /\ memory \in [Words -> Nat] /\ given \in [Words -> Nat] /\ Settings \subseteq Words
      /\ Later(n) \cup {"message_queue_name"} \subseteq Settings
      /\ "padding" \notin Settings
  BY <1>1, OrderedSettings DEF IniInv, IniTypeOK, Settings, Longs, Pointers, n
<1>5. PICK value \in Nat :
         /\ given' = [given EXCEPT ![e] = value]
         /\ \/ memory' = [memory EXCEPT ![e] = value]
            \/ e \in Longs /\ memory' = [memory EXCEPT ![e] = value, ![Behind[e]] = 0]
  BY <1>2, <1>3 DEF OnUpdateString, OnUpdateLong, Settings
<1>6. /\ memory' \in [Words -> Nat] /\ given' \in [Words -> Nat]
      /\ memory'[e] = value /\ given'[e] = value
      /\ \A w \in Words : w # e => given'[w] = given[w]
      /\ \A w \in Words : w # e =>
            memory'[w] = memory[w] \/ (e \in Longs /\ w = Behind[e] /\ memory'[w] = 0)
  BY <1>2, <1>4, <1>5
<1>7. ~started
  BY <1>1, OrderLength DEF IniInv, IniTypeOK, n
<1>8. IniTypeOK'
  BY <1>1, <1>6, <1>7 DEF IniInv, IniTypeOK
<1>9. QED
  <2>1. \A w \in Later(n) \cup {"message_queue_name"} : given[w] = 0 /\ memory[w] = given[w]
    BY <1>4, <1>7 DEF IniInv, n
  <2>2. \A w \in Later(n + 1) \cup {"message_queue_name"} : given'[w] = 0
    BY <1>2, <1>4, <1>6, <2>1
  <2>3. ASSUME NEW w \in Settings PROVE memory'[w] = given'[w]
    <3>1. CASE w = e
      BY <1>6, <3>1
    <3>2. CASE w # e /\ memory'[w] = memory[w]
      BY <1>4, <1>6, <1>7, <3>2 DEF IniInv
    <3>3. CASE w # e /\ e \in Longs /\ w = Behind[e] /\ memory'[w] = 0
      BY <1>2, <1>4, <1>6, <2>1, <3>3
    <3>4. QED
      BY <1>4, <1>6, <3>1, <3>2, <3>3
  <2>4. updated' = {}
    BY <1>1, <1>7 DEF IniInv
  <2>5. QED
    BY <1>1, <1>7, <1>8, <2>2, <2>3, <2>4 DEF IniInv, OnlyWordBehindSpoilt, Settings, n

LEMMA StartPreserves ==
  ASSUME IniInv, ModuleInit \/ SkippedInit
  PROVE  IniInv'
<1>1. /\ ~started /\ started' = TRUE /\ UNCHANGED <<cli, registered, updated>>
      /\ registered = Len(Order)
  BY DEF ModuleInit, SkippedInit
<1>2. /\ memory \in [Words -> Nat] /\ given \in [Words -> Nat] /\ "message_queue_name" \in Words
      /\ Settings \subseteq Words
      /\ updated = {} /\ \A w \in Settings : memory[w] = given[w]
  BY <1>1 DEF IniInv, IniTypeOK, Words, Settings, Pointers
<1>3. /\ memory' \in [Words -> Nat] /\ given' \in [Words -> Nat]
      /\ \A w \in Settings : memory'[w] = given'[w]
  <2>1. CASE ModuleInit
    BY <1>2, <2>1 DEF ModuleInit
  <2>2. CASE SkippedInit
    BY <1>2, <2>2 DEF SkippedInit
  <2>3. QED
    BY <2>1, <2>2
<1>4. QED
  BY <1>1, <1>2, <1>3 DEF IniInv, IniTypeOK, OnlyWordBehindSpoilt, Settings

LEMMA AlterPreserves ==
  ASSUME IniInv, NEW e \in Longs, NEW value \in Values, Alter(e, value)
  PROVE  IniInv'
<1>1. /\ started /\ ~cli /\ updated' = updated \cup {e} /\ UNCHANGED <<cli, registered, started>>
      /\ memory' = [memory EXCEPT ![e] = value, ![Behind[e]] = 0]
      /\ given' = [given EXCEPT ![e] = value]
  BY DEF Alter, OnUpdateLong
<1>2. /\ memory \in [Words -> Nat] /\ given \in [Words -> Nat] /\ Settings \subseteq Words
      /\ e \in Words /\ Behind[e] \in Words /\ Behind[e] # e /\ value \in Nat
  BY BehindFacts DEF IniInv, IniTypeOK, Settings, Words
<1>3. /\ memory' \in [Words -> Nat] /\ given' \in [Words -> Nat]
      /\ memory'[e] = given'[e] /\ memory'[Behind[e]] = 0
      /\ \A w \in Words : w # e /\ w # Behind[e] => memory'[w] = memory[w] /\ given'[w] = given[w]
  BY <1>1, <1>2
<1>4. ASSUME NEW w \in Settings, memory'[w] # given'[w]
      PROVE  memory'[w] = 0 /\ \E u \in updated' : Behind[u] = w
  <2>1. CASE w = Behind[e]
    BY <1>1, <1>3, <2>1
  <2>2. CASE w # Behind[e]
    <3>1. memory[w] # given[w] /\ memory'[w] = memory[w]
      BY <1>2, <1>3, <1>4, <2>2
    <3>2. memory[w] = 0 /\ \E u \in updated : Behind[u] = w
      BY <1>1, <3>1 DEF IniInv, OnlyWordBehindSpoilt, Settings
    <3>3. QED
      BY <1>1, <3>1, <3>2
  <2>3. QED
    BY <2>1, <2>2
<1>5. IniTypeOK'
  BY <1>1, <1>3 DEF IniInv, IniTypeOK
<1>6. QED
  BY <1>1, <1>4, <1>5 DEF IniInv, OnlyWordBehindSpoilt, Settings

LEMMA InitConsumersPreserves ==
  ASSUME IniInv, InitConsumers
  PROVE  IniInv'
<1>1. /\ started /\ cli /\ UNCHANGED <<cli, registered, started, updated>>
      /\ memory' = [memory EXCEPT !["consumer_nums"] = memory["cli_consumer_nums"]]
      /\ given' = [given EXCEPT !["consumer_nums"] = given["cli_consumer_nums"]]
  BY DEF InitConsumers
<1>2. /\ memory \in [Words -> Nat] /\ given \in [Words -> Nat] /\ Settings \subseteq Words
      /\ "consumer_nums" \in Settings /\ "cli_consumer_nums" \in Settings
      /\ updated = {} /\ \A w \in Settings : memory[w] = given[w]
  BY <1>1 DEF IniInv, IniTypeOK, Settings, Words, Longs
<1>3. /\ memory' \in [Words -> Nat] /\ given' \in [Words -> Nat]
      /\ \A w \in Settings : memory'[w] = given'[w]
  BY <1>1, <1>2
<1>4. QED
  BY <1>1, <1>2, <1>3 DEF IniInv, IniTypeOK, OnlyWordBehindSpoilt, Settings

LEMMA IniQuiet ==
  ASSUME IniInv, UNCHANGED vars
  PROVE  IniInv'
BY DEF IniInv, IniTypeOK, OnlyWordBehindSpoilt, vars

LEMMA IniStep == IniInv /\ ([Next]_vars \/ SkippedInit) => IniInv'
BY RegisterPreserves, StartPreserves, AlterPreserves, InitConsumersPreserves, IniQuiet, Zenon
DEF Next

(* What the hooks do to the settings is a step of IniGlobals, nothing, or    *)
(* the MINIT of a disabled extension.                                        *)
LEMMA RegistryRefines == [RegistryNext]_registryVars => [Next]_vars \/ SkippedInit
<1>1. CASE OpentelemetryModuleInit
  <2>1. CASE Skipped
    BY <1>1, <2>1, Zenon DEF OpentelemetryModuleInit, SkippedInit
  <2>2. CASE ~Skipped
    BY <1>1, <2>2, Zenon DEF OpentelemetryModuleInit, Next
  <2>3. QED
    BY <2>1, <2>2
<1>2. CASE AlterSetting
  BY <1>2, Zenon DEF AlterSetting, Next
<1>3. CASE RegisterIni
  BY <1>3, Zenon DEF RegisterIni, Next
<1>4. QED
  BY <1>1, <1>2, <1>3, Zenon
  DEF RegistryNext, registryVars, LoadNeighbour, Serve, AlterSwitch, Raise,
      OpentelemetryModuleShutdown, UnloadNeighbour

-----------------------------------------------------------------------------
(* Registration leaves every setting with its value, and an update from then *)
(* on spoils at most the word behind, whatever values are given and          *)
(* whatever is hooked (opentelemetry.cc:39-53, php_opentelemetry.h:208-227). *)
THEOREM SettingsKept == RegistrySpec => []OnlyWordBehindSpoilt
<1>1. RegistryInit => IniInv
  BY IniEstablished DEF RegistryInit
<1>2. IniInv /\ [RegistryNext]_registryVars => IniInv'
  BY IniStep, RegistryRefines
<1>3. IniInv => OnlyWordBehindSpoilt
  BY DEF IniInv
<1>4. QED
  BY <1>1, <1>2, <1>3, PTL DEF RegistrySpec

-----------------------------------------------------------------------------
(***************************************************************************)
(* The invariant of the hooks.  A pointer leads to the last module that      *)
(* hooked it, and what that module saved leads to the one before: Top, Below *)
(* and Under say to which, from the switches of MINIT alone.                 *)
(***************************************************************************)

(* Modules are loaded and unloaded in this order. *)
Stacks == {<<>>, <<"before">>, <<Self>>, <<"before", Self>>, <<Self, "after">>,
           <<"before", Self, "after">>}

Targets == Modules \cup {"engine", "null"}

SkippedAt == ~enabled_at["enable"] \/ (cli /\ ~enabled_at["cli_enable"])
HookedAt(s) == ~SkippedAt /\ enabled_at[SwitchOf[s]] /\ Found(s)

Under(s) == IF s \in Callbacks /\ IsLoaded("before") THEN "before" ELSE Base[s]
Below(s) == IF IsLoaded(Self) /\ HookedAt(s) THEN Self ELSE Under(s)
Top(s) == IF s \in Callbacks /\ IsLoaded("after") THEN "after" ELSE Below(s)

(* This module is unloaded again. *)
Over == running /\ ~IsLoaded(Self)

HookTypeOK ==
    /\ cli \in BOOLEAN /\ started \in BOOLEAN /\ registered \in Nat
    /\ neighbours \subseteq Modules \ {Self} /\ modules \in Stacks
    /\ late \in BOOLEAN /\ running \in BOOLEAN /\ crashed \in BOOLEAN
    /\ enable \in [Switches -> BOOLEAN] /\ enabled_at \in [Switches -> BOOLEAN]
    /\ slot \in [Slots -> Targets] /\ saved \in [Modules -> [Slots -> Targets]]

(* What is loaded when; before scripts run no switch has changed. *)
LoadingOK ==
    /\ IsLoaded("before") => "before" \in neighbours
    /\ IsLoaded("after") => "after" \in neighbours
    /\ ~running => (IsLoaded(Self) <=> started) /\ enable = enabled_at
    /\ running => started
    /\ started => registered > 0
    /\ (registered > 0 /\ ~running) \/ IsLoaded(Self) =>
         ("before" \in neighbours => IsLoaded("before"))

SavedOK ==
    /\ IsLoaded("before") => \A s \in Callbacks : saved["before"][s] = Base[s]
    /\ ~started => saved[Self] = [s \in Slots |-> "null"]
    /\ IsLoaded(Self) =>
         /\ \A s \in Slots : saved[Self][s] = IF HookedAt(s) THEN Under(s) ELSE "null"
         /\ ~SkippedAt => collected = {s \in Tables : enabled_at[SwitchOf[s]]}
    /\ IsLoaded("after") => \A s \in Callbacks : saved["after"][s] = Below(s)

(* A hook that MINIT did not find is null once scripts are over, and nothing *)
(* is known once they are over with another switch than in MINIT.            *)
SlotsOK ==
    ~Over \/ AlteredSwitches = {} =>
        \A s \in Slots : slot[s] = Top(s) \/ (Over /\ s = "redis" /\ late /\ slot[s] = "null")

HookInv ==
    /\ HookTypeOK /\ LoadingOK /\ SavedOK /\ SlotsOK
    /\ crashed => AlteredSwitches # {}

-----------------------------------------------------------------------------
(* Three modules hook, so a chain has three links. *)

LEMMA DepthIsThree == Depth = 3
<1>1. Cardinality({"before"}) = 1 /\ IsFiniteSet({"before"})
  BY FS_Singleton
<1>2. Cardinality({"before"} \cup {Self}) = 2 /\ IsFiniteSet({"before"} \cup {Self})
  BY <1>1, FS_AddElement DEF Self
<1>3. Cardinality(({"before"} \cup {Self}) \cup {"after"}) = 3
  BY <1>2, FS_AddElement DEF Self
<1>4. Modules = ({"before"} \cup {Self}) \cup {"after"}
  BY DEF Modules
<1>5. QED
  BY <1>3, <1>4 DEF Depth

LEMMA NeighbourCount ==
  ASSUME neighbours \subseteq Modules \ {Self}
  PROVE  Cardinality(neighbours) =
            (IF "before" \in neighbours THEN 1 ELSE 0) + (IF "after" \in neighbours THEN 1 ELSE 0)
<1>1. /\ Cardinality({}) = 0 /\ IsFiniteSet({})
      /\ Cardinality({"before"}) = 1 /\ IsFiniteSet({"before"})
      /\ Cardinality({"after"}) = 1
  BY FS_Singleton, FS_EmptySet
<1>2. Cardinality({"before"} \cup {"after"}) = 2
  <2>1. "after" \notin {"before"}
    OBVIOUS
  <2>2. Cardinality({"before"} \cup {"after"}) = Cardinality({"before"}) + 1
    BY <1>1, <2>1, FS_AddElement, Zenon
  <2>3. QED
    BY <1>1, <2>2
<1>3. \/ neighbours = {} \/ neighbours = {"before"} \/ neighbours = {"after"}
      \/ neighbours = {"before"} \cup {"after"}
  BY DEF Modules, Self
<1>4. QED
  BY <1>1, <1>2, <1>3

(* What a pointer leads to next. *)
Follow(s, m) == IF m \in Modules THEN saved[m][s] ELSE m

LEMMA ChainLinks ==
  ASSUME NEW s
  PROVE  /\ Chain(s)[0] = slot[s]
         /\ Chain(s)[1] = Follow(s, slot[s])
         /\ Chain(s)[2] = Follow(s, Follow(s, slot[s]))
         /\ Chain(s)[3] = Follow(s, Follow(s, Follow(s, slot[s])))
         /\ DOMAIN Chain(s) = 0 .. 3
<1> DEFINE Visit(f) == [n \in 0 .. Depth |->
                          IF n = 0 THEN slot[s]
                          ELSE IF f[n - 1] \in Modules THEN saved[f[n - 1]][s] ELSE f[n - 1]]
           v1 == Follow(s, slot[s])
           v2 == Follow(s, v1)
           v3 == Follow(s, v2)
           w == [n \in 0 .. 3 |-> IF n = 0 THEN slot[s] ELSE IF n = 1 THEN v1
                                  ELSE IF n = 2 THEN v2 ELSE v3]
<1>1. w = Visit(w)
  <2>1. w[0] = slot[s] /\ w[1] = v1 /\ w[2] = v2 /\ w[3] = v3
    OBVIOUS
  <2> HIDE DEF w
  <2>2. ASSUME NEW n \in 0 .. 3
        PROVE  (IF n = 0 THEN slot[s]
                ELSE IF w[n - 1] \in Modules THEN saved[w[n - 1]][s] ELSE w[n - 1])
               = (IF n = 0 THEN slot[s] ELSE IF n = 1 THEN v1 ELSE IF n = 2 THEN v2 ELSE v3)
    <3>1. n = 0 \/ n = 1 \/ n = 2 \/ n = 3
      OBVIOUS
    <3>2. 1 - 1 = 0 /\ 2 - 1 = 1 /\ 3 - 1 = 2
      OBVIOUS
    <3>3. QED
      BY <2>1, <3>1, <3>2 DEF Follow
  <2>3. QED
    BY <2>2, DepthIsThree DEF w
<1>2. Chain(s) = CHOOSE f : f = Visit(f)
  BY Zenon DEF Chain
<1>3. Chain(s) = Visit(Chain(s))
  <2> HIDE DEF Visit, w
  <2>1. QED
    BY <1>1, <1>2, Zenon
<1>4. QED
  <2> DEFINE c == Chain(s)
  <2>1. c = Visit(c)
    BY <1>3
  <2> HIDE DEF c, w
  <2>2. DOMAIN c = 0 .. 3
    BY <2>1, DepthIsThree
  <2>3. /\ c[0] = slot[s]
        /\ c[1] = Follow(s, c[0]) /\ c[2] = Follow(s, c[1]) /\ c[3] = Follow(s, c[2])
    BY <2>1, DepthIsThree DEF Follow
  <2>4. QED
    BY <2>2, <2>3 DEF c

-----------------------------------------------------------------------------
(* The loaded modules. *)

LEMMA Pushed ==
  ASSUME NEW a, NEW b, NEW c
  PROVE  /\ Append(<<>>, c) = <<c>>
         /\ Append(<<a>>, c) = <<a, c>>
         /\ Append(<<a, b>>, c) = <<a, b, c>>
<1> DEFINE S == {a, b, c}
<1>1. /\ a \in S /\ b \in S /\ c \in S
      /\ <<a>> \in Seq(S) /\ <<a, b>> \in Seq(S)
      /\ <<a, c>> \in Seq(S) /\ <<a, b, c>> \in Seq(S)
  OBVIOUS
<1>2. /\ Append(<<a>>, c) \in Seq(S) /\ Len(Append(<<a>>, c)) = Len(<<a, c>>)
      /\ \A i \in 1 .. 2 : Append(<<a>>, c)[i] = <<a, c>>[i]
      /\ Len(<<a, c>>) = 2
  BY <1>1
<1>3. /\ Append(<<a, b>>, c) \in Seq(S) /\ Len(Append(<<a, b>>, c)) = Len(<<a, b, c>>)
      /\ \A i \in 1 .. 3 : Append(<<a, b>>, c)[i] = <<a, b, c>>[i]
      /\ Len(<<a, b, c>>) = 3
  BY <1>1
<1>4. Append(<<a>>, c) = <<a, c>>
  BY <1>1, <1>2, SeqEqual
<1>5. Append(<<a, b>>, c) = <<a, b, c>>
  BY <1>1, <1>3, SeqEqual
<1>6. QED
  BY <1>4, <1>5

LEMMA Popped ==
  ASSUME NEW a, NEW b, NEW c
  PROVE  /\ SubSeq(<<a>>, 1, 0) = <<>>
         /\ SubSeq(<<a, b>>, 1, 1) = <<a>>
         /\ SubSeq(<<a, b, c>>, 1, 2) = <<a, b>>
<1> DEFINE S == {a, b, c}
<1>1. /\ <<>> \in Seq(S) /\ <<a>> \in Seq(S) /\ <<a, b>> \in Seq(S) /\ <<a, b, c>> \in Seq(S)
      /\ Len(<<>>) = 0 /\ Len(<<a>>) = 1 /\ Len(<<a, b>>) = 2
  OBVIOUS
<1>2. /\ SubSeq(<<a, b>>, 1, 1) \in Seq(S) /\ Len(SubSeq(<<a, b>>, 1, 1)) = 1
      /\ \A i \in 1 .. 1 : SubSeq(<<a, b>>, 1, 1)[i] = <<a>>[i]
  BY <1>1
<1>3. /\ SubSeq(<<a, b, c>>, 1, 2) \in Seq(S) /\ Len(SubSeq(<<a, b, c>>, 1, 2)) = 2
      /\ \A i \in 1 .. 2 : SubSeq(<<a, b, c>>, 1, 2)[i] = <<a, b>>[i]
  BY <1>1
<1>4. SubSeq(<<a, b>>, 1, 1) = <<a>>
  BY <1>1, <1>2, SeqEqual
<1>5. SubSeq(<<a, b, c>>, 1, 2) = <<a, b>>
  BY <1>1, <1>3, SeqEqual
<1>6. SubSeq(<<a>>, 1, 0) = <<>>
  BY <1>1
<1>7. QED
  BY <1>4, <1>5, <1>6

LEMMA Stacked ==
  ASSUME NEW stack \in Stacks
  PROVE  /\ (\E i \in DOMAIN stack : stack[i] = "before") <=>
              stack \in {<<"before">>, <<"before", Self>>, <<"before", Self, "after">>}
         /\ (\E i \in DOMAIN stack : stack[i] = Self) <=>
              stack \in {<<Self>>, <<"before", Self>>, <<Self, "after">>,
                         <<"before", Self, "after">>}
         /\ (\E i \in DOMAIN stack : stack[i] = "after") <=>
              stack \in {<<Self, "after">>, <<"before", Self, "after">>}
<1>1. CASE stack = <<>>
  BY <1>1 DEF Self
<1>2. CASE stack = <<"before">>
  BY <1>2 DEF Self
<1>3. CASE stack = <<Self>>
  BY <1>3 DEF Self
<1>4. CASE stack = <<"before", Self>>
  BY <1>4 DEF Self
<1>5. CASE stack = <<Self, "after">>
  BY <1>5 DEF Self
<1>6. CASE stack = <<"before", Self, "after">>
  BY <1>6 DEF Self
<1>7. QED
  BY <1>1, <1>2, <1>3, <1>4, <1>5, <1>6 DEF Stacks

LEMMA BeforeLoaded ==
  ASSUME modules \in Stacks, ~IsLoaded("before"), ~IsLoaded(Self),
         modules' = Append(modules, "before")
  PROVE  /\ modules' \in Stacks
         /\ IsLoaded("before")' /\ ~IsLoaded(Self)' /\ ~IsLoaded("after")'
<1>1. modules = <<>>
  BY Stacked DEF Stacks, IsLoaded, Self
<1>2. modules' = <<"before">>
  BY <1>1
<1>3. modules' \in Stacks
  BY <1>2 DEF Stacks
<1>4. QED
  BY <1>2, <1>3, Stacked DEF IsLoaded, Self

LEMMA SelfLoaded ==
  ASSUME modules \in Stacks, ~IsLoaded(Self), modules' = Append(modules, Self)
  PROVE  /\ modules' \in Stacks
         /\ IsLoaded("before")' <=> IsLoaded("before")
         /\ IsLoaded(Self)' /\ ~IsLoaded("after")' /\ ~IsLoaded("after")
<1>1. modules = <<>> \/ modules = <<"before">>
  BY Stacked DEF Stacks, IsLoaded, Self
<1>2. \/ modules = <<>> /\ modules' = <<Self>>
      \/ modules = <<"before">> /\ modules' = <<"before", Self>>
  <2>1. CASE modules = <<>>
    BY <2>1
  <2>2. CASE modules = <<"before">>
    BY <2>2, Pushed
  <2>3. QED
    BY <1>1, <2>1, <2>2
<1>3. modules' \in Stacks
  BY <1>2 DEF Stacks
<1>4. QED
  BY <1>2, <1>3, Stacked DEF IsLoaded, Self

LEMMA AfterLoaded ==
  ASSUME modules \in Stacks, IsLoaded(Self), ~IsLoaded("after"),
         modules' = Append(modules, "after")
  PROVE  /\ modules' \in Stacks
         /\ IsLoaded("before")' <=> IsLoaded("before")
         /\ IsLoaded(Self)' /\ IsLoaded("after")'
<1>1. modules = <<Self>> \/ modules = <<"before", Self>>
  BY Stacked DEF Stacks, IsLoaded, Self
<1>2. \/ modules = <<Self>> /\ modules' = <<Self, "after">>
      \/ modules = <<"before", Self>> /\ modules' = <<"before", Self, "after">>
  <2>1. CASE modules = <<Self>>
    BY <2>1, Pushed
  <2>2. CASE modules = <<"before", Self>>
    BY <2>2, Pushed
  <2>3. QED
    BY <1>1, <2>1, <2>2
<1>3. modules' \in Stacks
  BY <1>2 DEF Stacks
<1>4. QED
  BY <1>2, <1>3, Stacked DEF IsLoaded, Self

LEMMA Unloaded ==
  ASSUME modules \in Stacks, modules # <<>>, Unload
  PROVE  /\ modules' \in Stacks
         /\ \/ /\ modules[Len(modules)] = "after" /\ IsLoaded(Self) /\ IsLoaded(Self)'
               /\ IsLoaded("after") /\ ~IsLoaded("after")'
               /\ IsLoaded("before")' <=> IsLoaded("before")
            \/ /\ modules[Len(modules)] = Self /\ IsLoaded(Self) /\ ~IsLoaded(Self)'
               /\ ~IsLoaded("after") /\ ~IsLoaded("after")'
               /\ IsLoaded("before")' <=> IsLoaded("before")
            \/ /\ modules[Len(modules)] = "before" /\ ~IsLoaded(Self) /\ ~IsLoaded(Self)'
               /\ ~IsLoaded("after") /\ ~IsLoaded("after")'
               /\ IsLoaded("before") /\ ~IsLoaded("before")'
<1>1. \/ modules = <<"before">> /\ modules' = <<>> /\ modules[Len(modules)] = "before"
      \/ modules = <<Self>> /\ modules' = <<>> /\ modules[Len(modules)] = Self
      \/ modules = <<"before", Self>> /\ modules' = <<"before">> /\ modules[Len(modules)] = Self
      \/ modules = <<Self, "after">> /\ modules' = <<Self>> /\ modules[Len(modules)] = "after"
      \/ /\ modules = <<"before", Self, "after">> /\ modules' = <<"before", Self>>
         /\ modules[Len(modules)] = "after"
  <2>1. modules' = SubSeq(modules, 1, Len(modules) - 1)
    BY DEF Unload
  <2>2. CASE modules = <<"before">>
    BY <2>1, <2>2, Popped
  <2>3. CASE modules = <<Self>>
    BY <2>1, <2>3, Popped
  <2>4. CASE modules = <<"before", Self>>
    <3>1. modules' = SubSeq(<<"before", Self>>, 1, 1) /\ Len(modules) = 2
      BY <2>1, <2>4
    <3>2. QED
      BY <2>4, <3>1, Popped
  <2>5. CASE modules = <<Self, "after">>
    <3>1. modules' = SubSeq(<<Self, "after">>, 1, 1) /\ Len(modules) = 2
      BY <2>1, <2>5
    <3>2. QED
      BY <2>5, <3>1, Popped
  <2>6. CASE modules = <<"before", Self, "after">>
    BY <2>1, <2>6, Popped
  <2>7. QED
    BY <2>2, <2>3, <2>4, <2>5, <2>6 DEF Stacks
<1>2. modules' \in Stacks
  BY <1>1 DEF Stacks
<1>3. QED
  BY <1>1, <1>2, Stacked DEF IsLoaded, Self

-----------------------------------------------------------------------------
(* Following a pointer from its top. *)

LEMMA BaseIsNoModule ==
  ASSUME NEW s \in Slots
  PROVE  /\ Base[s] \notin Modules /\ Base[s] \in Targets
         /\ s \in Callbacks => s # "redis"
         /\ s = "zend_error_cb" => Base[s] = "engine"
BY DEF Base, Slots, Modules, Self, Callbacks, Tables, Targets

LEMMA Links ==
  ASSUME SavedOK, NEW s \in Slots
  PROVE  /\ Follow(s, Base[s]) = Base[s]
         /\ s \in Callbacks /\ IsLoaded("before") => Follow(s, "before") = Base[s]
         /\ IsLoaded(Self) /\ HookedAt(s) => Follow(s, Self) = Under(s)
         /\ s \in Callbacks /\ IsLoaded("after") => Follow(s, "after") = Below(s)
<1>1. "before" \in Modules /\ Self \in Modules /\ "after" \in Modules
  BY DEF Modules
<1>2. QED
  BY <1>1, BaseIsNoModule DEF SavedOK, Follow

(* From its top a pointer leads through loaded modules to the engine's own. *)
LEMMA ChainEnds ==
  ASSUME SavedOK, NEW s \in Slots, slot[s] = Top(s)
  PROVE  /\ Chain(s)[Depth] = Base[s]
         /\ \A n \in 0 .. Depth : Chain(s)[n] \in Modules => IsLoaded(Chain(s)[n])
<1> DEFINE Fine(m) == m = Base[s] \/ (m \in Modules /\ IsLoaded(m))
<1>1. /\ Follow(s, Base[s]) = Base[s] /\ Base[s] \notin Modules
      /\ s \in Callbacks /\ IsLoaded("before") => Follow(s, "before") = Base[s]
      /\ IsLoaded(Self) /\ HookedAt(s) => Follow(s, Self) = Under(s)
      /\ s \in Callbacks /\ IsLoaded("after") => Follow(s, "after") = Below(s)
      /\ "before" \in Modules /\ Self \in Modules /\ "after" \in Modules
  BY Links, BaseIsNoModule DEF Modules
<1>2. Follow(s, Under(s)) = Base[s] /\ Fine(Under(s))
  BY <1>1, Zenon DEF Under
<1>3. /\ Fine(Below(s)) /\ Fine(Follow(s, Below(s)))
      /\ Follow(s, Follow(s, Below(s))) = Base[s]
  <2>1. CASE IsLoaded(Self) /\ HookedAt(s)
    <3>1. Below(s) = Self
      BY <2>1, Zenon DEF Below
    <3>2. QED
      BY <1>1, <1>2, <2>1, <3>1, Zenon
  <2>2. CASE ~(IsLoaded(Self) /\ HookedAt(s))
    <3>1. Below(s) = Under(s)
      BY <2>2, Zenon DEF Below
    <3>2. QED
      BY <1>1, <1>2, <3>1, Zenon
  <2>3. QED
    BY <2>1, <2>2, Zenon
<1>4. /\ Fine(Top(s)) /\ Fine(Follow(s, Top(s))) /\ Fine(Follow(s, Follow(s, Top(s))))
      /\ Follow(s, Follow(s, Follow(s, Top(s)))) = Base[s]
  <2>1. CASE s \in Callbacks /\ IsLoaded("after")
    <3>1. Top(s) = "after"
      BY <2>1, Zenon DEF Top
    <3>2. QED
      BY <1>1, <1>3, <2>1, <3>1, Zenon
  <2>2. CASE ~(s \in Callbacks /\ IsLoaded("after"))
    <3>1. Top(s) = Below(s)
      BY <2>2, Zenon DEF Top
    <3>2. QED
      BY <1>1, <1>3, <3>1, Zenon
  <2>3. QED
    BY <2>1, <2>2, Zenon
<1>5. /\ Fine(Chain(s)[0]) /\ Fine(Chain(s)[1]) /\ Fine(Chain(s)[2])
      /\ Chain(s)[3] = Base[s] /\ Fine(Chain(s)[3])
  BY <1>4, ChainLinks, Zenon
<1> HIDE DEF Fine
<1>6. \A n \in 0 .. 3 : Fine(Chain(s)[n])
  <2>1. \A n \in 0 .. 3 : n = 0 \/ n = 1 \/ n = 2 \/ n = 3
    OBVIOUS
  <2>2. QED
    BY <1>5, <2>1, Zenon
<1>7. QED
  <2>1. Chain(s)[Depth] = Base[s]
    BY <1>5, DepthIsThree, Zenon
  <2>2. ASSUME NEW n \in 0 .. Depth, Chain(s)[n] \in Modules
        PROVE  IsLoaded(Chain(s)[n])
    BY <1>1, <1>6, <2>2, DepthIsThree, Zenon DEF Fine
  <2>3. QED
    BY <2>1, <2>2

LEMMA Joined ==
  ASSUME NEW a, NEW b, NEW c
  PROVE  /\ <<>> \o <<>> = <<>> /\ <<>> \o <<a>> = <<a>> /\ <<a>> \o <<>> = <<a>>
         /\ <<a>> \o <<b>> = <<a, b>> /\ <<a, b>> \o <<>> = <<a, b>>
         /\ <<a, b>> \o <<c>> = <<a, b, c>>
<1> DEFINE S == {a, b, c}
<1>1. /\ <<>> \in Seq(S) /\ <<a>> \in Seq(S) /\ <<b>> \in Seq(S) /\ <<c>> \in Seq(S)
      /\ <<a, b>> \in Seq(S) /\ <<a, b, c>> \in Seq(S)
  OBVIOUS
<1>2. /\ <<>> \o <<>> = <<>> /\ <<>> \o <<a>> = <<a>> /\ <<a>> \o <<>> = <<a>>
      /\ <<a, b>> \o <<>> = <<a, b>>
  BY <1>1, ConcatEmptySeq
<1>3. /\ <<a>> \o <<b>> \in Seq(S) /\ Len(<<a>> \o <<b>>) = Len(<<a, b>>)
      /\ \A i \in 1 .. 2 : (<<a>> \o <<b>>)[i] = <<a, b>>[i]
      /\ Len(<<a, b>>) = 2
  BY <1>1
<1>4. /\ <<a, b>> \o <<c>> \in Seq(S) /\ Len(<<a, b>> \o <<c>>) = Len(<<a, b, c>>)
      /\ \A i \in 1 .. 3 : (<<a, b>> \o <<c>>)[i] = <<a, b, c>>[i]
      /\ Len(<<a, b, c>>) = 3
  BY <1>1
<1>5. <<a>> \o <<b>> = <<a, b>>
  BY <1>1, <1>3, SeqEqual
<1>6. <<a, b>> \o <<c>> = <<a, b, c>>
  BY <1>1, <1>4, SeqEqual
<1>7. QED
  BY <1>2, <1>5, <1>6

(* The order in which hooks are reached. *)
LEMMA Ordered ==
  ASSUME NEW a \in BOOLEAN, NEW o \in BOOLEAN, NEW b \in BOOLEAN
  PROVE  Only("after", a) \o Only(Self, o) \o Only("before", b) =
           IF a
           THEN IF o THEN IF b THEN <<"after", Self, "before">> ELSE <<"after", Self>>
                     ELSE IF b THEN <<"after", "before">> ELSE <<"after">>
           ELSE IF o THEN IF b THEN <<Self, "before">> ELSE <<Self>>
                     ELSE IF b THEN <<"before">> ELSE <<>>
<1>1. /\ Only("after", a) = IF a THEN <<"after">> ELSE <<>>
      /\ Only(Self, o) = IF o THEN <<Self>> ELSE <<>>
      /\ Only("before", b) = IF b THEN <<"before">> ELSE <<>>
  BY DEF Only
<1>2. CASE a /\ o
  BY <1>1, <1>2, Joined, Zenon
<1>3. CASE a /\ ~o
  BY <1>1, <1>3, Joined, Zenon
<1>4. CASE ~a /\ o
  BY <1>1, <1>4, Joined, Zenon
<1>5. CASE ~a /\ ~o
  BY <1>1, <1>5, Joined, Zenon
<1>6. QED
  BY <1>2, <1>3, <1>4, <1>5

(* Where scripts run, everything is loaded. *)
LEMMA AllLoaded ==
  ASSUME HookTypeOK, LoadingOK, Serving
  PROVE  /\ IsLoaded(Self)
         /\ IsLoaded("before") <=> "before" \in neighbours
         /\ IsLoaded("after") <=> "after" \in neighbours
<1> DEFINE b == IF "before" \in neighbours THEN 1 ELSE 0
           a == IF "after" \in neighbours THEN 1 ELSE 0
<1>1. /\ IsLoaded(Self) /\ modules \in Stacks
      /\ IsLoaded("before") <=> "before" \in neighbours
      /\ IsLoaded("after") => "after" \in neighbours
  BY Zenon DEF Serving, LoadingOK, HookTypeOK
<1>2. Len(modules) = b + a + 1
  BY NeighbourCount DEF Serving, HookTypeOK
<1>3. /\ modules = <<Self>> => ~IsLoaded("before") /\ ~IsLoaded("after") /\ Len(modules) = 1
      /\ modules = <<"before", Self>> =>
           IsLoaded("before") /\ ~IsLoaded("after") /\ Len(modules) = 2
      /\ modules = <<Self, "after">> \/ modules = <<"before", Self, "after">> => IsLoaded("after")
      /\ \/ modules = <<Self>> \/ modules = <<"before", Self>> \/ modules = <<Self, "after">>
         \/ modules = <<"before", Self, "after">>
  BY <1>1, Stacked DEF IsLoaded, Self
<1>4. QED
  BY <1>1, <1>2, <1>3

LEMMA ChainsComplete ==
  ASSUME HookInv
  PROVE  HooksChained
<1> SUFFICES ASSUME Serving, NEW s \in Slots
             PROVE  LET others == IF s \in Callbacks THEN neighbours ELSE {}
                        order == Only("after", "after" \in others) \o Only(Self, HookedAt(s))
                                                     \o Only("before", "before" \in others)
                    IN \A n \in 0 .. Depth :
                         Chain(s)[n] = IF n < Len(order) THEN order[n + 1] ELSE Base[s]
  BY Zenon DEF HooksChained, HookedAt, SkippedAt, Found
<1> DEFINE a == s \in Callbacks /\ "after" \in neighbours
           o == HookedAt(s)
           b == s \in Callbacks /\ "before" \in neighbours
           v0 == IF a THEN "after" ELSE IF o THEN Self ELSE IF b THEN "before" ELSE Base[s]
           v1 == IF a THEN IF o THEN Self ELSE IF b THEN "before" ELSE Base[s]
                 ELSE IF o THEN IF b THEN "before" ELSE Base[s] ELSE Base[s]
           v2 == IF a /\ o /\ b THEN "before" ELSE Base[s]
           order == Only("after", a) \o Only(Self, o) \o Only("before", b)
<1>1. /\ IsLoaded(Self) /\ ~Over
      /\ IsLoaded("before") <=> "before" \in neighbours
      /\ IsLoaded("after") <=> "after" \in neighbours
  BY AllLoaded, Zenon DEF HookInv, Over
<1>2. /\ Follow(s, Base[s]) = Base[s]
      /\ b => Follow(s, "before") = Base[s]
      /\ o => Follow(s, Self) = Under(s)
      /\ a => Follow(s, "after") = Below(s)
  BY <1>1, Links, Zenon DEF HookInv
<1>3. /\ Under(s) = IF b THEN "before" ELSE Base[s]
      /\ Below(s) = IF o THEN Self ELSE Under(s)
      /\ Top(s) = IF a THEN "after" ELSE Below(s)
      /\ slot[s] = Top(s)
  BY <1>1, Zenon DEF Under, Below, Top, HookInv, SlotsOK
<1>4. a \in BOOLEAN /\ b \in BOOLEAN /\ o \in BOOLEAN
  BY Zenon DEF HookedAt, SkippedAt
<1> HIDE DEF a, b, o
<1>5. /\ Chain(s)[0] = v0 /\ Chain(s)[1] = v1 /\ Chain(s)[2] = v2 /\ Chain(s)[3] = Base[s]
  <2>1. slot[s] = v0
    BY <1>3, Zenon
  <2>2. Follow(s, v0) = v1
    BY <1>2, <1>3, Zenon
  <2>3. Follow(s, v1) = v2
    BY <1>2, <1>3, Zenon
  <2>4. Follow(s, v2) = Base[s]
    BY <1>2, Zenon
  <2> HIDE DEF v0, v1, v2
  <2>5. QED
    BY <2>1, <2>2, <2>3, <2>4, ChainLinks, Zenon
<1>6. order = IF a
              THEN IF o THEN IF b THEN <<"after", Self, "before">> ELSE <<"after", Self>>
                        ELSE IF b THEN <<"after", "before">> ELSE <<"after">>
              ELSE IF o THEN IF b THEN <<Self, "before">> ELSE <<Self>>
                        ELSE IF b THEN <<"before">> ELSE <<>>
  BY <1>4, Ordered, Zenon
<1> HIDE DEF order
<1>7. ASSUME NEW n \in 0 .. 3
      PROVE  Chain(s)[n] = IF n < Len(order) THEN order[n + 1] ELSE Base[s]
  <2>1. n = 0 \/ n = 1 \/ n = 2 \/ n = 3
    OBVIOUS
  <2>2. CASE a /\ o /\ b
    BY <1>5, <1>6, <2>1, <2>2
  <2>3. CASE a /\ o /\ ~b
    BY <1>5, <1>6, <2>1, <2>3
  <2>4. CASE a /\ ~o /\ b
    BY <1>5, <1>6, <2>1, <2>4
  <2>5. CASE a /\ ~o /\ ~b
    BY <1>5, <1>6, <2>1, <2>5
  <2>6. CASE ~a /\ o /\ b
    BY <1>5, <1>6, <2>1, <2>6
  <2>7. CASE ~a /\ o /\ ~b
    BY <1>5, <1>6, <2>1, <2>7
  <2>8. CASE ~a /\ ~o /\ b
    BY <1>5, <1>6, <2>1, <2>8
  <2>9. CASE ~a /\ ~o /\ ~b
    BY <1>5, <1>6, <2>1, <2>9
  <2>10. QED
    BY <2>2, <2>3, <2>4, <2>5, <2>6, <2>7, <2>8, <2>9
<1>8. /\ a <=> "after" \in IF s \in Callbacks THEN neighbours ELSE {}
      /\ b <=> "before" \in IF s \in Callbacks THEN neighbours ELSE {}
  BY DEF a, b
<1>9. order = Only("after", "after" \in IF s \in Callbacks THEN neighbours ELSE {})
                \o Only(Self, HookedAt(s))
                \o Only("before", "before" \in IF s \in Callbacks THEN neighbours ELSE {})
  BY <1>8, Zenon DEF order, o, Only
<1>10. QED
  BY <1>7, <1>9, DepthIsThree, Zenon

LEMMA GivenBackComplete ==
  ASSUME HookInv
  PROVE  HooksGivenBack
<1> SUFFICES ASSUME AlteredSwitches = {}
             PROVE  /\ ~crashed
                    /\ Over => \A s \in Slots :
                         \/ Chain(s)[Depth] = Base[s] /\ \A n \in 0 .. Depth : Chain(s)[n] # Self
                         \/ s = "redis" /\ late /\ slot[s] = "null"
  BY Zenon DEF HooksGivenBack, Over
<1>1. ~crashed
  BY DEF HookInv
<1>2. ASSUME Over, NEW s \in Slots
      PROVE  \/ Chain(s)[Depth] = Base[s] /\ \A n \in 0 .. Depth : Chain(s)[n] # Self
             \/ s = "redis" /\ late /\ slot[s] = "null"
  <2>1. CASE slot[s] = Top(s)
    <3>1. ~IsLoaded(Self) /\ Self \in Modules
      BY <1>2 DEF Over, Modules
    <3>2. QED
      BY <2>1, <3>1, ChainEnds, Zenon DEF HookInv
  <2>2. CASE slot[s] # Top(s)
    BY <1>2, <2>2, Zenon DEF HookInv, SlotsOK
  <2>3. QED
    BY <2>1, <2>2
<1>3. QED
  BY <1>1, <1>2

-----------------------------------------------------------------------------
(* Every step keeps the invariant. *)

LEMMA HooksEstablished == RegistryInit => HookInv
<1> SUFFICES ASSUME RegistryInit PROVE HookInv
  OBVIOUS
<1>1. modules \in Stacks /\ modules = <<>> /\ running = FALSE /\ started = FALSE
  BY DEF RegistryInit, Init, Stacks
<1>2. ~IsLoaded("before") /\ ~IsLoaded(Self) /\ ~IsLoaded("after")
  BY <1>1, Stacked DEF IsLoaded, Self
<1>3. slot \in [Slots -> Targets] /\ \A s \in Slots : slot[s] = Base[s]
  BY BaseIsNoModule DEF RegistryInit, Base, Targets
<1>4. /\ saved \in [Modules -> [Slots -> Targets]]
      /\ saved[Self] = [s \in Slots |-> "null"]
  BY DEF RegistryInit, Targets, Modules
<1>5. HookTypeOK
  BY <1>1, <1>3, <1>4 DEF RegistryInit, Init, HookTypeOK
<1>6. LoadingOK
  BY <1>1, <1>2 DEF RegistryInit, Init, LoadingOK
<1>7. SavedOK
  BY <1>2, <1>4, Zenon DEF SavedOK
<1>8. SlotsOK
  BY <1>2, <1>3, Zenon DEF SlotsOK, Top, Below, Under
<1>9. QED
  BY <1>5, <1>6, <1>7, <1>8 DEF RegistryInit, HookInv

(* What a module that hooks leaves behind. *)
LEMMA Hooking ==
  ASSUME HookTypeOK, NEW module \in Modules, NEW hooked, Hook(module, hooked)
  PROVE  /\ slot' \in [Slots -> Targets] /\ saved' \in [Modules -> [Slots -> Targets]]
         /\ \A s \in Slots : slot'[s] = IF s \in hooked THEN module ELSE slot[s]
         /\ \A s \in Slots : saved'[module][s] = IF s \in hooked THEN slot[s] ELSE saved[module][s]
         /\ \A m \in Modules : m # module => saved'[m] = saved[m]
<1>1. /\ slot \in [Slots -> Targets] /\ saved \in [Modules -> [Slots -> Targets]]
      /\ module \in Targets
  BY DEF HookTypeOK, Targets
<1>2. /\ slot' = [s \in Slots |-> IF s \in hooked THEN module ELSE slot[s]]
      /\ saved' = [saved EXCEPT ![module] =
                     [s \in Slots |-> IF s \in hooked THEN slot[s] ELSE saved[module][s]]]
  BY DEF Hook
<1>3. [s \in Slots |-> IF s \in hooked THEN slot[s] ELSE saved[module][s]] \in [Slots -> Targets]
  BY <1>1
<1>4. /\ saved' \in [Modules -> [Slots -> Targets]]
      /\ saved'[module] = [s \in Slots |-> IF s \in hooked THEN slot[s] ELSE saved[module][s]]
      /\ \A m \in Modules : m # module => saved'[m] = saved[m]
  BY <1>1, <1>2, <1>3, Zenon
<1>5. QED
  BY <1>1, <1>2, <1>4

(* The switches of MINIT, and with them what is hooked, never change. *)
LEMMA SwitchesKept ==
  ASSUME UNCHANGED <<cli, late, enabled_at>>
  PROVE  /\ SkippedAt' <=> SkippedAt
         /\ \A s : HookedAt(s)' <=> HookedAt(s)
BY Zenon DEF SkippedAt, HookedAt, Found

LEMMA LoadBeforePreserves ==
  ASSUME HookInv, LoadNeighbour("before")
  PROVE  HookInv'
<1>1. /\ ~running /\ "before" \in neighbours /\ ~IsLoaded("before") /\ ~crashed /\ registered = 0
      /\ modules' = Append(modules, "before") /\ Hook("before", Callbacks)
      /\ UNCHANGED <<cli, memory, given, registered, started, updated>>
      /\ UNCHANGED <<neighbours, late, enable, running, collected, enabled_at, crashed>>
  BY Zenon DEF LoadNeighbour, vars
<1>2. ~started /\ ~IsLoaded(Self)
  BY <1>1 DEF HookInv, LoadingOK, HookTypeOK
<1>3. /\ modules' \in Stacks
      /\ IsLoaded("before")' /\ ~IsLoaded(Self)' /\ ~IsLoaded("after")'
  BY <1>1, <1>2, BeforeLoaded DEF HookInv, HookTypeOK
<1>4. "before" \in Modules /\ Self \in Modules /\ Self # "before" /\ Callbacks \subseteq Slots
  BY DEF Modules, Self, Slots
<1>5. /\ slot' \in [Slots -> Targets] /\ saved' \in [Modules -> [Slots -> Targets]]
      /\ \A s \in Slots : slot'[s] = IF s \in Callbacks THEN "before" ELSE slot[s]
      /\ \A s \in Slots : saved'["before"][s] =
                            IF s \in Callbacks THEN slot[s] ELSE saved["before"][s]
      /\ saved'[Self] = saved[Self]
  BY <1>1, <1>4, Hooking, Zenon DEF HookInv
<1>6. ~IsLoaded("after")
  BY <1>2, Stacked DEF HookInv, HookTypeOK, IsLoaded, Self
<1>7. ~Over /\ \A s \in Slots : slot[s] = Base[s]
  BY <1>1, <1>2, <1>6, Zenon DEF HookInv, SlotsOK, Over, Top, Below, Under
<1>8. HookTypeOK'
  BY <1>1, <1>3, <1>5 DEF HookInv, HookTypeOK
<1>9. LoadingOK'
  BY <1>1, <1>2, <1>3, Zenon DEF HookInv, LoadingOK
<1>10. SavedOK'
  BY <1>1, <1>2, <1>3, <1>4, <1>5, <1>7, Zenon DEF HookInv, SavedOK
<1>11. SlotsOK'
  BY <1>3, <1>5, <1>7, Zenon DEF SlotsOK, Top, Below, Under
<1>12. QED
  BY <1>1, <1>8, <1>9, <1>10, <1>11, Zenon DEF HookInv

LEMMA LoadAfterPreserves ==
  ASSUME HookInv, LoadNeighbour("after")
  PROVE  HookInv'
<1>1. /\ ~running /\ "after" \in neighbours /\ ~IsLoaded("after") /\ ~crashed /\ started
      /\ modules' = Append(modules, "after") /\ Hook("after", Callbacks)
      /\ UNCHANGED <<cli, memory, given, registered, started, updated>>
      /\ UNCHANGED <<neighbours, late, enable, running, collected, enabled_at, crashed>>
  <2>1. "after" # "before"
    OBVIOUS
  <2>2. QED
    BY <2>1, Zenon DEF LoadNeighbour, vars
<1>2. IsLoaded(Self) /\ ~Over /\ ~Over'
  BY <1>1, Zenon DEF HookInv, LoadingOK, Over
<1>3. /\ modules' \in Stacks
      /\ IsLoaded("before")' <=> IsLoaded("before")
      /\ IsLoaded(Self)' /\ IsLoaded("after")'
  BY <1>1, <1>2, AfterLoaded, Zenon DEF HookInv, HookTypeOK
<1>4. /\ "before" \in Modules /\ Self \in Modules /\ "after" \in Modules
      /\ Self # "after" /\ "before" # "after" /\ Callbacks \subseteq Slots
  BY DEF Modules, Self, Slots
<1>5. /\ slot' \in [Slots -> Targets] /\ saved' \in [Modules -> [Slots -> Targets]]
      /\ \A s \in Slots : slot'[s] = IF s \in Callbacks THEN "after" ELSE slot[s]
      /\ \A s \in Slots : saved'["after"][s] =
                            IF s \in Callbacks THEN slot[s] ELSE saved["after"][s]
      /\ saved'[Self] = saved[Self] /\ saved'["before"] = saved["before"]
  <2>1. HookTypeOK
    BY DEF HookInv
  <2>2. /\ slot' \in [Slots -> Targets] /\ saved' \in [Modules -> [Slots -> Targets]]
        /\ \A s \in Slots : slot'[s] = IF s \in Callbacks THEN "after" ELSE slot[s]
        /\ \A s \in Slots : saved'["after"][s] =
                              IF s \in Callbacks THEN slot[s] ELSE saved["after"][s]
        /\ \A m \in Modules : m # "after" => saved'[m] = saved[m]
    BY <1>1, <1>4, <2>1, Hooking, Zenon
  <2>3. QED
    BY <1>4, <2>2, Zenon
<1>6. /\ \A s \in Slots : slot[s] = Below(s)
      /\ \A s : Under(s)' = Under(s) /\ Below(s)' = Below(s)
  <2>1. \A s \in Slots : slot[s] = Below(s)
    BY <1>1, <1>2, Zenon DEF HookInv, SlotsOK, Top
  <2>2. \A s : Under(s)' = Under(s)
    BY <1>3, Zenon DEF Under
  <2>3. \A s : Below(s)' = Below(s)
    BY <1>1, <1>2, <1>3, <2>2, SwitchesKept, Zenon DEF Below
  <2>4. QED
    BY <2>1, <2>2, <2>3
<1>7. HookTypeOK'
  BY <1>1, <1>3, <1>5 DEF HookInv, HookTypeOK
<1>8. LoadingOK'
  BY <1>1, <1>2, <1>3, Zenon DEF HookInv, LoadingOK
<1>9. SavedOK'
  BY <1>1, <1>2, <1>3, <1>4, <1>5, <1>6, SwitchesKept, Zenon DEF HookInv, SavedOK
<1>10. SlotsOK'
  BY <1>3, <1>5, <1>6, Zenon DEF SlotsOK, Top
<1>11. QED
  BY <1>1, <1>7, <1>8, <1>9, <1>10, Zenon DEF HookInv

LEMMA MinitPreserves ==
  ASSUME HookInv, OpentelemetryModuleInit
  PROVE  HookInv'
<1>1. /\ ~started /\ started' = TRUE /\ registered = 10 /\ modules' = Append(modules, Self)
      /\ UNCHANGED <<cli, registered, neighbours, late, enable, running, enabled_at, crashed>>
      /\ \/ Skipped /\ UNCHANGED <<slot, saved, collected>>
         \/ ~Skipped /\ RegisterZendHook
  BY OrderLength, Zenon DEF OpentelemetryModuleInit, ModuleInit
<1>2. /\ ~running /\ ~IsLoaded(Self) /\ enable = enabled_at
      /\ "before" \in neighbours => IsLoaded("before")
      /\ Skipped <=> SkippedAt
  <2>1. registered > 0
    BY <1>1
  <2>2. ~running /\ ~IsLoaded(Self) /\ enable = enabled_at
    BY <1>1, Zenon DEF HookInv, LoadingOK
  <2>3. "before" \in neighbours => IsLoaded("before")
    BY <2>1, <2>2, Zenon DEF HookInv, LoadingOK
  <2>4. Skipped <=> SkippedAt
    BY <2>2, Zenon DEF Skipped, SkippedAt
  <2>5. QED
    BY <2>2, <2>3, <2>4
<1>3. /\ modules' \in Stacks
      /\ IsLoaded("before")' <=> IsLoaded("before")
      /\ IsLoaded(Self)' /\ ~IsLoaded("after")' /\ ~IsLoaded("after")
  BY <1>1, <1>2, SelfLoaded, Zenon DEF HookInv, HookTypeOK
<1>4. ~Over /\ ~Over'
  BY <1>1, <1>2, Zenon DEF Over
<1>5. /\ \A s \in Slots : slot[s] = Under(s)
      /\ \A s : Under(s)' = Under(s)
      /\ \A s : Top(s)' = IF HookedAt(s) THEN Self ELSE Under(s)
  <2>1. \A s \in Slots : slot[s] = Under(s)
    BY <1>2, <1>3, <1>4, Zenon DEF HookInv, SlotsOK, Top, Below
  <2>2. \A s : Under(s)' = Under(s)
    BY <1>3, Zenon DEF Under
  <2>3. \A s : Top(s)' = IF HookedAt(s) THEN Self ELSE Under(s)
    BY <1>1, <1>3, <2>2, SwitchesKept, Zenon DEF Top, Below
  <2>4. QED
    BY <2>1, <2>2, <2>3
<1>6. /\ saved[Self] = [s \in Slots |-> "null"]
      /\ IsLoaded("before") => \A s \in Callbacks : saved["before"][s] = Base[s]
      /\ slot \in [Slots -> Targets] /\ saved \in [Modules -> [Slots -> Targets]]
  BY <1>1, Zenon DEF HookInv, SavedOK, HookTypeOK
<1>7. \A s \in Slots : saved[Self][s] = "null"
  BY <1>6
<1>8. /\ slot' \in [Slots -> Targets] /\ saved' \in [Modules -> [Slots -> Targets]]
      /\ \A s \in Slots : slot'[s] = IF HookedAt(s) THEN Self ELSE Under(s)
      /\ \A s \in Slots : saved'[Self][s] = IF HookedAt(s) THEN Under(s) ELSE "null"
      /\ saved'["before"] = saved["before"]
      /\ ~SkippedAt => collected' = {s \in Tables : enabled_at[SwitchOf[s]]}
  <2>1. CASE Skipped /\ UNCHANGED <<slot, saved, collected>>
    <3>1. SkippedAt /\ \A s : ~HookedAt(s)
      BY <1>2, <2>1, Zenon DEF HookedAt
    <3>2. QED
      BY <1>5, <1>6, <1>7, <2>1, <3>1, Zenon
  <2>2. CASE ~Skipped /\ RegisterZendHook
    <3> DEFINE hooked == {s \in Slots : enable[SwitchOf[s]] /\ Found(s)}
    <3>1. Hook(Self, hooked) /\ collected' = {s \in Tables : enabled_at[SwitchOf[s]]}
      BY <1>2, <2>2 DEF RegisterZendHook
    <3>2. \A s \in Slots : s \in hooked <=> HookedAt(s)
      BY <1>2, <2>2, Zenon DEF HookedAt
    <3> HIDE DEF hooked
    <3>3. Self \in Modules /\ "before" \in Modules /\ "before" # Self /\ HookTypeOK
      BY DEF Modules, Self, HookInv
    <3>4. /\ slot' \in [Slots -> Targets] /\ saved' \in [Modules -> [Slots -> Targets]]
          /\ \A s \in Slots : slot'[s] = IF s \in hooked THEN Self ELSE slot[s]
          /\ \A s \in Slots : saved'[Self][s] = IF s \in hooked THEN slot[s] ELSE saved[Self][s]
          /\ \A m \in Modules : m # Self => saved'[m] = saved[m]
      BY <3>1, <3>3, Hooking, Zenon
    <3>5. QED
      BY <1>5, <1>7, <3>1, <3>2, <3>3, <3>4, Zenon
  <2>3. QED
    BY <1>1, <2>1, <2>2
<1>9. HookTypeOK'
  BY <1>1, <1>3, <1>8 DEF HookInv, HookTypeOK
<1>10. LoadingOK'
  <2>1. registered' > 0
    BY <1>1
  <2>2. QED
    BY <1>1, <1>2, <1>3, <2>1, Zenon DEF HookInv, LoadingOK
<1>11. SavedOK'
  <2>1. /\ SkippedAt' <=> SkippedAt
        /\ \A s : HookedAt(s)' <=> HookedAt(s)
    BY <1>1, SwitchesKept, Zenon
  <2>2. QED
    BY <1>1, <1>3, <1>5, <1>6, <1>8, <2>1, Zenon DEF SavedOK
<1>12. SlotsOK'
  BY <1>5, <1>8, Zenon DEF SlotsOK
<1>13. QED
  BY <1>1, <1>9, <1>10, <1>11, <1>12, Zenon DEF HookInv, AlteredSwitches

LEMMA ShutdownPreserves ==
  ASSUME HookInv, OpentelemetryModuleShutdown
  PROVE  HookInv'
<1>1. /\ running /\ modules # <<>> /\ modules[Len(modules)] = Self /\ ~crashed
      /\ IF Skipped THEN UNCHANGED slot ELSE UnregisterZendHook
      /\ Unload
      /\ UNCHANGED <<cli, memory, given, registered, started, updated>>
      /\ UNCHANGED <<neighbours, late, enable, running, saved, enabled_at, crashed>>
  BY Zenon DEF OpentelemetryModuleShutdown, vars
<1>2. /\ modules' \in Stacks /\ IsLoaded(Self) /\ ~IsLoaded(Self)'
      /\ ~IsLoaded("after") /\ ~IsLoaded("after")'
      /\ IsLoaded("before")' <=> IsLoaded("before")
  <2>1. Self # "before" /\ Self # "after"
    BY DEF Self
  <2>2. QED
    BY <1>1, <2>1, Unloaded, Zenon DEF HookInv, HookTypeOK
<1>3. /\ ~Over /\ \A s \in Slots : slot[s] = IF HookedAt(s) THEN Self ELSE Under(s)
      /\ \A s : Under(s)' = Under(s) /\ Top(s)' = Under(s)
  <2>1. ~Over
    BY <1>2, Zenon DEF Over
  <2>2. \A s \in Slots : slot[s] = IF HookedAt(s) THEN Self ELSE Under(s)
    BY <1>2, <2>1, Zenon DEF HookInv, SlotsOK, Top, Below
  <2>3. \A s : Under(s)' = Under(s) /\ Top(s)' = Under(s)
    BY <1>2, Zenon DEF Under, Top, Below
  <2>4. QED
    BY <2>1, <2>2, <2>3
<1>4. slot' \in [Slots -> Targets]
  <2>1. slot \in [Slots -> Targets] /\ saved[Self] \in [Slots -> Targets]
    BY DEF HookInv, HookTypeOK, Modules
  <2>2. QED
    BY <1>1, <2>1 DEF UnregisterZendHook
<1>5. ASSUME AlteredSwitches = {}, NEW s \in Slots
      PROVE  slot'[s] = Under(s) \/ (s = "redis" /\ late /\ slot'[s] = "null")
  <2>1. /\ \A e \in Switches : enable[e] <=> enabled_at[e]
        /\ SwitchOf[s] \in Switches /\ "enable" \in Switches /\ "cli_enable" \in Switches
    <3>1. \A e \in Switches : enable[e] = enabled_at[e]
      BY <1>5 DEF AlteredSwitches
    <3>2. QED
      BY <3>1 DEF SwitchOf, Switches, Slots, Callbacks, Tables
  <2>2. Skipped <=> SkippedAt
    BY <2>1, Zenon DEF Skipped, SkippedAt
  <2>3. CASE Skipped
    BY <1>1, <1>3, <2>2, <2>3, Zenon DEF HookedAt
  <2>4. CASE ~Skipped
    <3>1. s \in GivenBack <=> enabled_at[SwitchOf[s]]
      <4>1. ~SkippedAt => collected = {t \in Tables : enabled_at[SwitchOf[t]]}
        BY <1>2, Zenon DEF HookInv, SavedOK
      <4>2. QED
        BY <2>1, <2>2, <2>4, <4>1, Zenon DEF GivenBack
    <3>2. slot'[s] = IF s \in GivenBack THEN saved[Self][s] ELSE slot[s]
      BY <1>1, <2>4 DEF UnregisterZendHook
    <3>3. saved[Self][s] = IF HookedAt(s) THEN Under(s) ELSE "null"
      BY <1>2, Zenon DEF HookInv, SavedOK
    <3>4. enabled_at[SwitchOf[s]] => (HookedAt(s) <=> (s = "redis" => ~late))
      BY <2>2, <2>4, Zenon DEF HookedAt, Found
    <3>5. ~enabled_at[SwitchOf[s]] => ~HookedAt(s)
      BY Zenon DEF HookedAt
    <3>6. QED
      BY <1>3, <3>1, <3>2, <3>3, <3>4, <3>5, Zenon
  <2>5. QED
    BY <2>3, <2>4
<1>6. HookTypeOK'
  BY <1>1, <1>2, <1>4 DEF HookInv, HookTypeOK
<1>7. LoadingOK'
  BY <1>1, <1>2, Zenon DEF HookInv, LoadingOK
<1>8. SavedOK'
  BY <1>1, <1>2, Zenon DEF HookInv, SavedOK, LoadingOK
<1>9. SlotsOK'
  <2>1. Over' /\ AlteredSwitches' = AlteredSwitches
    BY <1>1, <1>2, Zenon DEF Over, AlteredSwitches
  <2>2. QED
    BY <1>1, <1>3, <1>5, <2>1, Zenon DEF SlotsOK
<1>10. QED
  BY <1>1, <1>6, <1>7, <1>8, <1>9, Zenon DEF HookInv

LEMMA UnloadPreserves ==
  ASSUME HookInv, UnloadNeighbour
  PROVE  HookInv'
<1> DEFINE module == modules[Len(modules)]
<1>1. /\ running /\ modules # <<>> /\ module # Self /\ ~crashed
      /\ slot' = [s \in Slots |-> IF s \in Callbacks THEN saved[module][s] ELSE slot[s]]
      /\ Unload
      /\ UNCHANGED <<cli, memory, given, registered, started, updated>>
      /\ UNCHANGED <<neighbours, late, enable, running, saved, collected, enabled_at, crashed>>
  BY Zenon DEF UnloadNeighbour, vars
<1>2. /\ modules' \in Stacks /\ ~IsLoaded("after")'
      /\ \/ /\ module = "after" /\ IsLoaded(Self) /\ IsLoaded(Self)' /\ IsLoaded("after")
            /\ IsLoaded("before")' <=> IsLoaded("before")
         \/ /\ module = "before" /\ ~IsLoaded(Self) /\ ~IsLoaded(Self)' /\ ~IsLoaded("after")
            /\ IsLoaded("before") /\ ~IsLoaded("before")'
  BY <1>1, Unloaded, Zenon DEF HookInv, HookTypeOK
<1>3. /\ AlteredSwitches' = AlteredSwitches /\ (Over' <=> Over)
      /\ SkippedAt' <=> SkippedAt
      /\ \A s : HookedAt(s)' <=> HookedAt(s)
  BY <1>1, <1>2, SwitchesKept, Zenon DEF Over, AlteredSwitches
<1>4. /\ slot' \in [Slots -> Targets] /\ Callbacks \subseteq Slots
      /\ \A s \in Slots : slot'[s] = IF s \in Callbacks THEN saved[module][s] ELSE slot[s]
  <2>1. saved[module] \in [Slots -> Targets] /\ slot \in [Slots -> Targets]
    <3>1. module \in Modules /\ saved \in [Modules -> [Slots -> Targets]]
      BY <1>2, Zenon DEF HookInv, HookTypeOK, Modules
    <3>2. QED
      BY <3>1, Zenon DEF HookInv, HookTypeOK
  <2> HIDE DEF module
  <2>2. QED
    BY <1>1, <2>1 DEF Slots
<1>5. HookTypeOK'
  BY <1>1, <1>2, <1>4 DEF HookInv, HookTypeOK
<1> HIDE DEF module
<1>6. CASE IsLoaded(Self)
  <2>1. /\ module = "after" /\ IsLoaded(Self)' /\ IsLoaded("after")
        /\ IsLoaded("before")' <=> IsLoaded("before")
    BY <1>2, <1>6, Zenon
  <2>2. /\ \A s : Under(s)' = Under(s)
        /\ \A s : Below(s)' = Below(s)
        /\ \A s : Top(s)' = Below(s)
    <3>1. \A s : Under(s)' = Under(s)
      BY <2>1, Zenon DEF Under
    <3>2. \A s : Below(s)' = Below(s)
      BY <1>3, <1>6, <2>1, <3>1, Zenon DEF Below
    <3>3. QED
      BY <1>2, <3>1, <3>2, Zenon DEF Top
  <2>3. /\ ~Over
        /\ \A s \in Slots : slot[s] = Top(s)
        /\ \A s \in Callbacks : saved[module][s] = Below(s)
    BY <1>6, <2>1, Zenon DEF HookInv, SlotsOK, SavedOK, Over
  <2>4. LoadingOK'
    BY <1>1, <1>2, <1>6, <2>1, Zenon DEF HookInv, LoadingOK
  <2>5. SavedOK'
    BY <1>1, <1>2, <1>3, <1>6, <2>1, <2>2, Zenon DEF HookInv, SavedOK
  <2>6. SlotsOK'
    <3>1. \A s \in Slots : slot'[s] = Below(s)
      BY <1>4, <2>3, Zenon DEF Top
    <3>2. QED
      BY <2>2, <3>1, Zenon DEF SlotsOK
  <2>7. QED
    BY <1>1, <1>3, <1>5, <2>4, <2>5, <2>6, Zenon DEF HookInv
<1>7. CASE ~IsLoaded(Self)
  <2>1. /\ module = "before" /\ ~IsLoaded(Self)' /\ ~IsLoaded("after")
        /\ IsLoaded("before") /\ ~IsLoaded("before")' /\ Over
    BY <1>1, <1>2, <1>7, Zenon DEF Over
  <2>2. LoadingOK'
    BY <1>1, <1>2, <2>1, Zenon DEF HookInv, LoadingOK
  <2>3. SavedOK'
    BY <1>1, <1>2, <2>1, Zenon DEF HookInv, SavedOK
  <2>4. SlotsOK'
    <3>1. /\ \A s : Top(s)' = Base[s]
          /\ \A s \in Slots : s \notin Callbacks => Top(s) = Base[s]
          /\ \A s \in Callbacks : saved["before"][s] = Base[s]
      BY <1>2, <2>1, Zenon DEF Top, Below, Under, HookInv, SavedOK
    <3>2. \A s \in Callbacks : slot'[s] = Base[s]
      BY <1>4, <2>1, <3>1, Zenon
    <3>3. \A s \in Slots : s \notin Callbacks => slot'[s] = slot[s]
      BY <1>4, Zenon
    <3>4. QED
      BY <1>1, <1>3, <2>1, <3>1, <3>2, <3>3, Zenon DEF HookInv, SlotsOK
  <2>5. QED
    BY <1>1, <1>3, <1>5, <2>2, <2>3, <2>4, Zenon DEF HookInv
<1>8. QED
  BY <1>6, <1>7

(* Steps that neither load nor hook. *)
LEMMA UnhookedPreserves ==
  ASSUME HookInv,
         UNCHANGED <<cli, neighbours, late, modules, slot, saved, collected, enabled_at>>,
         running' \in BOOLEAN /\ crashed' \in BOOLEAN /\ registered' \in Nat,
         running => running', running' /\ ~running => started /\ IsLoaded(Self),
         started' = started, registered' >= registered,
         registered' > 0 /\ ~running => ("before" \in neighbours => IsLoaded("before")),
         enable' \in [Switches -> BOOLEAN],
         ~IsLoaded(Self) \/ ~running => enable' = enable,
         crashed' => AlteredSwitches' # {}
  PROVE  HookInv'
<1>1. /\ \A m : IsLoaded(m)' <=> IsLoaded(m)
      /\ SkippedAt' <=> SkippedAt
      /\ \A s : HookedAt(s)' <=> HookedAt(s)
      /\ Over' <=> Over
  BY SwitchesKept, Zenon DEF IsLoaded, Over
<1>2. \A s : Under(s)' = Under(s) /\ Below(s)' = Below(s) /\ Top(s)' = Top(s)
  BY <1>1, Zenon DEF Under, Below, Top
<1>3. HookTypeOK'
  BY Zenon DEF HookInv, HookTypeOK
<1>4. LoadingOK'
  <2>1. started => registered' > 0
    BY DEF HookInv, HookTypeOK, LoadingOK
  <2>2. QED
    BY <1>1, <2>1, Zenon DEF HookInv, LoadingOK
<1>5. SavedOK'
  BY <1>1, <1>2, Zenon DEF HookInv, SavedOK
<1>6. SlotsOK'
  <2>1. CASE ~Over
    BY <1>1, <1>2, <2>1, Zenon DEF HookInv, SlotsOK
  <2>2. CASE Over
    <3>1. AlteredSwitches' = AlteredSwitches
      BY <2>2, Zenon DEF Over, AlteredSwitches
    <3>2. QED
      BY <1>1, <1>2, <2>2, <3>1, Zenon DEF HookInv, SlotsOK
  <2>3. QED
    BY <2>1, <2>2
<1>7. QED
  BY <1>3, <1>4, <1>5, <1>6, Zenon DEF HookInv

LEMMA HookStep == HookInv /\ [RegistryNext]_registryVars => HookInv'
<1> SUFFICES ASSUME HookInv, [RegistryNext]_registryVars PROVE HookInv'
  OBVIOUS
<1>1. /\ running \in BOOLEAN /\ crashed \in BOOLEAN /\ registered \in Nat
      /\ enable \in [Switches -> BOOLEAN]
      /\ registered > 0 /\ ~running => ("before" \in neighbours => IsLoaded("before"))
      /\ crashed => AlteredSwitches # {}
  BY Zenon DEF HookInv, HookTypeOK, LoadingOK
<1>2. registered \in Nat /\ registered >= registered
  BY <1>1
<1>3. ASSUME NEW module \in Modules, LoadNeighbour(module)
      PROVE  HookInv'
  <2>1. module = "before" \/ module = "after"
    BY <1>3 DEF LoadNeighbour, HookInv, HookTypeOK, Modules
  <2>2. QED
    BY <1>3, <2>1, LoadBeforePreserves, LoadAfterPreserves
<1>4. CASE RegisterIni
  <2>1. /\ registered' = registered + 1
        /\ "before" \in neighbours => IsLoaded("before")
        /\ UNCHANGED <<cli, started, updated>> /\ UNCHANGED hookVars
    BY <1>4, Zenon DEF RegisterIni, Register
  <2>2. registered' \in Nat /\ registered' >= registered
    BY <1>1, <2>1
  <2>3. AlteredSwitches' = AlteredSwitches
    BY <2>1, Zenon DEF AlteredSwitches, hookVars
  <2>4. QED
    BY <1>1, <2>1, <2>2, <2>3, UnhookedPreserves, Zenon DEF hookVars
<1>5. CASE Serve
  <2>1. IsLoaded(Self) /\ started
    BY <1>5 DEF Serve, IsLoaded
  <2>2. AlteredSwitches' = AlteredSwitches
    BY <1>5, Zenon DEF AlteredSwitches, Serve
  <2>3. QED
    BY <1>1, <1>2, <1>5, <2>1, <2>2, UnhookedPreserves, Zenon DEF Serve, vars
<1>6. ASSUME NEW e \in Switches, AlterSwitch(e)
      PROVE  HookInv'
  <2>1. enable' \in [Switches -> BOOLEAN]
    BY <1>1, <1>6 DEF AlterSwitch
  <2>2. running /\ IsLoaded(Self) /\ ~crashed
    BY <1>6, Zenon DEF AlterSwitch, Serving
  <2>3. QED
    BY <1>1, <1>2, <1>6, <2>1, <2>2, UnhookedPreserves, Zenon DEF AlterSwitch, vars
<1>7. CASE AlterSetting
  <2>1. UNCHANGED <<cli, registered, started>> /\ UNCHANGED hookVars
    BY <1>7, Zenon DEF AlterSetting, Alter, InitConsumers
  <2>2. AlteredSwitches' = AlteredSwitches
    BY <2>1, Zenon DEF AlteredSwitches, hookVars
  <2>3. QED
    BY <1>1, <1>2, <2>1, <2>2, UnhookedPreserves, Zenon DEF hookVars
<1>8. ASSUME NEW s \in Callbacks, Raise(s)
      PROVE  HookInv'
  <2>1. /\ crashed' = (\/ \E n \in DOMAIN Chain(s) :
                            Chain(s)[n] \in Modules /\ ~IsLoaded(Chain(s)[n])
                       \/ s = "zend_error_cb" /\ Chain(s)[Depth] # "engine")
        /\ UNCHANGED <<vars, neighbours, late, enable, modules, running, slot, saved, collected,
                       enabled_at>>
    BY <1>8, Zenon DEF Raise
  <2>2. AlteredSwitches' = AlteredSwitches
    BY <2>1, Zenon DEF AlteredSwitches
  <2>3. ASSUME AlteredSwitches = {} PROVE crashed' = FALSE
    <3>1. s \in Slots /\ (s = "zend_error_cb" => Base[s] = "engine") /\ s # "redis"
      BY BaseIsNoModule DEF Slots
    <3>2. SavedOK /\ slot[s] = Top(s)
      BY <2>3, <3>1, Zenon DEF HookInv, SlotsOK
    <3>3. /\ Chain(s)[Depth] = Base[s]
          /\ \A n \in 0 .. Depth : Chain(s)[n] \in Modules => IsLoaded(Chain(s)[n])
          /\ DOMAIN Chain(s) = 0 .. Depth
      BY <3>1, <3>2, ChainEnds, ChainLinks, DepthIsThree, Zenon
    <3>4. QED
      BY <2>1, <3>1, <3>3, Zenon
  <2>4. crashed' \in BOOLEAN
    BY <2>1
  <2>5. QED
    BY <1>1, <1>2, <2>1, <2>2, <2>3, <2>4, UnhookedPreserves, Zenon DEF vars
<1>9. CASE UNCHANGED registryVars
  <2>1. AlteredSwitches' = AlteredSwitches
    BY <1>9, Zenon DEF AlteredSwitches, registryVars, hookVars
  <2>2. QED
    BY <1>1, <1>2, <1>9, <2>1, UnhookedPreserves, Zenon DEF registryVars, vars, hookVars
<1>10. QED
  BY <1>3, <1>4, <1>5, <1>6, <1>7, <1>8, <1>9, MinitPreserves, ShutdownPreserves,
     UnloadPreserves, Zenon
  DEF RegistryNext

(* The invariant holds in every reachable state. *)
THEOREM HookInvHolds == RegistrySpec => []HookInv
BY HooksEstablished, HookStep, PTL DEF RegistrySpec

(* While scripts run, a call of every pointer passes each installed hook     *)
(* once and reaches the engine's own, for every set of neighbours, every     *)
(* setting of the switches and whatever a pool changes (zend_hook.cc:17-48).  *)
THEOREM CallsPassEveryHook == RegistrySpec => []HooksChained
BY HookInvHolds, ChainsComplete, PTL

(* If no switch was changed, no pointer leads to this module once it is       *)
(* unloaded, and no error is ever raised into it (zend_hook.cc:50-81).        *)
THEOREM HooksAreGivenBack == RegistrySpec => []HooksGivenBack
BY HookInvHolds, GivenBackComplete, PTL
=============================================================================
