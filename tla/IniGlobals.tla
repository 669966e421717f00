----------------------------- MODULE IniGlobals -----------------------------
(***************************************************************************)
(* The numbers among the ini settings.  They live as 32-bit ints in the     *)
(* module globals, but are registered with php's OnUpdateLong, which stores *)
(* a 64-bit zend_long: every update of a setting also stores the upper half *)
(* of its value, 0, into the word behind it.  Memory is modelled word by    *)
(* word; of a pointer only the lower word counts, 1 when intact.            *)
(***************************************************************************)
EXTENDS Integers, Sequences

CONSTANT Values     \* values the settings are given

ASSUME ValuesAssumption == Values \subseteq Nat

Longs == {"sample_ratio_based", "max_time_consuming", "udp_port", "udp_look_up_time",
          "max_message_size", "max_queue_length", "consumer_nums", "cli_consumer_nums",
          "grpc_timeout_milliseconds"}
Pointers == {"log_path", "message_queue_name"}
Words == Longs \cup Pointers \cup {"padding"}

(* The layout of the globals: the word behind every number. *)
Behind == [sample_ratio_based        |-> "max_time_consuming",
           max_time_consuming        |-> "log_path",
           udp_port                  |-> "udp_look_up_time",
           udp_look_up_time          |-> "message_queue_name",
           max_message_size          |-> "max_queue_length",
           max_queue_length          |-> "consumer_nums",
           consumer_nums             |-> "cli_consumer_nums",
           cli_consumer_nums         |-> "grpc_timeout_milliseconds",
           grpc_timeout_milliseconds |-> "padding"]

(* mutant: two entries of the table below have changed places. *)
OrderSwapped == <<"max_time_consuming", "sample_ratio_based", "log_path", "udp_port",
                  "udp_look_up_time", "max_message_size", "max_queue_length", "consumer_nums",
                  "cli_consumer_nums", "grpc_timeout_milliseconds">>

(* The order of the ini entries, which is that of their registration. *)
Order == <<"sample_ratio_based", "max_time_consuming", "log_path", "udp_port",
           "udp_look_up_time", "max_message_size", "max_queue_length", "consumer_nums",
           "cli_consumer_nums", "grpc_timeout_milliseconds">>

VARIABLES
    cli,        \* is_cli_sapi()
    memory,     \* what every word holds
    given,      \* history: the value last given to every word by its name
    registered, \* ini entries registered so far
    started,    \* opentelemetry_module_init is over
    updated     \* history: settings updated since MINIT

vars == <<cli, memory, given, registered, started, updated>>

Init ==
    /\ cli \in BOOLEAN
    /\ memory = [w \in Words |-> 0]
    /\ given = [w \in Words |-> 0]
    /\ registered = 0
    /\ started = FALSE
    /\ updated = {}

OnUpdateLong(e, value) ==
    /\ memory' = [memory EXCEPT ![e] = value, ![Behind[e]] = 0]
    /\ given' = [given EXCEPT ![e] = value]

OnUpdateString(e) ==
    /\ memory' = [memory EXCEPT ![e] = 1]
    /\ given' = [given EXCEPT ![e] = 1]

(* REGISTER_INI_ENTRIES. *)
Register ==
    /\ registered < Len(Order)
    /\ registered' = registered + 1
    /\ LET e == Order[registered + 1]
       IN IF e \in Pointers THEN OnUpdateString(e)
                            ELSE \E value \in Values : OnUpdateLong(e, value)
    /\ UNCHANGED <<cli, started, updated>>

(* The name of the queue in opentelemetry_module_init. *)
ModuleInit ==
    /\ registered = Len(Order) /\ ~started
    /\ started' = TRUE
    /\ memory' = [memory EXCEPT !["message_queue_name"] = 1]
    /\ given' = [given EXCEPT !["message_queue_name"] = 1]
    /\ UNCHANGED <<cli, registered, updated>>

(* A php_value of a php-fpm pool or a .user.ini, and its end with the        *)
(* request: the entries are PHP_INI_PERDIR.                                  *)
Alter(e, value) ==
    /\ started /\ ~cli
    /\ OnUpdateLong(e, value)
    /\ updated' = updated \cup {e}
    /\ UNCHANGED <<cli, registered, started>>

(* init_consumers under the cli SAPI. *)
InitConsumers ==
    /\ started /\ cli
    /\ memory' = [memory EXCEPT !["consumer_nums"] = memory["cli_consumer_nums"]]
    /\ given' = [given EXCEPT !["consumer_nums"] = given["cli_consumer_nums"]]
    /\ UNCHANGED <<cli, registered, started, updated>>

Next ==
    \/ Register
    \/ ModuleInit
    \/ \E e \in Longs, value \in Values : Alter(e, value)
    \/ InitConsumers

Spec == Init /\ [][Next]_vars

-----------------------------------------------------------------------------
(* Registration leaves every setting with its value, and an update from then *)
(* on spoils at most the word behind: the order of the entries and of the    *)
(* fields are kept apart from each other, in two files                       *)
(* (opentelemetry.cc:39-53, php_opentelemetry.h:208-227).                    *)
OnlyWordBehindSpoilt ==
    started => \A w \in Longs \cup Pointers :
        memory[w] # given[w] => memory[w] = 0 /\ \E e \in updated : Behind[e] = w

(* The threshold beyond which a slow request is exported anyway is the one   *)
(* that was configured (README.md, max_time_consuming).                      *)
MaxTimeConsumingKept == started => memory["max_time_consuming"] = given["max_time_consuming"]
=============================================================================
