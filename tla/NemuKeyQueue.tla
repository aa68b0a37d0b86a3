---------------------------- MODULE NemuKeyQueue ----------------------------
(***************************************************************************)
(* nemu/src/device/keyboard.c: the ring in which the emulator keeps key    *)
(* events until the guest reads them, and the i8042 data port.  A read of  *)
(* the port runs the handler first, so it takes the oldest event out of    *)
(* the ring, or returns NEMU_KEY_NONE.                                     *)
(***************************************************************************)
EXTENDS Naturals, Sequences

CONSTANTS KeyQueueLen,   \* KEY_QUEUE_LEN: 1024 in the code
          AmKey,         \* keys with a keymap entry, down or up
          NoKey          \* NEMU_KEY_NONE

ASSUME KeyQueueAssumption == KeyQueueLen \in Nat \ {0, 1} /\ NoKey \notin AmKey

VARIABLES key_queue, key_f, key_r,
          port           \* i8042_data_port_base[0]

keyVars == <<key_queue, key_f, key_r, port>>

KeySlot == 0..(KeyQueueLen - 1)

KeyNext(i) == IF i = KeyQueueLen - 1 THEN 0 ELSE i + 1

\* The assertion of key_enqueue fails: one event too many.
KeyQueueFull == KeyNext(key_r) = key_f

key_enqueue(k) == /\ key_queue' = [key_queue EXCEPT ![key_r] = k]
                  /\ key_r' = KeyNext(key_r)
                  /\ UNCHANGED <<key_f, port>>

\* The event key_dequeue returns.
FrontKey == IF key_f = key_r THEN NoKey ELSE key_queue[key_f]

i8042_data_io_unguarded ==
    /\ port' = FrontKey
    /\ key_f' = KeyNext(key_f)
    /\ UNCHANGED <<key_queue, key_r>>

\* The read of the data port: the handler dequeues into the port.
i8042_data_io_handler ==
    /\ port' = FrontKey
    /\ key_f' = IF key_f = key_r THEN key_f ELSE KeyNext(key_f)
    /\ UNCHANGED <<key_queue, key_r>>

KeyQueueInit == /\ key_queue = [i \in KeySlot |-> NoKey]
                /\ key_f = 0 /\ key_r = 0
                /\ port = NoKey

KeyQueueTypeOK == /\ key_queue \in [KeySlot -> AmKey \cup {NoKey}]
                  /\ key_f \in KeySlot /\ key_r \in KeySlot
                  /\ port \in AmKey \cup {NoKey}

\* Events waiting, oldest first.
NrPending  == IF key_r >= key_f THEN key_r - key_f ELSE key_r + KeyQueueLen - key_f
PendingKey == [i \in 1..NrPending |->
                  key_queue[IF key_f + i - 1 < KeyQueueLen
                            THEN key_f + i - 1 ELSE key_f + i - 1 - KeyQueueLen]]
=============================================================================
