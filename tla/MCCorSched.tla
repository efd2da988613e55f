----------------------------- MODULE MCCorSched -----------------------------
(* Small instances of CorSched: the coroutines of exec_test's my_co0, where a
   and b are created by main and both main and b join a, and a program with a
   coroutine that blocks its thread. *)
EXTENDS CorSched, TLC

CONSTANTS main, a, b, v, z

MCCo == {main, a, b, v, z}

yield == [op |-> "yield", co |-> NoCo]
block == [op |-> "block", co |-> NoCo]
create(t) == [op |-> "create", co |-> t]
join(t) == [op |-> "join", co |-> t]

\* Joins without stealing; thread-blocking coroutines in the default build; joins
\* there while an executor that is only slow is replaced; and full queues: task
\* queues of two and one place for joiners.
JoinConf == [steal |-> FALSE, qcap |-> 4, waitcap |-> 4, slow |-> 0, initial |-> <<main>>,
             prog |-> main :> <<create(a), create(b), yield, join(a)>>
                      @@ a :> <<yield>> @@ b :> <<yield, join(a), yield>>]
BlockConf == [steal |-> TRUE, qcap |-> 3, waitcap |-> 4, slow |-> 0, initial |-> <<main>>,
              prog |-> main :> <<create(a), create(b), create(v), block>>
                       @@ a :> <<yield>> @@ b :> <<join(a)>> @@ v :> <<block>>]
SlowConf == [steal |-> TRUE, qcap |-> 3, waitcap |-> 4, slow |-> 1, initial |-> <<main>>,
             prog |-> main :> <<create(a), create(b)>>
                      @@ a :> <<yield>> @@ b :> <<join(a), yield>>]
FullConf == [steal |-> TRUE, qcap |-> 2, waitcap |-> 1, slow |-> 0, initial |-> <<main>>,
             prog |-> main :> <<create(a), create(b), create(v), create(z), join(a)>>
                      @@ a :> <<yield>> @@ b :> <<join(a)>> @@ v :> <<>> @@ z :> <<>>]
MCConfs == {JoinConf, BlockConf, SlowConf, FullConf}
=============================================================================
