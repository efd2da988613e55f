------------------------------ MODULE MCImChat ------------------------------
(* Small instances of ImChat: clients of alice and bob who write to each other, bob
   without logging in; the same with bob logged in, and alice alone writing to herself,
   when a pool or a queue is full once; and alice, who changes her contacts, while bob
   registers by JSON-RPC, with one such shortage too.  Alice loses a connection. *)
EXTENDS ImChat, TLC

CONSTANTS alice, bob, a1, b1

MCUsers == {alice, bob}
MCClients == {a1, b1}
MCUserOf == a1 :> alice @@ b1 :> bob
MCNames == {"b", "bob"}

doReg == [op |-> "reg"]
doLogin == [op |-> "login"]
sendTo(u) == [op |-> "send", to |-> u]
list == [op |-> "cont_list"]
add(u, n) == [op |-> "cont_add", id |-> u, name |-> n]
del(u) == [op |-> "cont_del", id |-> u]

Setup(full, b1Api, a1Script, b1Script) ==
    [api |-> a1 :> "grpc" @@ b1 :> b1Api, shortages |-> full,
     script |-> a1 :> a1Script @@ b1 :> b1Script]

MCSetups == {
    Setup(0, "grpc", <<doReg, doLogin, sendTo(bob)>>, <<doLogin, doReg, sendTo(alice)>>),
    Setup(1, "grpc", <<doReg, doLogin, sendTo(bob)>>, <<doReg, doLogin>>),
    Setup(1, "grpc", <<doReg, doLogin, sendTo(alice)>>, <<doReg>>),
    Setup(1, "jsonrpc",
          <<doReg, doLogin, add(bob, "b"), add(bob, "bob"), list, del(bob), list>>,
          <<doReg>>)}
MCLosses == a1 :> 1 @@ b1 :> 0
=============================================================================
