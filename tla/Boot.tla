--------------------------------- MODULE Boot ---------------------------------
(***************************************************************************)
(* The life of the engined process: connect, create the tables, seed the   *)
(* market with seven commands, serve, and start again after every end.     *)
(* Source: crates/engined/src/main.rs and seed.rs, crates/api/src/         *)
(* server.rs, init_schema of crates/event_log/src/lib.rs, sql/, and        *)
(* `restart: on-failure` of docker-compose.yml.                            *)
(*                                                                         *)
(* The handler is CommandHandler's.  The seed calls it without a mutex, no *)
(* client being there yet; clients call it once a server listens.  `?`     *)
(* takes every error of the start-up, an engine error of a seed command    *)
(* included, out of main.  main never calls restore_from_log.              *)
(***************************************************************************)
EXTENDS CommandHandler

CONSTANTS
    SeedIds,      \* the command ids of the seed, in its order
    ClientIds,    \* command ids of clients
    ClientCommands, \* what clients send
    MaxBoots      \* bound: starts of the process

SeedOrder(id, side, price, quantity) ==
    PlaceOrder([order_id |-> id, side |-> side, price |-> price, quantity |-> quantity])

SeedCommands ==
    <<SeedOrder(1, "Ask", 102, 10),
      SeedOrder(2, "Ask", 104, 10),
      SeedOrder(3, "Bid", 99, 10),
      SeedOrder(4, "Bid", 97, 10),
      SeedOrder(5, "Bid", 105, 15),
      SeedOrder(6, "Ask", 98, 5),
      CancelOrder(4)>>

(* The ids of the seed are none of a client's, and no trade key.           *)
ASSUME BootAssumption ==
    /\ SeedIds \in Seq(CommandIds) /\ IsInjective(SeedIds)
    /\ Len(SeedIds) = Len(SeedCommands)
    /\ \A i \in DOMAIN SeedIds : SeedIds[i] \notin CommandIds \X (Nat \ {0})
    /\ \A i \in DOMAIN SeedCommands : SeedCommands[i] \in Commands
    /\ ClientIds \subseteq CommandIds \ Range(SeedIds)
    /\ ClientCommands \subseteq Commands
    /\ MaxBoots \in Nat

Tables  == {"event_log", "command_log"}
Servers == {"grpc", "http"}

VARIABLES
    phase,       \* where main is: "connect", a table it creates, "seed", "serve"
    tables,      \* the tables of the database
    seeded,      \* how many seed commands this boot has sent
    listening    \* the servers that accept requests

bootVars == <<phase, tables, seeded, listening>>
processVars  == <<vars, bootVars>>

(* The database is empty, or sql/001_event_log.sql has created the tables. *)
BootInit ==
    /\ Init
    /\ phase = "connect"
    /\ tables \in {{}, Tables}
    /\ seeded = 0
    /\ listening = {}

-------------------------------------------------------------------------------
(* The end of a process is the start of the next.                          *)
ProcessEnds ==
    /\ boot < MaxBoots
    /\ StartAgain
    /\ phase' = "connect"
    /\ seeded' = 0
    /\ listening' = {}
    /\ UNCHANGED tables

(* Connecting, creating a table, binding or serving returns an error;      *)
(* try_join! ends both servers with the one that fails.                    *)
BootFails ==
    /\ phase # "seed"
    /\ Spend("drops")
    /\ ProcessEnds

ProcessDies == Spend("crashes") /\ ProcessEnds

-------------------------------------------------------------------------------
(* main up to its seed.                                                    *)
Connect ==
    /\ phase = "connect"
    /\ phase' = "event_log"
    /\ UNCHANGED <<vars, tables, seeded, listening>>

TableRefusedIfThere(table) == table \in tables                      \* mutant

(* CREATE TABLE IF NOT EXISTS; command_log refers to event_log.            *)
TableRefused(table) == table = "command_log" /\ "event_log" \notin tables

CreateTable(table) ==
    /\ phase = table
    /\ IF TableRefused(table)
       THEN ProcessEnds /\ UNCHANGED budget
       ELSE /\ tables' = tables \cup {table}
            /\ phase' = IF table = "event_log" THEN "command_log" ELSE "seed"
            /\ UNCHANGED <<vars, seeded, listening>>

-------------------------------------------------------------------------------
(* seed_market.                                                            *)

SeedGoesOnAfterLogError ==                                          \* mutant
    seeded > 0 => IsOk(reply) \/ reply.result = "EventLog"

(* Nothing was sent yet, or the last command was answered Ok.              *)
SeedGoesOn == seeded > 0 => IsOk(reply)

SeedCommand ==
    /\ phase = "seed"
    /\ active = None
    /\ SeedGoesOn
    /\ seeded < Len(SeedIds)
    /\ Call(SeedIds[seeded + 1], SeedCommands[seeded + 1])
    /\ seeded' = seeded + 1
    /\ UNCHANGED <<budget, phase, tables, listening>>

SeedDone ==
    /\ phase = "seed"
    /\ active = None
    /\ SeedGoesOn
    /\ seeded = Len(SeedIds)
    /\ phase' = "serve"
    /\ UNCHANGED <<vars, tables, seeded, listening>>

(* A command of the seed was answered with an error.                       *)
SeedFails ==
    /\ phase = "seed"
    /\ active = None
    /\ ~ SeedGoesOn
    /\ ProcessEnds
    /\ UNCHANGED budget

-------------------------------------------------------------------------------
(* The servers, and what the handler does for seed and clients alike.      *)
Bind(server) ==
    /\ phase = "serve"
    /\ server \notin listening
    /\ listening' = listening \cup {server}
    /\ UNCHANGED <<vars, phase, tables, seeded>>

ClientCommand(k) ==
    /\ listening # {}
    /\ Spend("calls")
    /\ \E command \in ClientCommands : Call(k, command)
    /\ UNCHANGED bootVars

(* Only a client's future can be dropped.                                  *)
ClientGone ==
    /\ phase = "serve"
    /\ Drop
    /\ UNCHANGED bootVars

AppendFails == Fail /\ UNCHANGED bootVars

HandlerStep == (AppendEvent \/ EventCommitted) /\ UNCHANGED bootVars

DatabaseStep == OrphanEnds /\ UNCHANGED bootVars

MainStep ==
    \/ Connect
    \/ \E table \in Tables : CreateTable(table)
    \/ SeedCommand \/ SeedDone \/ SeedFails
    \/ \E server \in Servers : Bind(server)

BootNext ==
    \/ MainStep
    \/ \E k \in ClientIds : ClientCommand(k)
    \/ ClientGone
    \/ HandlerStep
    \/ AppendFails
    \/ DatabaseStep
    \/ BootFails
    \/ ProcessDies

(* main, the running call and the database's clean-up go on; nothing has   *)
(* to fail and no client has to come.                                      *)
BootSpec ==
    /\ BootInit /\ [][BootNext]_processVars
    /\ WF_processVars(MainStep) /\ WF_processVars(HandlerStep) /\ WF_processVars(DatabaseStep)

-------------------------------------------------------------------------------
(* Properties.                                                             *)

(* Types.  What is sent is what the seed or a client has; a boot serves or *)
(* seeds with both tables there.                                           *)
BootTypeOK ==
    /\ TypeOK
    /\ phase \in {"connect", "seed", "serve"} \cup Tables
    /\ tables \subseteq Tables
    /\ phase \in {"seed", "serve"} => tables = Tables
    /\ seeded \in 0 .. Len(SeedIds)
    /\ listening \subseteq Servers
    /\ listening # {} => phase = "serve"
    /\ boot <= MaxBoots

(* The first events of the log's commands, in the order of seq.            *)
FirstEvents == At(log, {i \in DOMAIN log : IsFirstEvent(log[i])})
Commanded   == [i \in DOMAIN FirstEvents |-> FirstEvents[i].key]

(* The seed's commands stand in the log in the seed's order, each once,    *)
(* before every command of a client, however many boots it took, whichever *)
(* of them failed or died and whatever an abandoned append still commits:  *)
(* a server that listens has the whole seed behind it.                     *)
SeedComesFirst ==
    /\ IsPrefix(Commanded, SeedIds) \/ IsPrefix(SeedIds, Commanded)
    /\ listening # {} => \A i \in DOMAIN SeedIds : Logged(SeedIds[i])

(* A boot may fail at the cancel of the seed, when its order was placed in *)
(* an earlier boot and the book has forgotten it; that takes one boot, not *)
(* every one from then on, and nothing else of the seed is ever refused.   *)
OnlyTheCancelIsRefused ==
    \A i \in DOMAIN SeedIds : \A n \in DOMAIN runs[SeedIds[i]] :
        LET run == runs[SeedIds[i]][n]
        IN  run.error # "None" => run.error = "OrderNotFound" /\ i = Len(SeedIds) /\ n = 1

(* A first boot that nothing disturbs leaves the session of README.md,     *)
(* "Seed data": its ten events and its book.                               *)
SeedTrade(maker, taker, price, quantity) ==
    TradeExecuted([maker_order_id |-> maker, taker_order_id |-> taker,
                   price |-> price, quantity |-> quantity])

OpeningSession ==
    <<OrderAccepted(1), OrderAccepted(2), OrderAccepted(3), OrderAccepted(4),
      OrderAccepted(5), SeedTrade(1, 5, 102, 10), SeedTrade(2, 5, 104, 5),
      OrderAccepted(6), SeedTrade(3, 6, 99, 5), OrderCanceledEvent(4)>>

OpeningBook ==
    [Bid |-> <<[order_id |-> 3, side |-> "Bid", price |-> 99, quantity |-> 5]>>,
     Ask |-> <<[order_id |-> 2, side |-> "Ask", price |-> 104, quantity |-> 5]>>]

Opens ==
    boot = 0 /\ phase = "serve" /\ (\A k \in ClientIds : submitted[k] = None) =>
        /\ [i \in DOMAIN log |-> log[i].event] = OpeningSession
        /\ book = OpeningBook

(* In the end both servers listen, whatever failed on the way: no boot     *)
(* leaves something behind that makes all later boots fail.                *)
Serves == <>[](listening = Servers)
===============================================================================
