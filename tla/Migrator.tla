------------------------------ MODULE Migrator ------------------------------
(***************************************************************************)
(* The migrator: db:migrate, db:migrate:rollback, :reset, :refresh and     *)
(* :fresh on one database, by any number of processes.                     *)
(*                                                                         *)
(* A migration is a file whose up() is a row of statements and whose       *)
(* down() undoes them in reverse order.  Every statement commits by        *)
(* itself: up() and its row in the migrations table are not one            *)
(* transaction.  A statement that has been applied cannot be applied       *)
(* again; it raises, and the command ends there.                           *)
(***************************************************************************)
EXTENDS Integers, FiniteSets, SequencesExt

CONSTANTS
    Migrators,      \* the processes
    N,              \* the migrations 1 .. N, in the order of their file names
    Statements,     \* of one migration
    Commands,       \* the commands a process may run
    Connection,     \* the --connection option: "default" or "other"
    MaxCommands,    \* bound of the commands that are run
    MaxCrashes      \* bound of the processes that are killed

ASSUME MigratorAssumption ==
    /\ N \in Nat \ {0} /\ Statements \in Nat \ {0}
    /\ Commands \subseteq {"migrate", "rollback", "reset", "refresh", "fresh"}
    /\ Connection \in {"default", "other"}
    /\ MaxCommands \in Nat /\ MaxCrashes \in Nat

Files == 1 .. N
Connections == {"default", "other"}
MigrationsTable == 0
Idle == [at |-> "idle", cmd |-> "none", todo |-> <<>>, batch |-> 0, step |-> 0]

VARIABLES
    files,      \* the migrations whose file is there
    tables,     \* on each connection, the statements of each migration applied
    rows,       \* on each connection, the migrations table in the order of its ids
    run,        \* what each process is doing
    order,      \* history: the migrations applied and not undone, oldest first
    commands, crashes

migratorVars == <<files, tables, rows, run, order, commands, crashes>>

Row == [migration : Files, batch : Nat \ {0}]
TypeOK ==
    /\ files \subseteq Files /\ commands \in 0 .. MaxCommands /\ crashes \in 0 .. MaxCrashes
    /\ tables \in [Connections -> [Files -> 0 .. Statements]]
    /\ \A c \in Connections : rows[c] \in Seq(Row)
    /\ order \in Seq(Files) /\ IsInjective(order)
    /\ run \in [Migrators -> [at : {"idle", "list", "batch", "up", "record", "last", "down", "delete", "again", "drop", "ok"},
                              cmd : Commands \cup {"none"}, todo : Seq(0 .. N), batch : Nat, step : 0 .. Statements]]

MigratorInit ==
    /\ files \in SUBSET Files /\ commands = 0 /\ crashes = 0
    /\ tables = [c \in Connections |-> [m \in Files |-> 0]]
    /\ rows = [c \in Connections |-> <<>>] /\ order = <<>>
    /\ run = [p \in Migrators |-> Idle]
-----------------------------------------------------------------------------
\* The schema builder and the queries that start from the class of the model
\* ignore the connection the model was put on; new_query() of reset() does not.
Used == "default"
Recorded(c) == {row.migration : row \in ToSet(rows[c])}
MaxBatch(c) == IF rows[c] = <<>> THEN 0 ELSE Max({row.batch : row \in ToSet(rows[c])})
Migrations(seq) == [i \in 1 .. Len(seq) |-> seq[i].migration]

Unran == SetToSortSeq(files \ Recorded(Used), <)
\* Bug: in the order of their ids.
LastBatchInOrder(batch) == Migrations(SelectSeq(rows[Used], LAMBDA row : row.batch = batch))
LastBatch(batch) == Reverse(Migrations(SelectSeq(rows[Used], LAMBDA row : row.batch = batch)))

IsAt(p, where) == run[p].at = where
Migration(p) == Head(run[p].todo)
More(p) == run[p].todo # <<>>
Set(p, r) == run' = [run EXCEPT ![p] = r]
Goes(p, where) == Set(p, [run[p] EXCEPT !.at = where, !.step = 0])
NextMigration(p, where) == Set(p, [run[p] EXCEPT !.at = where, !.step = 0, !.todo = Tail(@)])
Fails(p) == Set(p, Idle) /\ UNCHANGED <<files, tables, rows, order, commands, crashes>>

\* A command starts; one that has ended or was killed leaves nothing behind.
Command(p) ==
    /\ run[p].at \in {"idle", "ok"} /\ commands < MaxCommands /\ commands' = commands + 1
    /\ \E cmd \in Commands : Set(p, [Idle EXCEPT !.at = "list", !.cmd = cmd])
    /\ UNCHANGED <<files, tables, rows, order, crashes>>

List(p) ==
    /\ IsAt(p, "list")
    /\ \/ /\ run[p].cmd = "migrate"
          /\ Set(p, [run[p] EXCEPT !.at = IF Unran = <<>> THEN "ok" ELSE "batch", !.todo = Unran])
       \/ /\ run[p].cmd = "rollback"
          /\ Set(p, [run[p] EXCEPT !.at = "last", !.batch = MaxBatch(Used)])
       \/ /\ run[p].cmd \in {"reset", "refresh"}
          /\ Set(p, [run[p] EXCEPT !.at = "down", !.todo = Reverse(Migrations(rows[Connection]))])
       \/ /\ run[p].cmd = "fresh"
          /\ \E all \in SetToSeqs({MigrationsTable} \cup {m \in Files : tables[Used][m] > 0}) :
                 Set(p, [run[p] EXCEPT !.at = "drop", !.todo = all])
    /\ UNCHANGED <<files, tables, rows, order, commands, crashes>>

ReadBatch(p) ==
    /\ IsAt(p, "batch")
    /\ Set(p, [run[p] EXCEPT !.at = "up", !.batch = MaxBatch(Used) + 1])
    /\ UNCHANGED <<files, tables, rows, order, commands, crashes>>

ReadLast(p) ==
    /\ IsAt(p, "last")
    /\ Set(p, [run[p] EXCEPT !.at = "down", !.todo = LastBatch(run[p].batch)])
    /\ UNCHANGED <<files, tables, rows, order, commands, crashes>>

Applied(p, k) == tables[Used][Migration(p)] = k
Apply(p, k) ==
    /\ tables' = [tables EXCEPT ![Used][Migration(p)] = k]
    /\ order' = CASE Applied(p, 0) -> Append(order, Migration(p))
                  [] k = 0 -> Remove(order, Migration(p))
                  [] OTHER -> order
    /\ UNCHANGED <<files, rows, commands, crashes>>

\* Bug: the migration is recorded when up() has begun.
UpBegun(p) ==
    /\ IsAt(p, "up") /\ More(p)
    /\ IF Applied(p, run[p].step) THEN Apply(p, run[p].step + 1) /\ Goes(p, "record") ELSE Fails(p)
Up(p) ==
    /\ IsAt(p, "up") /\ More(p) /\ Migration(p) \in files
    /\ IF Applied(p, run[p].step)
         THEN /\ Apply(p, run[p].step + 1)
              /\ IF run[p].step + 1 = Statements THEN Goes(p, "record") ELSE Set(p, [run[p] EXCEPT !.step = @ + 1])
         ELSE Fails(p)

Record(p) ==
    /\ IsAt(p, "record")
    /\ rows' = [rows EXCEPT ![Used] = Append(@, [migration |-> Migration(p), batch |-> run[p].batch])]
    /\ NextMigration(p, "up") /\ UNCHANGED <<files, tables, order, commands, crashes>>

Down(p) ==
    /\ IsAt(p, "down") /\ More(p) /\ Migration(p) \in files
    /\ IF Applied(p, Statements - run[p].step)
         THEN /\ Apply(p, Statements - run[p].step - 1)
              /\ IF run[p].step + 1 = Statements THEN Goes(p, "delete") ELSE Set(p, [run[p] EXCEPT !.step = @ + 1])
         ELSE Fails(p)

\* locate() answers None: reset() catches the TypeError of the call, rollback()
\* makes the call outside its try.
Missing(p) ==
    /\ IsAt(p, "down") /\ More(p) /\ Migration(p) \notin files
    /\ IF run[p].cmd = "rollback" THEN Fails(p)
       ELSE NextMigration(p, "down") /\ UNCHANGED <<files, tables, rows, order, commands, crashes>>

\* reset() deletes the row a second time.
DeleteRow(p) ==
    /\ run[p].at \in {"delete", "again"}
    /\ rows' = [rows EXCEPT ![Used] = SelectSeq(@, LAMBDA row : row.migration # Migration(p))]
    /\ IF IsAt(p, "delete") /\ run[p].cmd # "rollback" THEN Goes(p, "again") ELSE NextMigration(p, "down")
    /\ UNCHANGED <<files, tables, order, commands, crashes>>

Drop(p) ==
    /\ IsAt(p, "drop") /\ More(p) /\ NextMigration(p, "drop")
    /\ IF Migration(p) = MigrationsTable
         THEN rows' = [rows EXCEPT ![Used] = <<>>] /\ UNCHANGED <<tables, order>>
         ELSE /\ tables' = [tables EXCEPT ![Used][Migration(p)] = 0]
              /\ order' = Remove(order, Migration(p)) /\ UNCHANGED rows
    /\ UNCHANGED <<files, commands, crashes>>

\* refresh() and fresh() go on with migrate().
Ends(p) ==
    /\ run[p].at \in {"up", "down", "drop"} /\ ~More(p)
    /\ IF run[p].cmd \in {"refresh", "fresh"}
         THEN Set(p, [Idle EXCEPT !.at = "list", !.cmd = "migrate"]) ELSE Goes(p, "ok")
    /\ UNCHANGED <<files, tables, rows, order, commands, crashes>>

Crash(p) ==
    /\ run[p].at \notin {"idle", "ok"} /\ crashes < MaxCrashes /\ crashes' = crashes + 1
    /\ Set(p, Idle) /\ UNCHANGED <<files, tables, rows, order, commands>>

\* Between commands another version of the program, with other files.
Deploy ==
    /\ \A p \in Migrators : run[p].at \in {"idle", "ok"}
    /\ files' \in SUBSET Files /\ files' # files
    /\ run' = [p \in Migrators |-> Idle]
    /\ UNCHANGED <<tables, rows, order, commands, crashes>>

Step(p) ==
    \/ Command(p) \/ List(p) \/ ReadBatch(p) \/ ReadLast(p) \/ Up(p) \/ Record(p)
    \/ Down(p) \/ Missing(p) \/ DeleteRow(p) \/ Drop(p) \/ Ends(p) \/ Crash(p)
MigratorNext == Deploy \/ \E p \in Migrators : Step(p)
MigratorSpec == MigratorInit /\ [][MigratorNext]_migratorVars
-----------------------------------------------------------------------------
\* Between commands that nobody killed, what is recorded is what is applied,
\* and it is applied completely (Migrator.py 108-153, 155-201, 209-240).
AtRest ==
    (\A p \in Migrators : run[p].at \in {"idle", "ok"}) =>
        \A m \in Files : tables[Used][m] = IF m \in Recorded(Used) THEN Statements ELSE 0

\* A migration is undone only when nothing that was applied after it, and whose
\* file is there, is still applied (Migrator.py 55-59, 155-201, 209-240).
LastInFirstOut ==
    [][\A m \in Files :
        (tables'[Used][m] < tables[Used][m] /\ \A p \in Migrators : run[p].at # "drop")
            => m = Last(SelectSeq(order, LAMBDA n : n \in files))]_migratorVars

\* A recorded migration is applied completely, except while a command undoes
\* it, whoever is killed while several processes migrate (Migrator.py 134, 153,
\* 164, 198).
RecordedIsApplied ==
    \A m \in Recorded(Used) :
        \/ tables[Used][m] = Statements
        \/ \E p \in Migrators : run[p].at \in {"down", "delete", "drop"}

\* No migration is recorded twice (Migrator.py 109-112, 134, 153).
RecordedOnce == Cardinality(Recorded(Used)) = Len(rows[Used])

\* Commands run on another connection leave this one alone
\* (Migrator.py 30-32, commands/DBMigrateCommand.py 22-27).
OnItsConnection == \A c \in Connections \ {Connection} : rows[c] = <<>> /\ \A m \in Files : tables[c][m] = 0

\* What the migrations table says is true (Migrator.py 108-153, 198).
RecordedTruly == RecordedIsApplied /\ RecordedOnce
=============================================================================
