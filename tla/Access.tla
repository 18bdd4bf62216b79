------------------------------- MODULE Access -------------------------------
(***************************************************************************)
(* The rows behind who may enter where: the columns of a user that lock    *)
(* the account after wrong passwords (AuthService.login, registrarFalha),  *)
(* and the stores of a profile (PerfisController.update).                  *)
(*                                                                         *)
(* Each request is a handler with one action per query that counts.  A     *)
(* login writes what it computed from the row it read before it compared   *)
(* the password, and an update of a profile deletes the old stores and     *)
(* creates the new ones in two queries; other requests run in between, and *)
(* each may be the last.                                                   *)
(***************************************************************************)
EXTENDS Naturals, FiniteSets

CONSTANTS
    Acts,          \* requests, each once
    Lojas,
    MaxTentativas  \* MAX_TENTATIVAS, 5 in the code

ASSUME AccessAssumption == MaxTentativas \in Nat \ {0}

VARIABLES
    failedLoginAttempts,
    lockedUntil, \* "none", in the "future", or "past"
    lojas,       \* the PerfilLojaAcesso of the profile
    stage,       \* the query a request is about to make
    lido,        \* of a login, the row it read
    pedido,      \* of an update of the profile, the stores it asks for
    overtaken,   \* history: logins whose row was written since they read it
    ideal,       \* history: the row of a counter that were one step
    trusted,     \* history: no overtaken login has written since the row was last reset
    wrong,       \* history: logins with a wrong password
    ultimo,      \* history: the stores the last finished update asked for
    mixed        \* history: two updates were under way together

rowVars        == <<failedLoginAttempts, lockedUntil>>
counterHistory == <<overtaken, ideal, trusted, wrong>>
profileVars    == <<lojas, pedido, ultimo, mixed>>
accessVars     == <<rowVars, stage, lido, counterHistory, profileVars>>

Stages == {"none", "comparing", "creating", "over", "failed", "interrupted"}
Row    == [falhas : Nat, trancada : BOOLEAN]
Zero   == [falhas |-> 0, trancada |-> FALSE]
Lido   == [falhas |-> failedLoginAttempts, trancada |-> lockedUntil # "none"]

AccessTypeOK ==
    /\ failedLoginAttempts \in Nat
    /\ lockedUntil \in {"none", "future", "past"}
    /\ lojas     \subseteq Lojas
    /\ stage     \in [Acts -> Stages]
    /\ lido      \in [Acts -> Row]
    /\ pedido    \in [Acts -> SUBSET Lojas]
    /\ overtaken \subseteq Acts
    /\ ideal     \in Row
    /\ trusted   \in BOOLEAN
    /\ wrong     \subseteq Acts
    /\ ultimo    \subseteq Lojas
    /\ mixed     \in BOOLEAN

AccessInit ==
    /\ failedLoginAttempts = 0
    /\ lockedUntil = "none"
    /\ lojas     \in SUBSET Lojas
    /\ stage     = [c \in Acts |-> "none"]
    /\ lido      = [c \in Acts |-> Zero]
    /\ pedido    = [c \in Acts |-> {}]
    /\ overtaken = {}
    /\ ideal     = Zero
    /\ trusted   = TRUE
    /\ wrong     = {}
    /\ ultimo    = lojas
    /\ mixed     = FALSE

Becomes(c, where) == stage' = [stage EXCEPT ![c] = where]

\* The row of the user is written by c.
Overtakes(c) == overtaken' = overtaken \cup {d \in Acts \ {c} : stage[d] = "comparing"}
Reset(c) ==
    /\ failedLoginAttempts' = 0
    /\ lockedUntil' = "none"
    /\ trusted' = TRUE
    /\ Overtakes(c)

-----------------------------------------------------------------------------
(* Plausible bugs: each replaces the operator it is named after, to show    *)
(* that a property notices it.                                             *)

\* The lock is not looked at before the password is.
FindUnguarded(c) ==
    /\ stage[c] = "none"
    /\ Becomes(c, "comparing")
    /\ lido' = [lido EXCEPT ![c] = Lido]
    /\ UNCHANGED <<rowVars, counterHistory, profileVars>>

\* A right password leaves the failures before it.
AcceptWithoutReset(c) ==
    /\ stage[c] = "comparing"
    /\ Becomes(c, "over")
    /\ ideal' = Zero
    /\ trusted' = (trusted /\ c \notin overtaken)
    /\ UNCHANGED <<rowVars, lido, overtaken, wrong, profileVars>>

\* The new stores are added to the old ones.
EmptyNothing(c, S) ==
    /\ stage[c] = "none"
    /\ Becomes(c, "creating")
    /\ pedido' = [pedido EXCEPT ![c] = S]
    /\ mixed' = (mixed \/ \E d \in Acts : stage[d] = "creating")
    /\ UNCHANGED <<lojas, rowVars, lido, counterHistory, ultimo>>

-----------------------------------------------------------------------------
(* POST /auth/login.                                                       *)

\* Refused while the account is locked.
Find(c) ==
    /\ stage[c] = "none"
    /\ IF lockedUntil = "future"
       THEN Becomes(c, "over") /\ UNCHANGED lido
       ELSE Becomes(c, "comparing") /\ lido' = [lido EXCEPT ![c] = Lido]
    /\ UNCHANGED <<rowVars, counterHistory, profileVars>>

\* registrarFalha: what is written rests on what was read, and takes a lock away that was
\* set meanwhile.
Trancar(falhas) == falhas >= MaxTentativas
Counted(row) == [falhas   |-> IF Trancar(row.falhas + 1) THEN 0 ELSE row.falhas + 1,
                 trancada |-> Trancar(row.falhas + 1)]

RegistrarFalha(c) ==
    /\ stage[c] = "comparing"
    /\ failedLoginAttempts' = Counted(lido[c]).falhas
    /\ lockedUntil' = IF Counted(lido[c]).trancada THEN "future" ELSE "none"
    /\ Becomes(c, "over")
    /\ Overtakes(c)
    /\ ideal'   = Counted(ideal)
    /\ trusted' = (trusted /\ c \notin overtaken)
    /\ wrong'   = wrong \cup {c}
    /\ UNCHANGED <<lido, profileVars>>

\* The password is right; the row is written if it had anything to reset.
Accept(c) ==
    /\ stage[c] = "comparing"
    /\ Becomes(c, "over")
    /\ ideal' = Zero
    /\ IF lido[c].falhas > 0 \/ lido[c].trancada
       THEN Reset(c)
       ELSE trusted' = (trusted /\ c \notin overtaken) /\ UNCHANGED <<rowVars, overtaken>>
    /\ UNCHANGED <<lido, wrong, profileVars>>

-----------------------------------------------------------------------------
\* POST /users/:id/desbloquear, a new password given by an administrator, and a change of
\* password reset the row whatever it was.
Release(c) ==
    /\ stage[c] = "none"
    /\ Becomes(c, "over")
    /\ Reset(c)
    /\ ideal' = Zero
    /\ UNCHANGED <<lido, wrong, profileVars>>

\* BLOQUEIO_MINUTOS are over.
Elapse ==
    /\ lockedUntil = "future"
    /\ lockedUntil' = "past"
    /\ UNCHANGED <<failedLoginAttempts, stage, lido, counterHistory, profileVars>>

-----------------------------------------------------------------------------
(* PATCH /perfis/:id with a list of stores.                                *)

Empty(c, S) ==
    /\ stage[c] = "none"
    /\ Becomes(c, "creating")
    /\ lojas'  = {}
    /\ pedido' = [pedido EXCEPT ![c] = S]
    /\ mixed'  = (mixed \/ \E d \in Acts : stage[d] = "creating")
    /\ UNCHANGED <<rowVars, lido, counterHistory, ultimo>>

\* @@unique([perfilId, lojaId]): the whole query fails if a store is there already.
Create(c) ==
    /\ stage[c] = "creating"
    /\ IF lojas \cap pedido[c] = {}
       THEN Becomes(c, "over") /\ lojas' = lojas \cup pedido[c] /\ ultimo' = pedido[c]
       ELSE Becomes(c, "interrupted") /\ UNCHANGED <<lojas, ultimo>>
    /\ UNCHANGED <<rowVars, lido, counterHistory, pedido, mixed>>

-----------------------------------------------------------------------------
\* The database fails or the process dies between two queries.
Stop(c) ==
    /\ \/ stage[c] = "comparing" /\ Becomes(c, "failed")
       \/ stage[c] = "creating"  /\ Becomes(c, "interrupted")
    /\ UNCHANGED <<rowVars, lido, counterHistory, profileVars>>

AccessNext ==
    \/ \E c \in Acts :
          \/ Find(c) \/ RegistrarFalha(c) \/ Accept(c) \/ Release(c)
          \/ \E S \in SUBSET Lojas : Empty(c, S)
          \/ Create(c)
          \/ Stop(c)
    \/ Elapse

AccessSpec == AccessInit /\ [][AccessNext]_accessVars

-----------------------------------------------------------------------------
(* Properties.                                                             *)

\* However logins overlap and overwrite one another's counts, no account is locked before
\* MAX_TENTATIVAS of them had a wrong password (auth.service.ts:32-33, 267-276).
LockEarned == lockedUntil = "future" => Cardinality(wrong) >= MaxTentativas

\* As long as every login writes on the row it read, the row is that of a counter that reads
\* and writes in one step, and a success or a release makes it so again
\* (schema.prisma:653: "Falhas de senha consecutivas. Zera a cada login bem-sucedido").
CountedInTurn == trusted => Lido = ideal

\* A lock only ends with its time, by a release, or by a login that read the row before it
\* was locked - whose failure lifts it as well as its success (auth.service.ts:274).
LiftedBy(c) == stage[c] # stage'[c] /\ (c \in overtaken \/ stage[c] = "none")
LockStands ==
    [][lockedUntil = "future" /\ lockedUntil' = "none" => \E c \in Acts : LiftedBy(c)]_accessVars

\* The stores of a profile are those the last update asked for, unless two ran together:
\* only an update under way, or one that ended between its queries, leaves it without any
\* (perfis.controller.ts:54-65).
ProfileWhole ==
    ~mixed => \/ lojas = ultimo
              \/ lojas = {} /\ \E c \in Acts : stage[c] \in {"creating", "interrupted"}

-----------------------------------------------------------------------------
(* The inductive invariant behind the properties (Sessions_proofs).        *)

\* A login that was not overtaken has what the row still has; none has while it is locked.
Fresh ==
    \A c \in Acts : stage[c] = "comparing" /\ c \notin overtaken =>
        lido[c] = Lido /\ lockedUntil # "future"

\* No row, read or written, counts more than the logins that were wrong.
Earned ==
    /\ IsFiniteSet(wrong)
    /\ \A c \in wrong : stage[c] = "over"
    /\ failedLoginAttempts <= Cardinality(wrong)
    /\ lockedUntil # "none" => Cardinality(wrong) >= MaxTentativas
    /\ \A c \in Acts : stage[c] = "comparing" => lido[c].falhas <= Cardinality(wrong)

\* Updates that do not run together find the profile empty.
Emptied ==
    ~mixed => \A c, d \in Acts : stage[c] = "creating" => lojas = {} /\ (stage[d] = "creating" => c = d)

AccessInv == AccessTypeOK /\ Fresh /\ Earned /\ CountedInTurn /\ Emptied /\ ProfileWhole
=============================================================================
