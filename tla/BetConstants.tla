---------------------------- MODULE BetConstants ----------------------------
(***************************************************************************)
(* The status codes the services store in the columns bet.status,          *)
(* bet.won, bet_slip.status and bet_slip.won.  The same small integers     *)
(* mean different things in different columns, which is why they are kept  *)
(* as the numbers of the code and not as names.                            *)
(***************************************************************************)
EXTENDS Integers

(* bet.status *)
BET_CANCELLED == -1
BET_PENDING   == 0
BET_LOST      == 1
BET_WON       == 2
BET_VOIDED    == 3
BET_CASHOUT   == 5

BetStatuses == {BET_CANCELLED, BET_PENDING, BET_LOST, BET_WON, BET_VOIDED,
                BET_CASHOUT}

(* bet_slip.status *)
BETSLIP_PROCESSING_CANCELLED == -1
BETSLIP_PROCESSING_PENDING   == 0
BETSLIP_PROCESSING_SETTLED   == 1
BETSLIP_PROCESSING_COMPLETED == 2
BETSLIP_PROCESSING_VOIDED    == 3

(* bet.won and bet_slip.won *)
STATUS_NOT_LOST_OR_WON == -1
STATUS_LOST            == 0
STATUS_WON             == 1

WonStatuses == {STATUS_NOT_LOST_OR_WON, STATUS_LOST, STATUS_WON}
=============================================================================
