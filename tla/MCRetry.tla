------------------------------- MODULE MCRetry -------------------------------
(* An instance of Retry. *)
EXTENDS Retry

Config(n, initial, max, jitter) ==
    [MaxAttempts |-> n, InitialBackoff |-> initial, MaxBackoff |-> max, Jitter |-> jitter]

(* The zero value; attempts enough for 5 * 2^8 to wrap around to a delay   *)
(* below the cap; a first delay above the cap; a jitter out of range; a    *)
(* first delay that wraps to 4 units; one whose jitter is no Duration.     *)
MCConfigs == {Config(0, 0, 0, 0), Config(12, 5, 400, 0), Config(12, 5, 20, 10), Config(3, 30, 20, 5),
              Config(3, 0, 0, 17), Config(5, 257, 400, 0), Config(2, 400, 400, 5)}

(* RPC_S_SERVER_UNAVAILABLE, ERROR_DS_NO_SUCH_OBJECT, ERROR_ACCESS_DENIED  *)
(* and a code that is not in the table.                                    *)
MCCodes == {1722, 8240, 5, 1}
=============================================================================
