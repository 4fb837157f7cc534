--------------------------- MODULE RegisterAccess ---------------------------
(***************************************************************************)
(* The indirect register access of rt2800lib.c that the radio enable path *)
(* depends on: the BBP read through BBP_CSR_CFG (rt2800_bbp_read), and the *)
(* MCU mailbox request (rt2800_mcu_request), both gated by a busy-bit poll *)
(* of the bus driver (rt2800_regbusy_read).                                *)
(*                                                                         *)
(* rt2800_regbusy_read is not in the repository.  As spec 4.1 describes   *)
(* it, it polls the control register REGISTER_BUSY_COUNT times and, when  *)
(* the busy bit never clears, fails and leaves the all-ones pattern in    *)
(* *reg; a read that timed out therefore returns 0xff.                    *)
(*                                                                         *)
(* The MCU runs its own firmware next to the driver.  It is modelled as   *)
(* taking a command once HOST_CMD_CSR has been written, and releasing the *)
(* mailbox (clearing H2M_MAILBOX_CSR_OWNER) when it does; how long it     *)
(* takes is not bounded, so a WAIT_FOR_MCU poll may time out.             *)
(***************************************************************************)
EXTENDS Integers, Sequences

CONSTANTS BusyCount   \* REGISTER_BUSY_COUNT, the tries of every busy poll

VARIABLES
    mailbox,    \* H2M_MAILBOX_CSR: [owner, token, arg0, arg1]
    hostCmd,    \* HOST_CMD_CSR: the last command written
    cmdRaised,  \* a HOST_CMD_CSR write the MCU has not taken yet
    mcuPc,      \* rt2800_mcu_request: "idle", "wait" (WAIT_FOR_MCU), "cmd"
    mcuReq,     \* the request in progress: [cmd, token, arg0, arg1]
    sent,       \* history: the requests whose HOST_CMD_CSR write happened
    dropped     \* history: the requests WAIT_FOR_MCU gave up on

mcuVars == <<mailbox, hostCmd, cmdRaised, mcuPc, mcuReq, sent, dropped>>

\* H2M_MAILBOX_CSR after the driver writes 0 to it.
MailboxCleared == [owner |-> 0, token |-> 0, arg0 |-> 0, arg1 |-> 0]

McuRequest(cmd, token, arg0, arg1) ==
    [cmd |-> cmd, token |-> token, arg0 |-> arg0, arg1 |-> arg1]

(***************************************************************************)
(* rt2800_bbp_read of a BBP whose busy bit never clears (stuck), or that  *)
(* answers 0x00 until its `readyAt'-th read and `version' from then on:    *)
(* the value returned by the i-th read.  A timed-out WAIT_FOR_BBP, before *)
(* or after the read request, leaves the all-ones pattern in reg.         *)
(***************************************************************************)
rt2800_bbp_read(bbp0, i) ==
    IF bbp0.stuck THEN \hff
    ELSE IF i < bbp0.readyAt THEN \h00 ELSE bbp0.version

\* Mutant: only the 0x00 answer of a BBP that is not ready is retried.
rt2800_wait_bbp_readyNoSentinel(bbp0) ==
    \E i \in 0 .. BusyCount - 1 : rt2800_bbp_read(bbp0, i) # \h00

\* rt2800_wait_bbp_ready: some read of BBP 0 within the budget is neither
\* 0x00 nor 0xff.
rt2800_wait_bbp_ready(bbp0) ==
    \E i \in 0 .. BusyCount - 1 : rt2800_bbp_read(bbp0, i) \notin {\h00, \hff}

(***************************************************************************)
(* rt2800_mcu_request(command, token, arg0, arg1), called: the csr mutex   *)
(* is taken and WAIT_FOR_MCU starts.                                       *)
(***************************************************************************)
McuCall(req) ==
    /\ mcuPc = "idle"
    /\ mcuPc' = "wait"
    /\ mcuReq' = req

(***************************************************************************)
(* WAIT_FOR_MCU, then H2M_MAILBOX_CSR: when the owner bit is clear, the    *)
(* owner, token and arguments are written into the register just read.    *)
(* When the MCU still owns the mailbox after the whole budget, the request *)
(* is given up without a word to the caller.                               *)
(***************************************************************************)
McuWait ==
    /\ mcuPc = "wait"
    /\ \/ /\ mailbox.owner = 0
          /\ mailbox' = [owner |-> 1, token |-> mcuReq.token,
                         arg0 |-> mcuReq.arg0, arg1 |-> mcuReq.arg1]
          /\ mcuPc' = "cmd"
          /\ UNCHANGED dropped
       \/ /\ mailbox.owner = 1
          /\ dropped' = Append(dropped, mcuReq)
          /\ mcuPc' = "idle"
          /\ UNCHANGED mailbox
    /\ UNCHANGED <<hostCmd, cmdRaised, mcuReq, sent>>

\* The trailing HOST_CMD_CSR write that hands the command to the MCU; the
\* mutex is released and the call returns.
McuHostCmd ==
    /\ mcuPc = "cmd"
    /\ hostCmd' = mcuReq.cmd
    /\ cmdRaised' = TRUE
    /\ sent' = Append(sent, mcuReq)
    /\ mcuPc' = "idle"
    /\ UNCHANGED <<mailbox, mcuReq, dropped>>

\* The MCU firmware takes the raised command and releases the mailbox.
McuTake ==
    /\ cmdRaised
    /\ cmdRaised' = FALSE
    /\ mailbox' = [mailbox EXCEPT !.owner = 0]
    /\ UNCHANGED <<hostCmd, mcuPc, mcuReq, sent, dropped>>
====
