-------------------------------- MODULE Rtl --------------------------------
(***************************************************************************)
(* What works on Verilog: the golden designs themselves, the mutation      *)
(* operators of the forge, the check of what they make of one design, and  *)
(* the witness tools with the two analyses they call.  Each runs to its end*)
(* before another does, so one part is looked at and the variables of the  *)
(* others stay as they are.                                                *)
(***************************************************************************)
EXTENDS Mutations, WitnessTools, Traces, Coi, Fifo, Uart, SpiMaster, FsmMiter,
        FsmMutants

VARIABLE part  \* the one that is looked at

vars == <<part, mutationVars, toolsVars, tracesVars, coiVars,
          fifoVars, uartVars, spiVars, miterVars, bmcVars>>

(* A source has signals. *)
ASSUME SignalsAssumption == Signals # {}

(* Nothing is lost by starting what is not looked at in one state only.     *)
Init ==
  /\ part \in {"mutations", "dispatch", "traces", "coi",
               "fifo", "uart", "spi_master", "fsm", "fsm_mutants"}
  /\ IF part = "mutations" THEN MutationsInit ELSE MutationsStart(<<>>)
  /\ IF part = "dispatch" THEN ToolsInit
     ELSE ToolsStart([s \in Scopes |-> NoDivergence])
  /\ IF part = "coi" THEN CoiInit ELSE CoiStart({}, CHOOSE s \in Signals : TRUE)
  /\ part = "fifo" \/ mem = [a \in Addresses |-> 0]
  /\ part = "fsm" \/ (ref_i = Cleared /\ uut_i = Cleared /\ start = 0)
  /\ part = "fsm_mutants" \/ mutant = "n0"
  /\ TracesInit /\ FifoInit /\ UartInit /\ SpiInit /\ MiterInit /\ BmcInit

MutantsProposed ==
  /\ part = "mutations" /\ MutationsNext
  /\ UNCHANGED <<part, toolsVars, tracesVars, coiVars, fifoVars, uartVars, spiVars,
                 miterVars, bmcVars>>

Dispatches ==
  /\ part = "dispatch" /\ ToolsNext
  /\ UNCHANGED <<part, mutationVars, tracesVars, coiVars, fifoVars, uartVars, spiVars,
                 miterVars, bmcVars>>

TracesCompared ==
  /\ part = "traces" /\ TracesNext
  /\ UNCHANGED <<part, mutationVars, toolsVars, coiVars, fifoVars, uartVars, spiVars,
                 miterVars, bmcVars>>

CoiComputed ==
  /\ part = "coi" /\ CoiNext
  /\ UNCHANGED <<part, mutationVars, toolsVars, tracesVars, fifoVars, uartVars, spiVars,
                 miterVars, bmcVars>>

FifoRuns ==
  /\ part = "fifo" /\ FifoNext
  /\ UNCHANGED <<part, mutationVars, toolsVars, tracesVars, coiVars, uartVars, spiVars,
                 miterVars, bmcVars>>

UartRuns ==
  /\ part = "uart" /\ UartNext
  /\ UNCHANGED <<part, mutationVars, toolsVars, tracesVars, coiVars, fifoVars, spiVars,
                 miterVars, bmcVars>>

SpiMasterRuns ==
  /\ part = "spi_master" /\ SpiNext
  /\ UNCHANGED <<part, mutationVars, toolsVars, tracesVars, coiVars, fifoVars, uartVars,
                 miterVars, bmcVars>>

FsmRuns ==
  /\ part = "fsm" /\ MiterNext
  /\ UNCHANGED <<part, mutationVars, toolsVars, tracesVars, coiVars, fifoVars, uartVars, spiVars, bmcVars>>

FsmMutantsChecked ==
  /\ part = "fsm_mutants" /\ BmcNext
  /\ UNCHANGED <<part, mutationVars, toolsVars, tracesVars, coiVars, fifoVars, uartVars, spiVars,
                 miterVars>>

Next ==
  \/ MutantsProposed \/ Dispatches \/ TracesCompared \/ CoiComputed
  \/ FifoRuns \/ UartRuns \/ SpiMasterRuns \/ FsmRuns \/ FsmMutantsChecked

Spec == Init /\ [][Next]_vars
=============================================================================
