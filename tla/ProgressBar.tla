----------------------------- MODULE ProgressBar ------------------------------
(***************************************************************************)
(* ProgressBar (util/progress_bar.hpp): the one object the threads of a    *)
(* compression share.  Every public method holds m_mtx for its whole body, *)
(* so a method is one action; the modules that use the bar say who calls   *)
(* it when.  m_percentage is m_accumulate / m_workload and is not kept;    *)
(* float rounding is left out.                                             *)
(***************************************************************************)
EXTENDS Integers

CONSTANT Width  \* m_width: cells of the bar

ASSUME WidthAssumption == Width \in Nat \ {0}

VARIABLES
  m_workload,      \* what 100 % stands for
  m_accumulate,    \* the progress reported so far
  m_fill_cnt,      \* filled cells at the last refresh
  m_display_flag,  \* whether the bar is on the terminal
  line             \* what the terminal shows: cells filled, and whether full

bar_vars == <<m_workload, m_accumulate, m_fill_cnt, m_display_flag, line>>

BarTypeOK ==
  /\ m_workload \in Nat
  /\ m_accumulate \in Nat
  /\ m_fill_cnt \in 0 .. Width
  /\ m_display_flag \in BOOLEAN
  /\ line \in [fill : 0 .. Width, full : BOOLEAN]

Blank == [fill |-> 0, full |-> FALSE]

\* No bar is on display.
BarInit ==
  /\ m_workload = 0
  /\ m_accumulate = 0
  /\ m_fill_cnt = 0
  /\ m_display_flag = FALSE
  /\ line = Blank

\* The constructor, and the set_display(true) that follows it.
new_bar(workload) ==
  /\ m_workload' = workload
  /\ m_accumulate' = 0
  /\ m_fill_cnt' = 0
  /\ m_display_flag' = TRUE
  /\ line' = Blank

\* update_percentage and flush_display, m_accumulate being acc by then.
refresh(acc) ==
  LET fill == (acc * Width) \div m_workload IN
  /\ m_fill_cnt' = fill
  /\ line' = IF m_display_flag /\ (fill # m_fill_cnt \/ acc >= m_workload)
             THEN [fill |-> fill, full |-> acc = m_workload]
             ELSE line

\* Mutant: what was reported before is forgotten.
increase_progress_forgets(delta) ==
  LET acc == IF delta > m_workload THEN m_workload ELSE delta IN
  /\ m_accumulate' = acc
  /\ refresh(acc)
  /\ UNCHANGED <<m_workload, m_display_flag>>

\* Mutant: a report is counted twice.
increase_progress_twice(delta) ==
  LET sum == m_accumulate + 2 * delta
      acc == IF sum > m_workload THEN m_workload ELSE sum
  IN  /\ m_accumulate' = acc
      /\ refresh(acc)
      /\ UNCHANGED <<m_workload, m_display_flag>>

\* uniform_accumulation clamps to the workload.
increase_progress(delta) ==
  LET sum == m_accumulate + delta
      acc == IF sum > m_workload THEN m_workload ELSE sum
  IN  /\ m_accumulate' = acc
      /\ refresh(acc)
      /\ UNCHANGED <<m_workload, m_display_flag>>

\* Mutant: the bar is filled but not drawn again.
set_full_undrawn ==
  /\ m_accumulate' = m_workload
  /\ UNCHANGED <<m_workload, m_fill_cnt, m_display_flag, line>>

set_full ==
  /\ m_accumulate' = m_workload
  /\ refresh(m_workload)
  /\ UNCHANGED <<m_workload, m_display_flag>>

\* set_display(false) ends the line and leaves it on the terminal.
hide ==
  /\ m_display_flag' = FALSE
  /\ UNCHANGED <<m_workload, m_accumulate, m_fill_cnt, line>>
===============================================================================
