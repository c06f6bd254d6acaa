------------------------------ MODULE MCAbBoot ------------------------------
EXTENDS AbBoot

\* no slot is bad, but each may fail in any boot
MCFlaky ==
  {d \in Device : d.flaky /\ d.badBl = {} /\ d.badKernel = {} /\ ~d.writeErrors}

MCFlakyOta ==
  {d \in Device : d.flaky /\ d.badBl = {} /\ d.badKernel = {} /\ d.mode = "none"}

\* one slot is bad in one stage, and the mode promises to survive that: without
\* redundancy only a slot just updated is on trial, and a boot loader with
\* redundancy of its own has one kernel
MCOneBad ==
  {d \in Device :
     /\ ~d.flaky
     /\ d.writeErrors
     /\ \E s \in Slots : <<d.badBl, d.badKernel>> \in {<<{s}, {}>>, <<{}, {s}>>}
     /\ d.mode = "none" => 0 \notin d.badBl \cup d.badKernel
     /\ d.mode = "bl" => d.badKernel = {}}

MCDevices == MCFlaky \cup MCOneBad
=============================================================================
