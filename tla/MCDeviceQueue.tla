--------------------------- MODULE MCDeviceQueue ---------------------------
(* The finite instances of DeviceQueue. *)
EXTENDS DeviceQueue, TLC

Symmetry == Permutations(Goroutines) \cup Permutations(Buffers) \cup Permutations(Recorders)

\* One order of creation, for the runs without Device.Close.
OneOrder == {CHOOSE order \in CreationOrders : TRUE}

\* One Device.Close, which begins when no Submission is pending.
CloseAfterWait == {{"closeDevice"}, {"closeDevice", "submitAndWait"}, {"closeDevice", "wait"}}
============================================================================
