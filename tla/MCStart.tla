------------------------------- MODULE MCStart -------------------------------
(* The start of the kernel for TLC: machines of two devices on two buses, two *)
(* other CPUs that exist, one id that is listed and absent, firmware with     *)
(* wrong, old, new and double descriptions, and for the objects of Platform   *)
(* two other CPUs, one of them late.                                          *)
EXTENDS Start, TLC

None      == [multi |-> FALSE, funcs |-> << >>]
Single(w) == [multi |-> FALSE, funcs |-> 0 :> w]
Alias(w)  == [multi |-> FALSE, funcs |-> 0 :> w @@ 1 :> w @@ 2 :> w]
Several(f) == [multi |-> TRUE, funcs |-> f]

Ides(n) == Several([f \in 0..n |-> IF f = 0 THEN "other" ELSE "ide"])
Bochs2  == Several(0 :> "other" @@ 2 :> "bochs")

Machine(p, q) ==
  <<0, 0>> :> Single("other") @@ <<0, 1>> :> p @@ <<1, 0>> :> q @@ <<1, 1>> :> None

MCMachines ==
  {Machine(Single("ide"), None), Machine(Alias("bochs"), Single("ide")),
   Machine(Ides(1), Bochs2), Machine(Ides(2), Ides(1))}

Mode(w, d, l) == [width |-> w, height |-> 5, depth |-> d, bpl |-> (w * d) \div 8,
                  id |-> w + d, linear |-> l]

MCPrefer == [width |-> 6, height |-> 5, depth |-> 24, bpl |-> 0]

MCModeLists ==
  {<<>>, <<Mode(6, 24, FALSE), Mode(8, 8, TRUE)>>,
   <<Mode(8, 32, TRUE), Mode(6, 24, FALSE), Mode(6, 32, TRUE), Mode(8, 24, TRUE)>>,
   <<Mode(8, 16, TRUE), Mode(6, 32, TRUE)>>}

Madt(s)  == [signature |-> "APIC", entries |-> s]
Fadt     == [signature |-> "FACP", entries |-> <<>>]
Local(c) == [type |-> 0, apicId |-> c]
IoApic   == [type |-> 1, apicId |-> 0]

Good(s)  == [sum |-> TRUE, rev |-> 0, tables |-> <<Fadt, Madt(s)>>]
Wrong    == [sum |-> FALSE, rev |-> 0, tables |-> <<>>]
Newer    == [sum |-> TRUE, rev |-> 2, tables |-> <<>>]

MCAll == <<Local(0), Local(1), IoApic, Local(2), Local(3)>>

MCRoms ==
  { <<>>, <<Good(MCAll)>>, <<Wrong, Good(MCAll)>>, <<Newer>>,
    <<Good(<<Local(0), Local(1)>>), Good(<<Local(0), Local(1)>>)>>,
    <<Good(<<Local(2), Local(1), Local(0)>>), Wrong>> }
==============================================================================
