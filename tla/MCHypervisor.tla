---------------------------- MODULE MCHypervisor ----------------------------
(* The hypervisor and its host for TLC. *)
EXTENDS Hypervisor

CONSTANTS c1, c2

Hello == [len |-> 54, body |-> "hello"]
Guest == [len |-> 4096, body |-> "guest"]
Big == [len |-> 4097, body |-> "big"]
Guests == {Hello, Guest, Big}

\* The loader hands over no image, one that fits, or one that does not; one
\* processor, several without their table, or no VMX.
Plain == [valid |-> TRUE, vmx |-> TRUE, boot_image_phys |-> FALSE, boot_image |-> Hello,
          cpu_count |-> 1, ap_apic_ids |-> FALSE]
NoVmx == [Plain EXCEPT !.vmx = FALSE]
With(i) == [Plain EXCEPT !.boot_image_phys = TRUE, !.boot_image = i, !.cpu_count = 2]

\* A creation as it should be, with an image of its own, with a label JSON has
\* to escape, and with one too long for the kernel's buffer.
Plainly == [label |-> [len |-> 3, escaped |-> FALSE], crc |-> None]
Asks == {Plainly, [Plainly EXCEPT !.crc = "guest"], [Plainly EXCEPT !.label.escaped = TRUE],
         [Plainly EXCEPT !.label.len = 13000]}

\* One caller makes and ends a VM while another looks on or makes one of its
\* own; both stage images; operations that stay on the host.
On(h, p, q, n) == [kind |-> "metal", boot |-> h, ops |-> c1 :> p @@ c2 :> q, noise |-> n]
Emulated(p, q, n) == [On(Plain, p, q, n) EXCEPT !.kind = "emulator"]
Programs == {
  On(Plain, <<"create", "start">>, <<"snapshot">>, 0),
  On(Plain, <<"create">>, <<"create", "snapshot">>, 0),
  On(With(Big), <<"stage", "create">>, <<"stage">>, 1),
  On(With(Guest), <<"stop", "delete">>, <<"list", "snapshot", "other">>, 0),
  On(NoVmx, <<"snapshot">>, <<"create">>, 0),
  Emulated(<<"create", "start", "delete">>, <<"create">>, 0),
  Emulated(<<"stage">>, <<"create", "snapshot">>, 1)}

Policies == (c1 :> "always" @@ c2 :> "never")
=============================================================================
