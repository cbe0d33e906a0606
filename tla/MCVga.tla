-------------------------------- MODULE MCVga --------------------------------
(* Four addresses, three colours, and a shorter palette of another client.  *)
EXTENDS Vga

FewColours == <<<<0, 0, 0>>, <<128, 0, 0>>, <<255, 251, 240>>>>
OtherPalettes == {<<<<16, 32, 255>>>>}
=============================================================================
