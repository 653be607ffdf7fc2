------------------------------- MODULE MCSdma -------------------------------
(* A small instance of Sdma: two SPI controllers and two dedicated lines share two
   channels, so that a reservation fails half-way and every channel has several owners.
   The thread of the second controller runs above the interrupt thread. *)
EXTENDS Sdma

McClient == {"spi1", "spi2"}
McUrgent == {"spi2"}
McLine == {"irq1", "irq2"}
=============================================================================
