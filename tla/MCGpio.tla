------------------------------- MODULE MCGpio -------------------------------
EXTENDS Gpio
MCBootPins == {<<"sw", 0>>}
=============================================================================
