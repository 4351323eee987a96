------------------------------ MODULE DecodeMC ------------------------------
EXTENDS Decode
CONSTANTS t1, t2
MCInputs == {<<t1>>, <<t2>>, <<t1, t2>>}
=============================================================================
