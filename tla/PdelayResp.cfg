\* The responder alone, against any sequence of requests.
SPECIFICATION RspSpec
CONSTANT SeqMod = 4
PROPERTY FupIsOfItsResp
